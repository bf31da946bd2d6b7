---------------------------- MODULE RouteCatalog ----------------------------
(***************************************************************************)
(* services/route-service: routes and their stops, read from uploaded KML  *)
(* files (app/services/kml_service.py) by handlers that run in a pool of   *)
(* threads, each with a database session of its own.                       *)
(*                                                                         *)
(* A handler reads first and writes later, and others commit in between;   *)
(* the database is Postgres under READ COMMITTED.  add-route replaces a    *)
(* route of the same name in two transactions, PUT in one.  A row that was *)
(* read and is gone when it is to be deleted is passed over; one that is   *)
(* gone when it is to be updated is an error.                              *)
(*                                                                         *)
(* A file is the sequence of its stops' names; its line and the places of  *)
(* the stops are left out.  Stops are found again by name, for ever: a     *)
(* stop is its name.  Uploads are numbered, and a link remembers its own.  *)
(*                                                                         *)
(* When the stream job opens, it copies the routes: their lines with one   *)
(* request, and the stops of each with another, later on (open and         *)
(* app/utils/route_client.py of services/stream-processing).  One route is *)
(* followed in that.                                                       *)
(***************************************************************************)
EXTENDS Naturals, Sequences, FiniteSets

CONSTANTS
    Names,       \* names of routes
    Files,       \* sequences of names of stops, two or more, for an upload
    MaxRoutes,   \* bound: ids of routes, given out by a sequence
    MaxUploads,  \* bound: uploads, good or bad
    MaxDbErrors  \* bound: errors of the database

ASSUME CatalogAssumption ==
    /\ "none" \notin Names
    /\ \A f \in Files : /\ Len(f) \in Nat /\ Len(f) >= 2
                       /\ DOMAIN f = 1 .. Len(f)
    /\ {MaxRoutes, MaxUploads, MaxDbErrors} \subseteq Nat

VARIABLES
    route,      \* id -> its row, or NoRoute
    nextRoute,  \* the sequence of ids
    links,      \* route_stop_links
    stops,      \* names in the table of stops
    uploads,    \* uploads so far
    upload,     \* number -> where its handler is
    dbErrors,
    overlapped, \* routes with two replacements under way at once (history)
    copy,       \* what the stream job has of the route it copies; replaced:
                \* was the route replaced after its line was read? (history)
    kept        \* names uploaded and not taken away since (history)

catalogVars == <<route, nextRoute, links, stops, uploads, upload, dbErrors,
                 overlapped, copy, kept>>

-----------------------------------------------------------------------------
Ids == 1 .. MaxRoutes
Uploads == 1 .. MaxUploads
NoRoute == [name |-> "none", file |-> <<>>, upload |-> 0]
Row == [name : Names, file : Files, upload : Uploads]
StopNames == UNION {{f[i] : i \in DOMAIN f} : f \in Files}
Link == [route : Ids, order : Nat, stop : StopNames, upload : Uploads]

Idle == [pc |-> "idle"]
NoCopy == [at |-> "none"]
Exists(r) == route[r] # NoRoute
Named(n) == {r \in Ids : route[r].name = n}
LinksOf(r) == {l \in links : l.route = r}

CatalogInit ==
    /\ route = [r \in Ids |-> NoRoute]
    /\ nextRoute = 1
    /\ links = {}
    /\ stops = {}
    /\ uploads = 0
    /\ upload = [u \in Uploads |-> Idle]
    /\ dbErrors = 0
    /\ overlapped = {}
    /\ copy = NoCopy
    /\ kept = {}

-----------------------------------------------------------------------------
(* What the handlers share.                                                 *)

Begins(u, at) ==
    /\ uploads < MaxUploads /\ u = uploads + 1
    /\ uploads' = u
    /\ upload' = [upload EXCEPT ![u] = at]

Ends(u) == upload' = [upload EXCEPT ![u] = Idle]

\* The stops of f for which the handler found no row.
Missing(f) == {f[i] : i \in DOMAIN f} \ stops

NewLinks(u, r, f) ==
    {[route |-> r, order |-> i, stop |-> f[i], upload |-> u] : i \in DOMAIN f}

\* The names of stops are unique.  Where another has inserted one by now that
\* was missing, the handler finds it, if it looks for that stop only now, and
\* fails, if it had looked before.
StopsAreNew(u) == upload[u].missing \intersect stops = {}

\* parse_kml_file raises ValueError: the answer is 400.
BadFile(u, n) ==
    /\ Begins(u, Idle)
    /\ UNCHANGED <<route, nextRoute, links, stops, dbErrors, overlapped,
                   copy, kept>>

-----------------------------------------------------------------------------
(* add-route: import_kml_file.                                              *)

ImportReads(u, n, f) ==
    /\ Begins(u, [pc |-> "delete", name |-> n, file |-> f,
                  found |-> Named(n)])
    /\ UNCHANGED <<route, nextRoute, links, stops, dbErrors, overlapped,
                   copy, kept>>

\* The route found is deleted, its links with it, and that is committed.
ImportDeletes(u) ==
    /\ upload[u].pc = "delete"
    /\ LET found == upload[u].found IN
       /\ route' = [r \in Ids |-> IF r \in found THEN NoRoute ELSE route[r]]
       /\ links' = {l \in links : l.route \notin found}
       \* The row may have been given another name by now.
       /\ kept' = kept \ ({route[r].name : r \in found}
                             \ {upload[u].name})
    /\ upload' = [upload EXCEPT ![u] =
                    [pc |-> "insert", name |-> upload[u].name,
                     file |-> upload[u].file,
                     missing |-> Missing(upload[u].file)]]
    /\ UNCHANGED <<nextRoute, stops, uploads, dbErrors, overlapped, copy>>

ImportInserts(u) ==
    /\ upload[u].pc = "insert" /\ nextRoute \in Ids
    /\ Named(upload[u].name) = {}
    /\ route' = [route EXCEPT ![nextRoute] =
                   [name |-> upload[u].name, file |-> upload[u].file,
                    upload |-> u]]
    /\ nextRoute' = nextRoute + 1
    /\ links' = links \union NewLinks(u, nextRoute, upload[u].file)
    /\ stops' = stops \union upload[u].missing
    /\ kept' = kept \union {upload[u].name}
    /\ Ends(u)
    /\ UNCHANGED <<uploads, dbErrors, overlapped, copy>>

DbError == dbErrors < MaxDbErrors /\ dbErrors' = dbErrors + 1

\* The insertion is rolled back, the deletion is not.
ImportFails(u) ==
    /\ upload[u].pc = "insert"
    /\ \/ DbError
       \/ Named(upload[u].name) # {} /\ dbErrors' = dbErrors
       \/ ~StopsAreNew(u) /\ dbErrors' = dbErrors
    /\ kept' = IF Named(upload[u].name) = {} THEN kept \ {upload[u].name}
                                              ELSE kept
    /\ Ends(u)
    /\ UNCHANGED <<route, nextRoute, links, stops, uploads, overlapped, copy>>

-----------------------------------------------------------------------------
(* PUT and DELETE.                                                          *)

PutReads(u, r, n, f) ==
    /\ Exists(r)
    /\ Begins(u, [pc |-> "put", id |-> r, name |-> n, file |-> f,
                  seen |-> LinksOf(r), missing |-> Missing(f)])
    /\ UNCHANGED <<route, nextRoute, links, stops, dbErrors, overlapped,
                   copy, kept>>

\* Has the line of r been copied, and its stops not yet?
Copying(r) == copy.at = "line" /\ copy.route = r

Others(u, r) == {v \in Uploads \ {u} : upload[v].pc = "put"
                                       /\ upload[v].id = r}

\* Mutant of PutWrites: the links of before are not cleared.
PutWrites_kept(u) ==
    /\ upload[u].pc = "put"
    /\ LET r == upload[u].id IN
       /\ Exists(r) /\ Named(upload[u].name) \subseteq {r}
       /\ route' = [route EXCEPT ![r] = [name |-> upload[u].name,
                                         file |-> upload[u].file,
                                         upload |-> u]]
       /\ links' = links \union NewLinks(u, r, upload[u].file)
       /\ overlapped' = IF Others(u, r) = {} THEN overlapped
                                             ELSE overlapped \union {r}
       /\ copy' = IF Copying(r) THEN [copy EXCEPT !.replaced = TRUE] ELSE copy
       /\ kept' = (kept \ {route[r].name}) \union {upload[u].name}
    /\ stops' = stops \union upload[u].missing
    /\ Ends(u)
    /\ UNCHANGED <<nextRoute, uploads, dbErrors>>

\* stop_links.clear() deletes the links that were read.
PutWrites(u) ==
    /\ upload[u].pc = "put"
    /\ LET r == upload[u].id IN
       /\ Exists(r) /\ Named(upload[u].name) \subseteq {r}
       /\ route' = [route EXCEPT ![r] = [name |-> upload[u].name,
                                         file |-> upload[u].file,
                                         upload |-> u]]
       /\ links' = (links \ upload[u].seen)
                     \union NewLinks(u, r, upload[u].file)
       /\ overlapped' = IF Others(u, r) = {} THEN overlapped
                                             ELSE overlapped \union {r}
       /\ copy' = IF Copying(r) THEN [copy EXCEPT !.replaced = TRUE] ELSE copy
       /\ kept' = (kept \ {route[r].name}) \union {upload[u].name}
    /\ stops' = stops \union upload[u].missing
    /\ Ends(u)
    /\ UNCHANGED <<nextRoute, uploads, dbErrors>>

\* "Route update failed. Existing route was kept."
PutFails(u) ==
    /\ upload[u].pc = "put"
    /\ LET r == upload[u].id IN
       \/ DbError
       \/ /\ ~Exists(r) \/ ~(Named(upload[u].name) \subseteq {r})
             \/ ~StopsAreNew(u)
          /\ dbErrors' = dbErrors
    /\ Ends(u)
    /\ UNCHANGED <<route, nextRoute, links, stops, uploads, overlapped,
                   copy, kept>>

DeleteRoute(r) ==
    /\ Exists(r)
    /\ route' = [route EXCEPT ![r] = NoRoute]
    /\ links' = links \ LinksOf(r)
    /\ kept' = kept \ {route[r].name}
    /\ UNCHANGED <<nextRoute, stops, uploads, upload, dbErrors, overlapped,
                   copy>>

-----------------------------------------------------------------------------
(* The readers.                                                             *)

\* search_routes, for the stops near the two ends.
Search(from, to) ==
    {r \in Ids : \E s, e \in LinksOf(r) :
        s.stop \in from /\ e.stop \in to /\ s.order < e.order}

\* get_route_stops, ordered by stop_order.
StopsOf(r) == {<<l.order, l.stop>> : l \in LinksOf(r)}

\* get_routes_for_stop.
RoutesOf(s) == {r \in Ids : \E l \in LinksOf(r) : l.stop = s}

\* /internal/routes/geometry: the line is that of the file in its row.
CopyLine(r) ==
    /\ copy.at = "none" /\ Exists(r)
    /\ copy' = [at |-> "line", route |-> r, line |-> route[r].file,
                replaced |-> FALSE]
    /\ UNCHANGED <<route, nextRoute, links, stops, uploads, upload, dbErrors,
                   overlapped, kept>>

\* /internal/routes/{routeId}/stops, for which a request that fails counts as
\* an answer without stops.
CopyStops ==
    /\ copy.at = "line"
    /\ \E answer \in {StopsOf(copy.route), {}} :
          copy' = [at |-> "both", route |-> copy.route, line |-> copy.line,
                   replaced |-> copy.replaced, stops |-> answer]
    /\ UNCHANGED <<route, nextRoute, links, stops, uploads, upload, dbErrors,
                   overlapped, kept>>

CatalogNext ==
    \/ \E u \in Uploads : \E n \in Names :
          \/ BadFile(u, n)
          \/ \E f \in Files :
                \/ ImportReads(u, n, f)
                \/ \E r \in Ids : PutReads(u, r, n, f)
    \/ \E u \in Uploads : \/ ImportDeletes(u) \/ ImportInserts(u)
                          \/ ImportFails(u) \/ PutWrites(u) \/ PutFails(u)
    \/ \E r \in Ids : DeleteRoute(r) \/ CopyLine(r)
    \/ CopyStops

CatalogSpec == CatalogInit /\ [][CatalogNext]_catalogVars

-----------------------------------------------------------------------------
(* Properties.                                                              *)

\* Where the handler of an upload may be, and what it has read by then.
Handler ==
    [pc : {"delete"}, name : Names, file : Files, found : SUBSET Ids]
      \union [pc : {"insert"}, name : Names, file : Files,
              missing : SUBSET StopNames]
      \union [pc : {"put"}, id : Ids, name : Names, file : Files,
              seen : SUBSET Link, missing : SUBSET StopNames]

\* What the stream job may have copied.
Copied ==
    [at : {"line"}, route : Ids, line : Files, replaced : BOOLEAN]
      \union [at : {"both"}, route : Ids, line : Files, replaced : BOOLEAN,
              stops : SUBSET (Nat \X StopNames)]

\* Every variable keeps to its type (copy: see CopyFollows).
CatalogTypeOK ==
    /\ route \in [Ids -> Row \union {NoRoute}]
    /\ nextRoute \in 1 .. MaxRoutes + 1
    /\ links \subseteq Link
    /\ \A l \in links : Exists(l.route) /\ l.stop \in stops
    /\ stops \subseteq StopNames
    /\ uploads \in 0 .. MaxUploads
    /\ upload \in [Uploads -> {Idle} \union Handler]
    /\ dbErrors \in 0 .. MaxDbErrors
    /\ overlapped \subseteq Ids /\ kept \subseteq Names

StopsIn(f) == {<<i, f[i]>> : i \in DOMAIN f}

\* The stops of a route in the database are those of the file its line is
\* from, in its order, unless two replacements of the route overlapped: then
\* it has the stops of both.
StopsOfItsFile ==
    \A r \in Ids \ overlapped :
        Exists(r) => StopsOf(r) = StopsIn(route[r].file)

\* What the stream job measures one along the other, the line of a route and
\* its stops, is from one file, although it asks for them with two requests:
\* unless a replacement was committed between these, and then it has the stops
\* of a whole file still, or two replacements overlapped.  It has no stops at
\* all where the second request failed, or the route was deleted by then.
CopyIsOfOneFile ==
    (copy.at = "both" /\ copy.route \notin overlapped) =>
        \/ copy.stops \in {{}, StopsIn(copy.line)}
        \/ copy.replaced /\ \E f \in Files : copy.stops = StopsIn(f)

\* A route that was uploaded can be found under its name until it is deleted,
\* or renamed, or an import of that name broke off after its deletion: a file
\* that is refused costs nothing.
UploadedStays ==
    \A n \in kept : \/ Named(n) # {}
                   \/ \E u \in Uploads : upload[u].pc = "insert"
                                         /\ upload[u].name = n

\* A passenger is offered a route from one stop to another just when its file
\* has the first before the second, and both stops name that route, however
\* many routes share them.
FoundWhereItRuns ==
    \A r \in Ids \ overlapped : \A s, e \in StopNames :
        LET f == route[r].file IN
        /\ r \in Search({s}, {e})
              <=> \E i, j \in DOMAIN f : i < j /\ f[i] = s /\ f[j] = e
        /\ r \in Search({s}, {e}) => r \in RoutesOf(s) \intersect RoutesOf(e)

\* Why: ids and uploads are given out in order, a handler that is about to
\* write knows of every stop of its file, and a replacement has read just the
\* links it is to replace, unless another of the same route came in between.
GivenInOrder ==
    /\ \A r \in Ids : Exists(r) => r < nextRoute
    /\ \A u \in Uploads : /\ u > uploads => upload[u] = Idle
                          /\ upload[u].pc = "put" => upload[u].id < nextRoute

KnowsItsStops ==
    \A u \in Uploads : upload[u].pc \in {"insert", "put"} =>
        LET f == upload[u].file IN
        {f[i] : i \in DOMAIN f} \subseteq stops \union upload[u].missing

SeenIsCurrent ==
    \A u \in Uploads : upload[u].pc = "put" =>
        /\ \A l \in upload[u].seen : l.route = upload[u].id
        /\ (Exists(upload[u].id) /\ upload[u].id \notin overlapped) =>
              upload[u].seen = LinksOf(upload[u].id)

\* The row of the route being copied still has the line that was copied.
CopyFollows ==
    /\ copy \in {NoCopy} \union Copied
    /\ copy.at = "line" =>
          /\ copy.route < nextRoute
          /\ (Exists(copy.route) /\ ~copy.replaced) =>
                route[copy.route].file = copy.line

\* The catalog holds routes whole: with the stops of one file in its order,
\* under their names, found where they run, and copied as they were, however
\* uploads, deletions and the two requests of a copy overlap.
CatalogInv ==
    /\ CatalogTypeOK
    /\ GivenInOrder
    /\ KnowsItsStops
    /\ SeenIsCurrent
    /\ CopyFollows
    /\ StopsOfItsFile
    /\ CopyIsOfOneFile
    /\ UploadedStays
    /\ FoundWhereItRuns
=============================================================================
