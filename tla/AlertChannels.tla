--------------------------- MODULE AlertChannels ---------------------------
(***************************************************************************)
(* The anomaly types of services/anomaly-service and the Redis channels    *)
(* their alerts are published to (app/config.py, publish_alerts).          *)
(***************************************************************************)

AdminTypes == {"ERRATIC_DRIVING", "INACTIVE_GPS",
               "TRIP_NOT_STARTED_DEVICE_ACTIVE", "COMMUNICATION_LOSS",
               "OFF_ROUTE", "PERSISTENT_OFF_ROUTE", "UNREALISTIC_SPEED",
               "STATIONARY"}
DriverTypes == {"OFF_ROUTE", "PERSISTENT_OFF_ROUTE", "UNREALISTIC_SPEED",
                "STATIONARY"}
PassengerTypes == {"STATIONARY"}
AnomalyTypes == AdminTypes

\* An alert of a type nobody is listed for goes to the administrators.
Audiences(type) ==
    {c \in {"anomaly:admin", "anomaly:driver", "anomaly:passenger"} :
        \/ c = "anomaly:admin" /\ (type \in AdminTypes
                                   \/ type \notin DriverTypes \union
                                                  PassengerTypes)
        \/ c = "anomaly:driver" /\ type \in DriverTypes
        \/ c = "anomaly:passenger" /\ type \in PassengerTypes}
=============================================================================
