------------------------------- MODULE Wiring -------------------------------
(***************************************************************************)
(* The registrations of build_container: the lifetime of each service and  *)
(* what its factory resolves, in the order of the code.                    *)
(***************************************************************************)
EXTENDS Sequences

Singletons == {"Settings", "ApplicationServices"}
Transients == {"TokenService", "EmailPublisher", "EmailFilter", "RedisRateLimiter",
               "EmailFilterWarmer"}
Scoped == {"AsyncSession", "AuthRepository", "EmailAvailabilityService", "AuthService",
           "OAuthService", "AuthController"}

AppTypes == Singletons \cup Transients \cup Scoped

AppLifetime == [t \in AppTypes |->
    CASE t \in Singletons -> "singleton"
      [] t \in Transients -> "transient"
      [] t \in Scoped     -> "scoped"]

AppDeps == [t \in AppTypes |->
    CASE t = "Settings"            -> <<>>
      [] t = "ApplicationServices" -> <<"Settings">>
      [] t = "AsyncSession"        -> <<"ApplicationServices">>
      [] t = "AuthRepository"      -> <<"AsyncSession">>
      [] t \in {"TokenService", "EmailFilter"} -> <<"ApplicationServices", "Settings">>
      [] t \in {"EmailPublisher", "RedisRateLimiter"} -> <<"ApplicationServices">>
      [] t = "EmailFilterWarmer"   -> <<"ApplicationServices", "ApplicationServices", "Settings">>
      [] t = "EmailAvailabilityService" ->
            <<"AuthRepository", "EmailFilter", "RedisRateLimiter", "Settings">>
      [] t = "AuthService" ->
            <<"AuthRepository", "TokenService", "ApplicationServices", "EmailPublisher",
              "EmailFilter", "Settings">>
      [] t = "OAuthService" ->
            <<"AuthRepository", "TokenService", "ApplicationServices", "EmailFilter", "Settings">>
      [] t = "AuthController" ->
            <<"AuthService", "OAuthService", "TokenService", "EmailAvailabilityService",
              "Settings">>]

(* Every factory resolves services of lower layers only. *)
AppLayer == [t \in AppTypes |->
    CASE t = "Settings" -> 0
      [] t = "ApplicationServices" -> 1
      [] t \in Transients \cup {"AsyncSession"} -> 2
      [] t = "AuthRepository" -> 3
      [] t \in {"EmailAvailabilityService", "AuthService", "OAuthService"} -> 4
      [] t = "AuthController" -> 5]

(* Only the session has a close method. *)
AppDisposable == {"AsyncSession"}
=============================================================================
