--------------------------- MODULE SessionManager ---------------------------
(***************************************************************************)
(* The session data of one VTOP client (vtop-core, session.rs and the      *)
(* ClientState of client/mod.rs) as a value: each operator is one setter.  *)
(* A CSRF token and a cookie are known by the VTOP session they belong to, *)
(* a natural number; None is "no such value".                              *)
(***************************************************************************)
EXTENDS Naturals

CONSTANT Sessions  \* VTOP's sessions, the ones the client may hold

ASSUME SessionsAssumption == Sessions \subseteq Nat \ {0}

None == 0

(***************************************************************************)
(* auth   AuthState                                                        *)
(* csrf   the session whose CSRF token is held                             *)
(* ext    the session of external_cookie_header                            *)
(* regno  whether a registration number is held                            *)
(* stage  AuthStage                                                        *)
(* age    logged_in_at against the app's Session Reuse setting             *)
(***************************************************************************)
Client == [auth: {"anonymous", "restored", "authenticated"},
           csrf: Sessions \cup {None},
           ext: Sessions \cup {None},
           regno: BOOLEAN,
           stage: {"idle", "login", "otp"},
           age: {"unknown", "young", "old"}]

Cleared == [auth |-> "anonymous", csrf |-> None, ext |-> None,
            regno |-> FALSE, stage |-> "idle", age |-> "unknown"]

SetCsrf(c, s) == [c EXCEPT !.csrf = s]

\* A page that names the student: its CSRF token and registration number.
SetFields(c, s) == [c EXCEPT !.csrf = s, !.regno = TRUE]

SetAuthenticated(c) ==
  [c EXCEPT !.auth = IF c.csrf = None THEN "anonymous" ELSE "authenticated"]

\* set_cookie_external(false)
LeaveExternal(c) ==
  [c EXCEPT !.auth = IF @ = "authenticated" /\ c.csrf # None
                     THEN @ ELSE "anonymous"]

SetExternal(c, s) == [c EXCEPT !.ext = s, !.auth = "restored"]

HasUsable(c) == c.auth = "authenticated" /\ c.csrf # None /\ c.regno

\* finish_login and finish_otp
Finish(c) ==
  [LeaveExternal(SetAuthenticated(c)) EXCEPT !.stage = "idle", !.age = "young"]

(***************************************************************************)
(* resume_session: everything of the old session goes, then the snapshot   *)
(* of session s is taken: "signed" has a CSRF token and a registration     *)
(* number, "otp" waits for the emailed code, "cookies" has neither.        *)
(***************************************************************************)
Resumed(s, kind, age) ==
  LET imported == [SetExternal(Cleared, s) EXCEPT !.age = age]
      tokened  == SetCsrf(imported, s)
  IN CASE kind = "signed"  -> SetAuthenticated(SetFields(imported, s))
       [] kind = "otp"     -> [LeaveExternal(tokened) EXCEPT !.stage = "otp"]
       [] kind = "cookies" -> imported
=============================================================================
