--------------------------- MODULE MCAccountSession --------------------------
(* Small instances of AccountSession.  The times keep the order of the      *)
(* code's: Wait < Timeout < Keep < Ttl < Cache.                             *)
EXTENDS AccountSession

CONSTANTS slot1, slot2, alarm

TwoSlots == {slot1, slot2}

Opening(session, vault, always, ttl) ==
  [session |-> session, sessionAt |-> session, vault |-> vault, vaultAt |-> vault,
   rejected |-> FALSE, always |-> always, ttl |-> ttl]

(* Accounts with saved credentials: phone first, vault first, with a cached *)
(* session.                                                                 *)
PhoneFirst == Opening(0, 1, FALSE, FALSE)
VaultFirst == Opening(0, 1, TRUE, FALSE)
Signed == Opening(1, 1, TRUE, FALSE)

One == [opening |-> PhoneFirst, ops |-> {"session"}, calls |-> 1,
        time |-> 3, crashes |-> 0, alarm |-> 0]

(* One session call with a crash; one that takes until it expires; one      *)
(* beside another, an app sign-in or a link, at an account with a cached    *)
(* session; one beside the app's and the phone's changes of the row; saved  *)
(* credentials that expire.                                                 *)
Meeting ==
  {[One EXCEPT !.crashes = 1],
   [One EXCEPT !.opening = VaultFirst, !.time = 4, !.alarm = 2],
   [One EXCEPT !.opening = Signed, !.ops = {"session", "app", "link"}, !.calls = 2, !.time = 1],
   [One EXCEPT !.opening = VaultFirst, !.calls = 2, !.time = 1,
               !.ops = {"session", "reject", "forget", "expire", "settings"}],
   [One EXCEPT !.opening = Opening(0, 1, TRUE, TRUE), !.time = 7]}

(* A phone that may stay silent.                                            *)
Silent == {[One EXCEPT !.crashes = 1]}
==============================================================================
