---------------------------- MODULE MCPresenceHub ----------------------------
(* Instances of PresenceHub small enough for TLC. *)
EXTENDS PresenceHub, TLC

CONSTANTS u1, u2, c1, c2

\* Two accounts with a socket each.
OneEach == c1 :> u1 @@ c2 :> u2
\* One account on a desktop client and in a browser.
Together == c1 :> u1 @@ c2 :> u1
Devices == c1 :> 3 @@ c2 :> 1
=============================================================================
