----------------------------- MODULE MCGuildFeed -----------------------------
(* Instances of GuildFeed small enough for TLC. *)
EXTENDS GuildFeed, TLC

CONSTANTS u1, u2, c1, c2, c3

TwoOfOne == c1 :> u1 @@ c2 :> u1
OneEach == c1 :> u1 @@ c2 :> u2
GuildSymmetry == Permutations(Guilds)
=============================================================================
