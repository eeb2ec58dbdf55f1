-------------------------- MODULE GameServerService --------------------------
(***************************************************************************)
(* The game server as an implementation of GameService.                    *)
(***************************************************************************)
EXTENDS GameServer

\* The players known of are those of the pages still connected; a player counts
\* as announced from its first response on.
Service == INSTANCE GameService WITH
  Players <- Sessions,
  id <- player_id,
  issued <- clock,
  online <- DOMAIN users_map_main,
  announced <- {s \in Sessions : user_json[s] # 0},
  roster <- [s \in Sessions |-> IF conn[s] = "open" THEN known[s] ELSE {}],
  made <- moves,
  relayed <- last_relayed

\* Requests overwritten in the buffer, moves collected for the tick, the order of
\* the tick's entries, gem acknowledgments that carry no moves and a server that
\* has come down: whatever GameServer does with players that log in once, each
\* step is one of GameService or changes nothing that it speaks of.
ImplementsService == Service!Spec

=============================================================================
