---------------------------- MODULE CampaignStore ----------------------------
(***************************************************************************)
(* What the campaign save promises: one durable campaign that a save       *)
(* replaces in a single step, that survives the end of the process         *)
(* anywhere, and that every start and every F9 gives back whole.           *)
(***************************************************************************)
CONSTANTS
  Chunks,      \* addresses of the chunks a player may touch
  Values,      \* what a touched chunk may hold
  Base,        \* an untouched chunk
  NoCampaign   \* nothing has been saved

VARIABLES
  durable,  \* the campaign a start would find, or NoCampaign
  world,    \* the world in memory
  running   \* a game process exists

vars == <<durable, world, running>>

World == [Chunks -> Values \union {Base}]
EmptyWorld == [c \in Chunks |-> Base]

Init ==
  /\ durable \in World \union {NoCampaign}
  /\ world = EmptyWorld
  /\ running = FALSE

\* A start and an F9 give back the durable campaign; without one the world
\* stays as it is.
Load ==
  /\ world' = IF durable = NoCampaign THEN world ELSE durable
  /\ running' = TRUE
  /\ UNCHANGED durable

Edit ==
  /\ running
  /\ \E c \in Chunks, v \in Values \union {Base} : world' = [world EXCEPT ![c] = v]
  /\ UNCHANGED <<durable, running>>

Commit ==
  /\ running
  /\ durable' = world
  /\ UNCHANGED <<world, running>>

Stop ==
  /\ running
  /\ running' = FALSE
  /\ world' = EmptyWorld
  /\ UNCHANGED durable

Next == Load \/ Edit \/ Commit \/ Stop

Spec == Init /\ [][Next]_vars

=============================================================================
