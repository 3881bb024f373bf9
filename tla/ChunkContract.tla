---------------------------- MODULE ChunkContract ----------------------------
(***************************************************************************)
(* What the farm promises about the chunks of its jobs, without queues,    *)
(* threads, reports or fences.  A chunk is open, held by one node, done,   *)
(* given up or stopped; only its holder finishes or fails it; a node that  *)
(* failed it does not hold it again; it is given up only when as many      *)
(* different nodes failed it as the job allows.                            *)
(*                                                                         *)
(* Where nobody interferes (Revocable is FALSE) what is done or given up   *)
(* is so for good.  Operators and reverted dispatches may put any chunk    *)
(* back, with or without what is known of the nodes that failed it.        *)
(***************************************************************************)
EXTENDS Naturals, FiniteSets

CONSTANTS Nodes, Chunks, MaxRetries, None,
          Revocable    \* chunks may be stopped or put back at any time

VARIABLE status

Status == [state : {"open", "held", "done", "givenUp", "stopped"},
           holder : Nodes \cup {None}, tried : SUBSET Nodes]

Init == status = [c \in Chunks |-> [state |-> "open", holder |-> None, tried |-> {}]]

(* What may become of one chunk, from s to t. *)

Take(s, t) ==
    /\ s.state = "open"
    /\ \E n \in Nodes \ s.tried : t = [state |-> "held", holder |-> n, tried |-> s.tried]

\* The holder died or never got the chunk.
Return(s, t) ==
    /\ s.state = "held"
    /\ t = [state |-> "open", holder |-> None, tried |-> s.tried]

Finish(s, t) ==
    /\ s.state = "held"
    /\ t = [s EXCEPT !.state = "done"]

Fail(s, t) ==
    /\ s.state = "held"
    /\ t.tried = s.tried \cup {s.holder}
    /\ \/ t.state = "open" /\ t.holder = None
       \/ /\ t.state = "givenUp" /\ t.holder = s.holder
          /\ Cardinality(t.tried) >= MaxRetries

Revoke(s, t) ==
    /\ Revocable
    /\ t.state \in {"open", "stopped"} /\ t.holder = None
    /\ t.tried \in {s.tried, {}}

Step(s, t) == Take(s, t) \/ Return(s, t) \/ Finish(s, t) \/ Fail(s, t) \/ Revoke(s, t)

\* One event may concern several chunks: a dead node's, a whole job's.
Next ==
    /\ status' \in [Chunks -> Status]
    /\ \A c \in Chunks : status'[c] = status[c] \/ Step(status[c], status'[c])

Spec == Init /\ [][Next]_status
=============================================================================
