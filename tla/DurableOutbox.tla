---------------------------- MODULE DurableOutbox ----------------------------
(***************************************************************************)
(* What the durable upload queue promises to the code that submits to it:  *)
(* an at-least-once outbox.  A job is a record whose "sequence" names it,  *)
(* whose "region" says what it publishes and whose "sha" is the content    *)
(* recorded for it when it was accepted.                                   *)
(*   - a job enters the outbox once, under a sequence never used before;   *)
(*   - a delivery makes exactly the recorded content public;               *)
(*   - a job leaves the outbox only after it was delivered.                *)
(* Threads, files, retries, crashes and restarts do not appear.            *)
(***************************************************************************)
CONSTANTS Job,       \* the records that may be submitted
          Regions,   \* what a job can publish
          Missing    \* the content of a region that was never published

VARIABLES pending,   \* accepted and not yet acknowledged
          delivered, \* delivered at least once
          accepted,  \* every job the outbox ever took
          remote     \* the public content of each region

outboxVars == <<pending, delivered, accepted, remote>>

Init == /\ pending = {}
        /\ delivered = {}
        /\ accepted = {}
        /\ remote = [r \in Regions |-> Missing]

Accept(j) == /\ \A k \in accepted : k.sequence # j.sequence
             /\ pending' = pending \cup {j}
             /\ accepted' = accepted \cup {j}
             /\ UNCHANGED <<delivered, remote>>

Deliver(j) == /\ j \in pending
              /\ delivered' = delivered \cup {j}
              /\ remote' = [remote EXCEPT ![j.region] = j.sha]
              /\ UNCHANGED <<pending, accepted>>

Acknowledge(j) == /\ j \in pending
                  /\ j \in delivered
                  /\ pending' = pending \ {j}
                  /\ UNCHANGED <<delivered, accepted, remote>>

Next == \E j \in Job : Accept(j) \/ Deliver(j) \/ Acknowledge(j)

Spec == Init /\ [][Next]_outboxVars
==============================================================================
