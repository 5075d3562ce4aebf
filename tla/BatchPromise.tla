---------------------------- MODULE BatchPromise ----------------------------
(***************************************************************************)
(* What download_batch promises its caller, with no task, permit, retry or *)
(* path in it: each URL of the list is settled once, a success only after  *)
(* its image was written to the end, and the batch is answered once, every *)
(* position with what its URL came to.  Without a deadline all URLs are    *)
(* settled by then; with one, those that are not, or that nobody had       *)
(* looked at yet, time out.  An image may still be written after that.     *)
(***************************************************************************)
EXTENDS Functions

CONSTANTS
    Urls,
    Inputs,   \* the lists of URLs a batch may be called with
    Errors,   \* what a download may fail with
    Deadline  \* the batch has a deadline

VARIABLES
    batch,    \* the list of this call
    stored,   \* the URLs whose image was written to the end
    verdict,  \* URL -> what it came to, while the batch is open
    open,     \* the batch was not answered yet
    answers   \* what the caller gets

promiseVars == <<batch, stored, verdict, open, answers>>

Verdicts == Errors \cup {"none", "TaskPanicked"}
Settled == {u \in Range(batch) : verdict[u] # "pending"}

PInit ==
    /\ batch \in Inputs
    /\ stored = {}
    /\ verdict = [u \in Urls |-> "pending"]
    /\ open = TRUE
    /\ answers = <<>>

Store(u) ==
    /\ u \in Range(batch) \ stored
    /\ stored' = stored \cup {u}
    /\ UNCHANGED <<batch, verdict, open, answers>>

Settle(u, v) ==
    /\ open
    /\ u \in Range(batch) /\ verdict[u] = "pending"
    /\ v = "none" => u \in stored
    /\ verdict' = [verdict EXCEPT ![u] = v]
    /\ UNCHANGED <<batch, stored, open, answers>>

\* The URLs in `heard` are answered with their verdicts; then all is forgotten.
Answer(heard, otherwise) ==
    /\ open
    /\ answers' = [i \in DOMAIN batch |->
                     [url |-> batch[i],
                      error |-> IF batch[i] \in heard THEN verdict[batch[i]] ELSE otherwise]]
    /\ open' = FALSE
    /\ verdict' = [u \in Urls |-> "pending"]
    /\ UNCHANGED <<batch, stored>>

AnswerAll == Settled = Range(batch) /\ Answer(Settled, "Timeout")
AnswerInTime == Deadline /\ \E heard \in SUBSET Settled : Answer(heard, "Timeout")
Refuse == Settled = {} /\ Answer({}, "WriteError")

PNext ==
    \/ \E u \in Urls : Store(u) \/ \E v \in Verdicts : Settle(u, v)
    \/ AnswerAll \/ AnswerInTime \/ Refuse

PSpec == PInit /\ [][PNext]_promiseVars
=============================================================================
