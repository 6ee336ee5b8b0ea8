------------------------- MODULE CredentialBatches -------------------------
(***************************************************************************)
(* How a joining member has the credentials of the tree authenticated      *)
(* (validateRatchetTree, validation.ts:281-380): one by one when the       *)
(* application allows one call at a time, and else in batches that         *)
(* mapConcurrent (util/array.ts:6-33) hands to concurrent workers.  The    *)
(* application's service answers in any order, and a call of it may fail.  *)
(***************************************************************************)
EXTENDS Integers, Sequences, SequencesExt

CONSTANTS MaxConcurrencies, BatchSizes  \* the settings of the authentication service

ASSUME SettingsAssumption == MaxConcurrencies \subseteq Int /\ BatchSizes \subseteq Int

VARIABLES
  maxConcurrency, batchSize,
  credentials,  \* of the leaves of the tree in their order: TRUE if the service accepts it
  nextIndex,    \* the next batch to be taken
  waiting,      \* the batches whose call has not been answered
  failing,      \* some call has failed
  results,      \* by batch, the answer: "ok", "error", or "none"
  asked,        \* by credential, how often the service was asked about it
  verdict       \* "none", and then "valid", "invalid", "usage" or "throws"

credentialVars == <<maxConcurrency, batchSize, credentials, nextIndex, waiting, failing, results, asked, verdict>>

Individually == maxConcurrency = 1

\* A batch is cut off when it has batchSize credentials; what is left over is one more.
Batches ==
  LET n == Len(credentials)
      size == IF Individually THEN 1 ELSE IF batchSize < 1 THEN n ELSE batchSize
      count == IF n = 0 THEN 0 ELSE ((n - 1) \div size) + 1
  IN  [b \in 1 .. count |-> {i \in 1 .. n : (i - 1) \div size = b - 1}]

Workers == IF maxConcurrency < Len(Batches) THEN maxConcurrency ELSE Len(Batches)

\* The indices are taken synchronously, each before the call it is taken for.
TakenBy(workers) == nextIndex .. nextIndex + workers - 1

Ask(batches) ==
  asked' = [i \in DOMAIN asked |-> asked[i] + IF \E b \in batches : i \in Batches[b] THEN 1 ELSE 0]

CredentialsInit(trees) ==
  /\ maxConcurrency \in MaxConcurrencies /\ batchSize \in BatchSizes
  /\ credentials \in trees
  /\ nextIndex = 1 /\ waiting = {} /\ failing = FALSE
  /\ results = [b \in DOMAIN Batches |-> "none"]
  /\ asked = [i \in DOMAIN credentials |-> 0]
  /\ verdict = IF maxConcurrency < 1 THEN "usage" ELSE IF credentials = <<>> THEN "valid" ELSE "none"

\* All workers start at once, and each makes its first call.
StartWorkers ==
  /\ verdict = "none" /\ nextIndex = 1
  /\ waiting' = TakenBy(Workers)
  /\ nextIndex' = 1 + Workers
  /\ Ask(waiting')
  /\ UNCHANGED <<maxConcurrency, batchSize, credentials, failing, results, verdict>>

\* The first error, in the order of the tree, is the one that is reported.
Judge(rs) ==
  IF \E b \in DOMAIN rs : rs[b] = "error" THEN "invalid"
  ELSE IF \A b \in DOMAIN rs : rs[b] = "ok" THEN "valid" ELSE "none"

\* Checked one by one, the first error ends the validation.
Stops(rs) == Individually /\ Judge(rs) = "invalid"

Record(b, answer) == results' = [results EXCEPT ![b] = answer]

GoOnWithSameIndex(b) ==  \* mutant: the index is advanced by the workers that start only
  LET next == IF nextIndex <= Len(Batches) /\ ~Stops(results') THEN {nextIndex} ELSE {}
  IN  waiting' = (waiting \ {b}) \union next /\ nextIndex' = nextIndex /\ Ask(next)

\* The worker whose call is answered takes the next index, if one is left.
GoOn(b) ==
  LET next == IF nextIndex <= Len(Batches) /\ ~Stops(results') THEN {nextIndex} ELSE {}
  IN  /\ waiting' = (waiting \ {b}) \union next
      /\ nextIndex' = IF next = {} THEN nextIndex ELSE nextIndex + 1
      /\ Ask(next)

Answered(b) ==
  /\ Record(b, IF \A i \in Batches[b] : credentials[i] THEN "ok" ELSE "error")
  /\ GoOn(b)
  /\ verdict' = IF waiting' = {} /\ verdict = "none" THEN Judge(results') ELSE verdict
  /\ UNCHANGED <<maxConcurrency, batchSize, credentials, failing>>

\* The worker ends, and the validation throws; the other workers are not stopped.
Failed(b) ==
  /\ waiting' = waiting \ {b}
  /\ failing' = TRUE
  /\ verdict' = "throws"
  /\ UNCHANGED <<maxConcurrency, batchSize, credentials, nextIndex, results, asked>>

CredentialsNext == StartWorkers \/ \E b \in waiting : Answered(b) \/ Failed(b)

\* The validation of any tree.
CredentialsSpec == CredentialsInit(Seq(BOOLEAN)) /\ [][CredentialsNext]_credentialVars

-----------------------------------------------------------------------------
(***************************************************************************)
(* Whatever the order of the answers, the number of calls at a time and    *)
(* the size of the batches: a tree is accepted only if every credential    *)
(* was put to the service, once, and accepted; it is rejected only if one  *)
(* was not, and no more calls than allowed wait at a time.  After a call   *)
(* fails the verdict stands, though the other workers take what is left    *)
(* (util/array.ts:15-32, validation.ts:366-380).                           *)
(***************************************************************************)
VerdictIsTheTrees ==
  /\ verdict = "valid" => \A i \in DOMAIN credentials : credentials[i] /\ asked[i] = 1
  /\ verdict = "invalid" => \E i \in DOMAIN credentials : ~credentials[i] /\ asked[i] = 1
  /\ (verdict = "throws") = failing
  /\ \A i \in DOMAIN asked : asked[i] <= 1
  /\ Cardinality(waiting) <= IF maxConcurrency < 1 THEN 0 ELSE maxConcurrency
  /\ waiting = {} /\ nextIndex > 1 => verdict # "none"
=============================================================================
