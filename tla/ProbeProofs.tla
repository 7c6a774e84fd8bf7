---------------------------- MODULE ProbeProofs -----------------------------
(***************************************************************************)
(* For any number of attempts, any response size and any number of         *)
(* disturbances, the textfile and the exit status of the probe tell what   *)
(* happened.                                                               *)
(*                                                                         *)
(* The properties speak of the attempt behind a report, whose variables    *)
(* could still change.  The strengthening says that only an attempt whose  *)
(* findings are settled has a report that can be read, now or after a      *)
(* power loss, and what an attempt has established at each place of its    *)
(* course.                                                                 *)
(***************************************************************************)
EXTENDS Probe, TLAPS

\* Places after the closure of run has returned.
After == {"report", "create", "write", "sync", "rename", "print", "done"}

\* Places at which an attempt finds out nothing more.
Settled == {"print", "done", "killed"}

Worths == {"none", "proved", "unproved", "garbled", "unusable"}

Types ==
  /\ pc \in [Attempts -> {"start", "send", "body", "finalize", "killed"} \cup After]
  /\ received \in [Attempts -> Nat]
  /\ reply \in [Attempts -> Worths]
  /\ certificate \in [Attempts -> BOOLEAN]
  /\ outcome \in [Attempts -> Outcomes]
  /\ collection_success \in [Attempts -> BOOLEAN]
  /\ temporary \in [Attempts -> {"none", "create", "write", "sync"}]
  /\ exit \in [Attempts -> {0, 1, 2, 3, 101}]

\* What attempt a has established where it is.
Sound(a) ==
  /\ received[a] <= RESPONSE_BYTES
  /\ pc[a] = "finalize" => received[a] = RESPONSE_BYTES /\ reply[a] # "none"
  /\ pc[a] \in After /\ success(a) => received[a] = RESPONSE_BYTES /\ reply[a] = "proved"
  /\ pc[a] \in {"start", "send"} => a \notin answered
  /\ certificate[a] <=> a \in answered
  /\ pc[a] = "rename" => temporary[a] = "sync"
  /\ /\ pc[a] \in {"create", "write", "sync", "rename", "print"}
     /\ collection_success[a]
     /\ success(a)
     => a \in answered
  /\ pc[a] = "print" /\ collection_success[a] => a \in published
  /\ exit[a] # 3 => pc[a] = "done"
  /\ exit[a] \in {0, 1} => a \in published
  /\ exit[a] = 0 => reply[a] = "proved" /\ a \in answered

\* What a report that can be read says of its attempt.
Faithful(report) ==
  /\ report.by \in Attempts
  /\ pc[report.by] \in Settled
  /\ report.whole
  /\ report.success => received[report.by] = RESPONSE_BYTES /\ reply[report.by] = "proved"
  /\ report.certificate <=> report.by \in answered

Readable == \A content \in surviving : \A report \in content : Faithful(report)

IInv == Types /\ (\A a \in Attempts : Sound(a)) /\ file \in surviving /\ Readable

-----------------------------------------------------------------------------
\* A step that leaves the textfile alone, and the findings of the attempts that
\* are settled, changes nothing that a report speaks of.
LEMMA QuietStep ==
  ASSUME IInv, file' = file, surviving' = surviving,
         \A b \in Attempts :
           pc[b] \in Settled =>
             /\ pc'[b] \in Settled
             /\ received'[b] = received[b]
             /\ reply'[b] = reply[b]
             /\ b \in answered' <=> b \in answered
  PROVE  file' \in surviving' /\ Readable'
  BY DEF IInv, Readable, Faithful

\* Nothing happens to the soundness of the attempts that do not move.
LEMMA OthersStaySound ==
  ASSUME IInv, NEW a \in Attempts, NEW b \in Attempts \ {a},
         pc'[b] = pc[b], received'[b] = received[b], reply'[b] = reply[b],
         certificate'[b] = certificate[b], outcome'[b] = outcome[b],
         collection_success'[b] = collection_success[b],
         temporary'[b] = temporary[b], exit'[b] = exit[b],
         b \in answered' <=> b \in answered,
         b \in published => b \in published'
  PROVE  Sound(b)'
  BY DEF IInv, Sound, success

\* The probe starts with an empty textfile and attempts that know nothing.
LEMMA InitSound == Init => IInv
  BY ResponseAssumption DEF ResponseAssumption, Init, IInv, Types, Sound, Readable, success,
     After, Outcomes, Worths

\* Every step of an attempt before its report, and of the evaluator it talks to.
LEMMA ExchangeSound ==
  ASSUME IInv, NEW a \in Attempts,
         \/ Start(a) \/ ResponseHead(a) \/ Chunk(a) \/ EndOfBody(a) \/ ExchangeFails(a)
         \/ Expire(a) \/ Finalize(a) \/ Complete(a)
  PROVE  IInv'
<1> USE DEF At, Go, Fails, Proceeds, aside, textfile
<1>1. Types'
  <2>1. CASE Start(a)
    BY <2>1 DEF IInv, Types, Start, After, Outcomes
  <2>2. CASE ResponseHead(a)
    BY <2>2 DEF IInv, Types, ResponseHead, After, Outcomes
  <2>3. CASE Chunk(a)
    BY <2>3, ResponseAssumption DEF ResponseAssumption, IInv, Types, Chunk, After, Outcomes
  <2>4. CASE EndOfBody(a)
    BY <2>4 DEF IInv, Types, EndOfBody, After, Outcomes, Worths
  <2>5. CASE ExchangeFails(a)
    BY <2>5 DEF IInv, Types, ExchangeFails, After, Outcomes
  <2>6. CASE Expire(a)
    BY <2>6 DEF IInv, Types, Expire, After, Outcomes
  <2>7. CASE Finalize(a)
    BY <2>7 DEF IInv, Types, Finalize, Sound, verdict, After, Outcomes, Worths
  <2>8. CASE Complete(a)
    BY <2>8 DEF IInv, Types, Complete, collected, success, After, Outcomes
  <2>9. QED
    BY <2>1, <2>2, <2>3, <2>4, <2>5, <2>6, <2>7, <2>8
<1>2. /\ pc[a] \notin Settled
      /\ file' = file /\ surviving' = surviving /\ temporary' = temporary
      /\ published' = published /\ exit' = exit
  BY DEF Start, ResponseHead, Chunk, EndOfBody, ExchangeFails, Expire, Finalize, Complete,
     Settled
<1>3. \A b \in Attempts \ {a} :
        /\ pc'[b] = pc[b]
        /\ received'[b] = received[b]
        /\ reply'[b] = reply[b]
        /\ certificate'[b] = certificate[b]
        /\ outcome'[b] = outcome[b]
        /\ collection_success'[b] = collection_success[b]
        /\ b \in answered' <=> b \in answered
  BY DEF IInv, Types, Start, ResponseHead, Chunk, EndOfBody, ExchangeFails, Expire, Finalize,
     Complete
<1>4. file' \in surviving' /\ Readable'
  BY <1>2, <1>3, QuietStep
<1>5. \A b \in Attempts \ {a} : Sound(b)'
  BY <1>2, <1>3, OthersStaySound
<1>6. Sound(a)'
  <2> USE DEF IInv, Types, Sound, success, After
  <2>1. CASE Start(a)
    BY <2>1 DEF Start
  <2>2. CASE ResponseHead(a)
    <3>1. PICK readable \in BOOLEAN :
            /\ certificate' = [certificate EXCEPT ![a] = readable]
            /\ answered' = IF readable THEN answered \cup {a} ELSE answered
      BY <2>2 DEF ResponseHead
    <3>2. exit[a] = 3 /\ pc[a] = "send"
      BY <2>2 DEF ResponseHead
    <3>3. a \notin answered
      BY <3>2
    <3>4. certificate'[a] <=> a \in answered'
      BY <3>1, <3>3, Zenon
    <3>5. QED
      BY <2>2, <3>2, <3>4 DEF ResponseHead
  <2>3. CASE Chunk(a)
    BY <2>3, ResponseAssumption DEF ResponseAssumption, Chunk, TooLong
  <2>4. CASE EndOfBody(a)
    BY <2>4 DEF EndOfBody
  <2>5. CASE ExchangeFails(a)
    BY <2>5 DEF ExchangeFails
  <2>6. CASE Expire(a)
    BY <2>6 DEF Expire
  <2>7. CASE Finalize(a)
    BY <2>7 DEF Finalize, verdict, Worths
  <2>8. CASE Complete(a)
    BY <2>8 DEF Complete, collected
  <2>9. QED
    BY <2>1, <2>2, <2>3, <2>4, <2>5, <2>6, <2>7, <2>8
<1>7. QED
  BY <1>1, <1>4, <1>5, <1>6 DEF IInv

\* The calls of write_textfile before the rename, the end of main, and an attempt
\* that is killed.
LEMMA PrepareSound ==
  ASSUME IInv, NEW a \in Attempts,
         Prepare(a) \/ WriteFails(a) \/ PrintReport(a) \/ PrintFails(a) \/ Kill(a)
  PROVE  IInv'
<1> USE DEF At, Go, unmoved, textfile, write_calls
<1>1. exit_code(a) \in {0, 1, 2}
  BY DEF exit_code
<1>2. Types'
  <2>1. CASE Prepare(a)
    BY <2>1 DEF IInv, Types, Prepare, After
  <2>2. CASE WriteFails(a)
    BY <2>2 DEF IInv, Types, WriteFails, After
  <2>3. CASE PrintReport(a)
    BY <1>1, <2>3 DEF IInv, Types, PrintReport, After
  <2>4. CASE PrintFails(a)
    BY <2>4 DEF IInv, Types, PrintFails, After
  <2>5. CASE Kill(a)
    BY <2>5 DEF IInv, Types, Kill, After
  <2>6. QED
    BY <2>1, <2>2, <2>3, <2>4, <2>5
<1>3. /\ pc[a] \in Settled => pc'[a] \in Settled
      /\ file' = file /\ surviving' = surviving /\ published' = published
      /\ received' = received /\ reply' = reply /\ certificate' = certificate
      /\ outcome' = outcome /\ answered' = answered
  BY DEF IInv, Types, Prepare, WriteFails, PrintReport, PrintFails, Kill, Settled
<1>4. \A b \in Attempts \ {a} :
        /\ pc'[b] = pc[b] /\ temporary'[b] = temporary[b] /\ exit'[b] = exit[b]
        /\ collection_success'[b] = collection_success[b]
  BY DEF IInv, Types, Prepare, WriteFails, PrintReport, PrintFails, Kill
<1>5. file' \in surviving' /\ Readable'
  BY <1>3, <1>4, QuietStep
<1>6. \A b \in Attempts \ {a} : Sound(b)'
  BY <1>3, <1>4, OthersStaySound
<1>7. Sound(a)'
  <2> USE DEF IInv, Types, Sound, success, After
  <2>1. CASE Prepare(a)
    BY <2>1 DEF Prepare
  <2>2. CASE WriteFails(a)
    BY <2>2 DEF WriteFails
  <2>3. CASE PrintReport(a)
    BY <1>3, <2>3 DEF PrintReport, exit_code
  <2>4. CASE PrintFails(a)
    BY <2>4 DEF PrintFails
  <2>5. CASE Kill(a)
    BY <2>5 DEF Kill
  <2>6. QED
    BY <2>1, <2>2, <2>3, <2>4, <2>5
<1>8. QED
  BY <1>2, <1>5, <1>6, <1>7 DEF IInv

\* The rename makes a new report readable.  It is the report of an attempt that
\* is settled from this step on, and its data was synced, so that no torn copy can
\* survive.
LEMMA RenameSound ==
  ASSUME IInv, NEW a \in Attempts, Rename(a)
  PROVE  IInv'
<1> USE DEF At, Go, unmoved
<1> DEFINE new == prometheus(a)
<1>1. Types'
  BY DEF IInv, Types, Rename, After
<1>2. /\ pc[a] = "rename" /\ pc'[a] = "print"
      /\ \A b \in Attempts \ {a} :
           pc'[b] = pc[b] /\ temporary'[b] = temporary[b]
      /\ published' = published \cup {a}
      /\ received' = received /\ reply' = reply /\ certificate' = certificate
      /\ outcome' = outcome /\ answered' = answered /\ exit' = exit
      /\ collection_success' = collection_success
  BY DEF IInv, Types, Rename
<1>3. file' = {new} /\ surviving' = surviving \cup {{new}}
  BY <1>2 DEF Rename, IInv, Sound
<1>4. ASSUME NEW report, report = new
      PROVE  Faithful(report)'
  <2>1. /\ new.by = a
        /\ new.whole = TRUE
        /\ new.success = success(a)
        /\ new.certificate = certificate[a]
    BY DEF prometheus
  <2>2. success(a) => received[a] = RESPONSE_BYTES /\ reply[a] = "proved"
    BY <1>2 DEF IInv, Sound, After
  <2>3. certificate[a] <=> a \in answered
    BY DEF IInv, Sound
  <2>4. QED
    BY <1>2, <1>4, <2>1, <2>2, <2>3 DEF Faithful, Settled
<1>5. \A content \in surviving : \A report \in content : Faithful(report)'
  BY <1>2 DEF IInv, Readable, Faithful, Settled
<1>6. file' \in surviving' /\ Readable'
  BY <1>3, <1>4, <1>5 DEF Readable
<1>7. \A b \in Attempts \ {a} : Sound(b)'
  BY <1>2, OthersStaySound
<1>8. Sound(a)'
  BY <1>2 DEF IInv, Types, Sound, success, After
<1>9. QED
  BY <1>1, <1>6, <1>7, <1>8 DEF IInv

\* A power loss leaves one of the contents that could survive, and ends attempts
\* without making one of them done.
LEMMA PowerLossSound ==
  ASSUME IInv, PowerLoss
  PROVE  IInv'
<1> USE DEF unmoved
<1>1. Types'
  BY DEF IInv, Types, PowerLoss, After
<1>2. /\ published' = published /\ exit' = exit
      /\ received' = received /\ reply' = reply /\ certificate' = certificate
      /\ outcome' = outcome /\ answered' = answered
      /\ file' \in surviving /\ surviving' = {file'}
  BY DEF PowerLoss
<1>3. \A a \in Attempts :
        /\ pc[a] = "done" => pc'[a] = "done"
        /\ pc[a] \in Settled => pc'[a] \in Settled
        /\ pc'[a] \in {pc[a], "killed"}
        /\ pc'[a] \in {"start", "done", "killed"}
  BY DEF PowerLoss, Settled
<1>4. \A report \in file' : Faithful(report)'
  BY <1>2, <1>3 DEF IInv, Readable, Faithful
<1>5. \A a \in Attempts : Sound(a)'
  BY <1>2, <1>3 DEF IInv, Types, Sound, success, After
<1>6. QED
  BY <1>1, <1>2, <1>4, <1>5 DEF IInv, Readable

\* Every step preserves the strengthening.
LEMMA NextSound == IInv /\ [Next]_vars => IInv'
<1> SUFFICES ASSUME IInv, [Next]_vars PROVE IInv'
  OBVIOUS
<1>1. CASE UNCHANGED vars
  BY <1>1 DEF vars, attempt, textfile, IInv, Types, Sound, Readable, Faithful, success
<1>2. CASE PowerLoss
  BY <1>2, PowerLossSound
<1>3. ASSUME NEW a \in Attempts,
             \/ Local(a) \/ Remote(a) \/ Expire(a)
             \/ WriteFails(a) \/ PrintFails(a) \/ Kill(a)
      PROVE  IInv'
  BY <1>3, ExchangeSound, PrepareSound, RenameSound DEF Local, Remote
<1>4. QED
  BY <1>1, <1>2, <1>3 DEF Next

\* Whoever reads the textfile, at any time and after any power loss, finds one
\* whole report, whose success was proved under the pin and whose certificate is
\* the one its own attempt saw; exchange buffers no more than a response; and
\* the exit status of the probe tells what the textfile got.
THEOREM ProbeTellsTheTruth ==
  Spec => [](TextfileTruthful /\ BufferBounded /\ ExitTellsFile)
<1>1. IInv => TextfileTruthful /\ BufferBounded /\ ExitTellsFile
  <2> SUFFICES ASSUME IInv
               PROVE  TextfileTruthful /\ BufferBounded /\ ExitTellsFile
    OBVIOUS
  <2>1. \A report \in file : Faithful(report)
    BY DEF IInv, Readable
  <2>2. TextfileTruthful
    BY <2>1 DEF Faithful, TextfileTruthful
  <2>3. BufferBounded /\ ExitTellsFile
    BY DEF IInv, Sound, BufferBounded, ExitTellsFile
  <2>4. QED
    BY <2>2, <2>3
<1>2. QED
  BY InitSound, NextSound, <1>1, PTL DEF Spec

\* main exits with 0 or 1 only for an attempt whose report is the one that replaced
\* the textfile, and with 0 only when that attempt verified a proof and recorded a
\* certificate: whoever reads the exit status knows what the file was made from.
THEOREM ExitIsTruthful == Spec => []ExitTellsFile
BY ProbeTellsTheTruth, PTL
=============================================================================
