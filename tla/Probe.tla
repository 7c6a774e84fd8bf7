------------------------------- MODULE Probe --------------------------------
(***************************************************************************)
(* The evaluation probe (leelo-probe) and the exchange of the network      *)
(* client (leelo-net exchange) that it shares with an unlock.              *)
(*                                                                         *)
(* An attempt reads the provider configuration, blinds a public input,     *)
(* exchanges one request with the evaluator under one timer, verifies the  *)
(* evaluation under the configured key, and replaces the last-run textfile.*)
(* Attempts may overlap on one textfile.  The evaluator may answer with    *)
(* anything, in chunks of any size, or stop answering; the timer cancels   *)
(* the exchange at whatever await it is suspended in; any file call may    *)
(* fail; an attempt may be killed; power may be lost, which keeps of the   *)
(* directory and of unsynced data anything.                                *)
(*                                                                         *)
(* TLS, DNS and connecting are one step that yields the head of a response *)
(* of the validated peer or fails.  A report is the attempt that made it   *)
(* with the fields that the gauges export.                                 *)
(***************************************************************************)
EXTENDS Naturals, FiniteSets

CONSTANTS
  Attempts,         \* invocations of the probe
  RESPONSE_BYTES,   \* of the wire protocol
  MaxDisturbances   \* bound on failures of the machine, kills and power losses

ASSUME ResponseAssumption == RESPONSE_BYTES \in Nat \ {0}

VARIABLES
  pc,             \* where each attempt is
  received,       \* bytes buffered by exchange
  declared,       \* Content-Length: a set of at most one length
  reply,          \* what the evaluation received is worth
  certificate,    \* peer_certificate_der, parsed: seen or not
  outcome,        \* Outcome of the report
  collection_success,  \* of the report
  temporary,      \* the attempt's temporary file
  file,           \* the textfile: a set of at most one report
  surviving,      \* what a power loss may leave of it
  exit,           \* exit status, 3 before the attempt has ended
  answered,       \* history: attempts that saw the certificate of their peer
  published,      \* history: attempts whose report replaced the textfile
  disturbances

attempt == <<pc, received, declared, reply, certificate, outcome, collection_success>>
textfile == <<temporary, file, surviving, published>>
vars == <<attempt, textfile, exit, answered, disturbances>>

Outcomes == {"success", "configuration", "transport", "timeout", "remote_rejected",
             "invalid_response", "invalid_proof", "cryptography", "runtime"}

Init ==
  /\ pc = [a \in Attempts |-> "start"]
  /\ received = [a \in Attempts |-> 0]
  /\ declared = [a \in Attempts |-> {}]
  /\ reply = [a \in Attempts |-> "none"]
  /\ certificate = [a \in Attempts |-> FALSE]
  /\ outcome = [a \in Attempts |-> "success"]
  /\ collection_success = [a \in Attempts |-> FALSE]
  /\ temporary = [a \in Attempts |-> "none"]
  /\ file = {}
  /\ surviving = {{}}
  /\ exit = [a \in Attempts |-> 3]
  /\ answered = {}
  /\ published = {}
  /\ disturbances = 0

-----------------------------------------------------------------------------
At(a, places) == pc[a] \in places

Go(a, place) == pc' = [pc EXCEPT ![a] = place]

Disturb ==
  /\ disturbances < MaxDisturbances
  /\ disturbances' = disturbances + 1

\* The closure of run returns an error; the report is completed from there.
Fails(a, why) == Go(a, "report") /\ outcome' = [outcome EXCEPT ![a] = why]

Proceeds(a, place) == Go(a, place) /\ UNCHANGED outcome

aside == <<collection_success, textfile, exit>>

\* Configuration, pin and blind: errors of the local machine, one of them the
\* runtime that evaluate_binding_observed starts.
Start(a) ==
  /\ At(a, {"start"})
  /\ \/ Proceeds(a, "send") /\ UNCHANGED disturbances
     \/ Disturb /\ \E why \in {"configuration", "cryptography", "runtime"} : Fails(a, why)
  /\ UNCHANGED <<received, declared, reply, certificate, aside, answered>>

\* exchange up to the checks of the response head.  The certificate, unless it is
\* oversized or unreadable, is stored in the caller's variable at once.
ResponseHead(a) ==
  /\ At(a, {"send"})
  /\ \E readable, ok, typed \in BOOLEAN,
        length \in {{}} \cup {{n} : n \in 0..(RESPONSE_BYTES + 1)} :
       /\ certificate' = [certificate EXCEPT ![a] = readable]
       /\ answered' = IF readable THEN answered \cup {a} ELSE answered
       /\ \/ /\ ~ok
             /\ Fails(a, "remote_rejected")
             /\ UNCHANGED declared
          \/ /\ ok /\ (~typed \/ length \notin {{}, {RESPONSE_BYTES}})
             /\ Fails(a, "invalid_response")
             /\ UNCHANGED declared
          \/ /\ ok /\ typed /\ length \in {{}, {RESPONSE_BYTES}}
             /\ Proceeds(a, "body")
             /\ declared' = [declared EXCEPT ![a] = length]
  /\ UNCHANGED <<received, reply, aside, disturbances>>

TooLong(a, n) == received[a] + n > RESPONSE_BYTES

\* A chunk of n bytes; the HTTP library delivers no more than a declared length.
Chunk(a) ==
  /\ At(a, {"body"})
  /\ \E n \in 1..(RESPONSE_BYTES + 1) :
       /\ \A length \in declared[a] : received[a] + n <= length
       /\ \/ /\ TooLong(a, n)
             /\ Fails(a, "invalid_response")
             /\ UNCHANGED received
          \/ /\ ~TooLong(a, n)
             /\ received' = [received EXCEPT ![a] = @ + n]
             /\ UNCHANGED <<pc, outcome>>
  /\ UNCHANGED <<declared, reply, certificate, aside, answered, disturbances>>

\* The body ends and decode_response takes it for an evaluation or not.
EndOfBody(a) ==
  /\ At(a, {"body"})
  /\ \A length \in declared[a] : received[a] = length
  /\ \/ /\ received[a] = RESPONSE_BYTES
        /\ \E worth \in {"proved", "unproved", "garbled", "unusable"} :
             reply' = [reply EXCEPT ![a] = worth]
        /\ Proceeds(a, "finalize")
     \/ Fails(a, "invalid_response") /\ UNCHANGED reply
  /\ UNCHANGED <<received, declared, certificate, aside, answered, disturbances>>

\* transport_error: connecting, the handshake, or a body cut short; the client's
\* own timeouts count as timeouts.
ExchangeFails(a) ==
  /\ At(a, {"send", "body"})
  /\ \E why \in {"transport", "timeout"} : Fails(a, why)
  /\ UNCHANGED <<received, declared, reply, certificate, aside, answered, disturbances>>

\* The timer of evaluate_binding_observed drops the exchange at its await.
Expire(a) ==
  /\ At(a, {"send", "body"})
  /\ Fails(a, "timeout")
  /\ UNCHANGED <<received, declared, reply, certificate, aside, answered, disturbances>>

\* A mistake: a well-formed evaluation is a success.
verdict_framing(worth) == IF worth = "garbled" THEN "invalid_response" ELSE "success"

verdict(worth) ==
  IF worth = "proved" THEN "success"
  ELSE IF worth = "unproved" THEN "invalid_proof"
  ELSE IF worth = "garbled" THEN "invalid_response"
  ELSE "cryptography"

\* finalize verifies the proof under the pin of the configuration.
Finalize(a) ==
  /\ At(a, {"finalize"})
  /\ Fails(a, verdict(reply[a]))
  /\ UNCHANGED <<received, declared, reply, certificate, aside, answered, disturbances>>

success(a) == outcome[a] = "success"

collected(a, clock_valid) == clock_valid /\ (success(a) => certificate[a])

\* The second timestamp: the wall clock is readable and did not go back, or not.
Complete(a) ==
  /\ At(a, {"report"})
  /\ \E clock_valid \in BOOLEAN :
       collection_success' = [collection_success EXCEPT ![a] = collected(a, clock_valid)]
  /\ Proceeds(a, "create")
  /\ UNCHANGED <<received, declared, reply, certificate, textfile, exit, answered,
                 disturbances>>

-----------------------------------------------------------------------------
\* The gauges of a report.  A torn file is a report that is not whole.
prometheus(a) ==
  [by |-> a, whole |-> TRUE, success |-> success(a), outcome |-> outcome[a],
   certificate |-> certificate[a], collection_success |-> collection_success[a]]

Torn(report) == [report EXCEPT !.whole = FALSE]

\* A mistake: the data is not synced before the rename.
write_calls_unsynced == [create |-> "write", write |-> "rename"]

\* write_textfile: what follows each call on the temporary file.
write_calls == [create |-> "write", write |-> "sync", sync |-> "rename"]

unmoved == <<received, declared, reply, certificate, outcome, answered>>

\* The next call of write_textfile on the temporary file.
Prepare(a) ==
  /\ At(a, DOMAIN write_calls)
  /\ temporary' = [temporary EXCEPT ![a] = pc[a]]
  /\ Go(a, write_calls[pc[a]])
  /\ UNCHANGED <<unmoved, collection_success, file, surviving, published, exit,
                 disturbances>>

\* A mistake: the report does not say that its file was not written.
WriteFails_silent(a) ==
  /\ At(a, DOMAIN write_calls \cup {"rename"})
  /\ Disturb
  /\ temporary' = [temporary EXCEPT ![a] = "none"]
  /\ Go(a, "print")
  /\ UNCHANGED <<unmoved, collection_success, file, surviving, published, exit>>

\* It fails, or the rename does: the temporary file is removed and the textfile
\* keeps what it had.
WriteFails(a) ==
  /\ At(a, DOMAIN write_calls \cup {"rename"})
  /\ Disturb
  /\ temporary' = [temporary EXCEPT ![a] = "none"]
  /\ collection_success' = [collection_success EXCEPT ![a] = FALSE]
  /\ Go(a, "print")
  /\ UNCHANGED <<unmoved, file, surviving, published, exit>>

\* persist replaces the textfile; the directory is not synced.
Rename(a) ==
  /\ At(a, {"rename"})
  /\ file' = {prometheus(a)}
  /\ surviving' = surviving \cup {file'} \cup
       (IF temporary[a] = "sync" THEN {} ELSE {{Torn(prometheus(a))}})
  /\ temporary' = [temporary EXCEPT ![a] = "none"]
  /\ published' = published \cup {a}
  /\ Go(a, "print")
  /\ UNCHANGED <<unmoved, collection_success, exit, disturbances>>

exit_code(a) ==
  IF ~collection_success[a] THEN 2 ELSE IF success(a) THEN 0 ELSE 1

\* main prints the report and returns.
PrintReport(a) ==
  /\ At(a, {"print"})
  /\ exit' = [exit EXCEPT ![a] = exit_code(a)]
  /\ Go(a, "done")
  /\ UNCHANGED <<unmoved, collection_success, textfile, disturbances>>

\* The report cannot be serialised, or println! panics on a closed output.
PrintFails(a) ==
  /\ At(a, {"print"})
  /\ Disturb
  /\ \E status \in {2, 101} : exit' = [exit EXCEPT ![a] = status]
  /\ Go(a, "done")
  /\ UNCHANGED <<unmoved, collection_success, textfile>>

Kill(a) ==
  /\ ~At(a, {"done", "killed"})
  /\ Disturb
  /\ Go(a, "killed")
  /\ UNCHANGED <<unmoved, collection_success, textfile, exit>>

PowerLoss ==
  /\ Disturb
  /\ pc' = [a \in Attempts |-> IF pc[a] \in {"start", "done"} THEN pc[a] ELSE "killed"]
  /\ file' \in surviving
  /\ surviving' = {file'}
  /\ temporary' = [a \in Attempts |-> "none"]
  /\ UNCHANGED <<unmoved, collection_success, published, exit>>

-----------------------------------------------------------------------------
\* What the attempt does by itself, without waiting for the evaluator.
Local(a) ==
  \/ Start(a) \/ Finalize(a) \/ Complete(a) \/ Prepare(a) \/ Rename(a)
  \/ PrintReport(a)

\* What the evaluator and the network make of the exchange.
Remote(a) == ResponseHead(a) \/ Chunk(a) \/ EndOfBody(a) \/ ExchangeFails(a)

Next ==
  \/ \E a \in Attempts :
       \/ Local(a) \/ Remote(a) \/ Expire(a)
       \/ WriteFails(a) \/ PrintFails(a) \/ Kill(a)
  \/ PowerLoss

Spec == Init /\ [][Next]_vars

-----------------------------------------------------------------------------
\* run and write_textfile: whoever reads the textfile, at any time and after any
\* power loss, finds one whole report and never a mixture or the beginning of one.
\* If it says success, its own attempt received a response of exactly the right
\* length and verified the proof in it under the pin; and it has a certificate
\* exactly if that attempt saw one, also when the timer dropped the exchange.
TextfileTruthful ==
  \A report \in file :
    /\ report.whole
    /\ report.success =>
         received[report.by] = RESPONSE_BYTES /\ reply[report.by] = "proved"
    /\ report.certificate <=> report.by \in answered

\* exchange never buffers more than a response, whatever the chunks.
BufferBounded == \A a \in Attempts : received[a] <= RESPONSE_BYTES

\* main: an exit status other than 2 is of an attempt whose report replaced the
\* textfile, and status 0 of one that verified a proof and saw a certificate.
ExitTellsFile ==
  \A a \in Attempts :
    /\ exit[a] \in {0, 1} => a \in published
    /\ exit[a] = 0 => reply[a] = "proved" /\ a \in answered

=============================================================================
