------------------------------ MODULE VoiceUpload ------------------------------
(***************************************************************************)
(* What happens at Telegram while workers send voice jobs of one account:   *)
(* send_voice_note uploads the file part by part and then sends a message   *)
(* that names the uploaded file.  The parts are kept by the file's id.      *)
(* stable_file_id makes it from the name and the first 1024 bytes, so two   *)
(* files can share one (a recording replaced by another one of the same     *)
(* start); a new attempt, or another worker's, writes over the parts.  All  *)
(* recordings have the same number of parts.                                *)
(*                                                                          *)
(* Telegram is external: a part replaces what was stored under its id and   *)
(* number, a message is taken when the stored parts have the checksum it    *)
(* names, and a message that comes twice with one random id is taken once.  *)
(* Claims and locks of jobs are OutboundQueue's; here a job is tried by one *)
(* worker at a time and any number of jobs at once.                         *)
(***************************************************************************)
EXTENDS Integers

CONSTANTS
  Voices,           \* voice jobs, each with a recording of its own
  FileIds,          \* ids of uploaded files
  StableFileId,     \* the id of each job's recording
  Parts,            \* parts of a recording
  MaxVoiceAttempts, \* max_attempts
  NoVoice           \* no recording

ASSUME VoiceConstantsOK ==
  /\ StableFileId \in [Voices -> FileIds]
  /\ Parts \in Nat \ {0}
  /\ MaxVoiceAttempts \in Nat \ {0}
  /\ NoVoice \notin Voices

VARIABLES
  job,     \* status of each job
  tries,   \* attempts begun
  saved,   \* parts its running attempt has saved, in order
  store,   \* at Telegram: whose recording each stored part is from
  heard    \* what the candidate got: the parts, or nothing

voiceVars == <<job, tries, saved, store, heard>>

PartNumbers == 1 .. Parts
NoFile == [p \in PartNumbers |-> NoVoice]
WholeFile(v) == [p \in PartNumbers |-> v]

VoiceInit ==
  /\ job = [v \in Voices |-> "queued"]
  /\ tries = [v \in Voices |-> 0]
  /\ saved = [v \in Voices |-> 0]
  /\ store = [i \in FileIds |-> NoFile]
  /\ heard = [v \in Voices |-> NoFile]

StartVoice(v) ==
  /\ job[v] \in {"queued", "retry"}
  /\ job' = [job EXCEPT ![v] = "processing"]
  /\ tries' = [tries EXCEPT ![v] = @ + 1]
  /\ saved' = [saved EXCEPT ![v] = 0]
  /\ UNCHANGED <<store, heard>>

\* upload.saveFilePart of the next part.  Its answer may get lost.
SaveFilePart(v) ==
  /\ job[v] = "processing"
  /\ saved[v] < Parts
  /\ store' = [store EXCEPT ![StableFileId[v]][saved[v] + 1] = v]
  /\ saved' = [saved EXCEPT ![v] = @ + 1]
  /\ UNCHANGED <<job, tries, heard>>

\* The attempt brought no answer that counts: can_retry decides.
Unanswered(v) == IF tries[v] < MaxVoiceAttempts THEN "retry" ELSE "dead_letter"

\* A flood wait, an error answer, or none at all: the attempt ends.  An answer
\* that is no JSON ends the job, whatever Telegram did with the call.
CallFails(v, status) ==
  /\ job[v] = "processing"
  /\ status \in {Unanswered(v), "failed"}
  /\ job' = [job EXCEPT ![v] = status]
  /\ UNCHANGED <<tries, saved, store, heard>>

\* Faulty variant: the message names no checksum.
Acceptable_NoChecksum(v) == TRUE

\* The stored parts have the checksum of v's recording.
Acceptable(v) == store[StableFileId[v]] = WholeFile(v)

\* messages.sendMedia; the answer may get lost on the way.
SendMedia(v, answered) ==
  /\ job[v] = "processing"
  /\ saved[v] = Parts
  /\ Acceptable(v)
  /\ heard' = [heard EXCEPT ![v] = IF @ = NoFile THEN store[StableFileId[v]] ELSE @]
  /\ job' = [job EXCEPT ![v] =
               IF answered THEN "sent" ELSE Unanswered(v)]
  /\ UNCHANGED <<tries, saved, store>>

VoiceNext ==
  \E v \in Voices :
    \/ StartVoice(v)
    \/ SaveFilePart(v)
    \/ \E status \in {"retry", "dead_letter", "failed"} : CallFails(v, status)
    \/ \E answered \in BOOLEAN : SendMedia(v, answered)

VoiceSpec == VoiceInit /\ [][VoiceNext]_voiceVars

-----------------------------------------------------------------------------
VoiceTypeOK ==
  /\ job \in [Voices -> {"queued", "processing", "retry", "dead_letter", "failed", "sent"}]
  /\ tries \in [Voices -> 0 .. MaxVoiceAttempts]
  /\ saved \in [Voices -> 0 .. Parts]
  /\ store \in [FileIds -> [PartNumbers -> Voices \cup {NoVoice}]]
  /\ heard \in [Voices -> [PartNumbers -> Voices \cup {NoVoice}]]

\* A candidate hears the whole recording of the job or nothing of it, never
\* parts of two recordings whose uploads ran into each other, and a job counts
\* as sent only when he does (send_voice_note).
WholeVoice ==
  \A v \in Voices :
    /\ heard[v] \in {NoFile, WholeFile(v)}
    /\ job[v] = "sent" => heard[v] = WholeFile(v)
=============================================================================
