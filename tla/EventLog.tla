------------------------------- MODULE EventLog -------------------------------
(***************************************************************************)
(* The activity log of main/events.cpp: a ring in memory that the web      *)
(* server reads, two files that are rotated, and the last number in NVS.   *)
(* log() and clear() hold the lock throughout, so that nothing comes       *)
(* between their steps but a reset.  An event is its number.               *)
(***************************************************************************)
EXTENDS Naturals, Sequences

CONSTANTS Ring,          \* kRing
          MaxLines,      \* kMaxBytes, in lines
          MaxEvents,     \* bound: numbers given
          MaxLogFaults   \* bound: resets and failed writes

ASSUME EventAssumption ==
  /\ Ring \in Nat \ {0} /\ MaxLines \in Nat
  /\ MaxEvents \in Nat /\ MaxLogFaults \in Nat

Events == 1 .. MaxEvents
Broken == 0           \* a line that cannot be parsed

VARIABLES
  ring, head, count,  \* g_ring, g_head, g_count
  seq,                \* g_seq
  mounted,            \* g_mounted
  file, old,          \* the lines of the two files
  ragged,             \* the last line of file has no end
  savedSeq,           \* seq in NVS
  logStep,            \* where log() or clear() is
  entries,            \* history: what was logged since the last clear, in this boot or loaded
  top,                \* history: the last number of a log() that has returned
  unsaved,            \* history: NVS and the files have lost, or never had, that number
  logFaults

logVars == <<ring, head, count, seq, mounted, file, old, ragged, savedSeq, logStep,
             entries, top, unsaved, logFaults>>
ringVars == <<ring, head, count, entries>>
fileVars == <<file, old, ragged>>

LogTypeOK ==
  /\ ring \in [0 .. Ring - 1 -> Events \cup {Broken}]
  /\ head \in 0 .. Ring - 1 /\ count \in 0 .. Ring
  /\ seq \in 0 .. MaxEvents /\ savedSeq \in 0 .. MaxEvents /\ top \in 0 .. MaxEvents
  /\ file \in Seq(Events \cup {Broken}) /\ old \in Seq(Events \cup {Broken})
  /\ entries \in Seq(Events)
  /\ mounted \in BOOLEAN /\ ragged \in BOOLEAN /\ unsaved \in BOOLEAN
  /\ logStep \in {"idle", "file", "rename", "append", "save", "clear"}
  /\ logFaults \in 0 .. MaxLogFaults

LogInit ==
  /\ ring = [i \in 0 .. Ring - 1 |-> Broken] /\ head = 0 /\ count = 0
  /\ seq = 0 /\ savedSeq = 0 /\ top = 0
  /\ mounted \in BOOLEAN
  /\ file = <<>> /\ old = <<>> /\ ragged = FALSE
  /\ logStep = "idle"
  /\ entries = <<>>
  /\ unsaved = FALSE
  /\ logFaults = 0

LogFault == logFaults < MaxLogFaults /\ logFaults' = logFaults + 1

(* For the history: NVS lacks the last number of a finished log(); a file   *)
(* has it; a file has a line that can be parsed.                           *)
Behind == savedSeq < top
OnFile(n) == \E i \in DOMAIN file : file[i] = n
Whole(lines) == \E i \in DOMAIN lines : lines[i] # Broken

--------------------------------------------------------------------------------
(* ring_push() *)
RingPush(e) ==
  /\ ring' = [ring EXCEPT ![head] = e]
  /\ head' = (head + 1) % Ring
  /\ count' = IF count < Ring THEN count + 1 ELSE count
  /\ entries' = Append(entries, e)

(* log(): the next number, and into the ring. *)
LogEvent ==
  /\ logStep = "idle" /\ seq < MaxEvents
  /\ seq' = seq + 1
  /\ RingPush(seq + 1)
  /\ logStep' = IF mounted THEN "file" ELSE "save"
  /\ UNCHANGED <<mounted, fileVars, savedSeq, top, unsaved, logFaults>>

(* append_line(): a file that is too long becomes the old one, if remove() *)
(* and rename(), which are not checked, succeed.                           *)
RemoveOld ==
  /\ logStep = "file"
  /\ \/ /\ Len(file) <= MaxLines
        /\ logStep' = "append"
        /\ UNCHANGED <<old, unsaved, logFaults>>
     \/ /\ Len(file) > MaxLines
        /\ logStep' = "rename"
        /\ \/ old' = <<>> /\ unsaved' = (unsaved \/ (Behind /\ ~Whole(file)))
              /\ UNCHANGED logFaults
           \/ LogFault /\ UNCHANGED <<old, unsaved>>
  /\ UNCHANGED <<ringVars, seq, mounted, file, ragged, savedSeq, top>>

(* SPIFFS does not rename to a file there is. *)
RenameFile ==
  /\ logStep = "rename"
  /\ \/ old = <<>> /\ old' = file /\ file' = <<>> /\ ragged' = FALSE /\ UNCHANGED logFaults
     \/ old # <<>> /\ UNCHANGED <<fileVars, logFaults>>
     \/ LogFault /\ UNCHANGED fileVars
  /\ logStep' = "append"
  /\ UNCHANGED <<ringVars, seq, mounted, savedSeq, top, unsaved>>

(* A part of a line is written; behind one without an end it adds none. *)
Torn == IF ragged THEN file ELSE Append(file, Broken)

(* A line goes to the end of the file; behind one without an end it is lost *)
(* with it.  If the file cannot be opened, or the write fails on the way,   *)
(* the event stays in memory.                                              *)
AppendLine ==
  /\ logStep = "append"
  /\ \/ /\ file' = IF ragged THEN file ELSE Append(file, seq)
        /\ ragged' = FALSE
        /\ UNCHANGED logFaults
     \/ LogFault /\ UNCHANGED <<file, ragged>>
     \/ LogFault /\ file' = Torn /\ ragged' = TRUE
  /\ logStep' = "save"
  /\ UNCHANGED <<ringVars, seq, mounted, old, savedSeq, top, unsaved>>

(* persist_seq(), which reports no failure; log() or clear() returns. *)
PersistSeq ==
  /\ logStep = "save"
  /\ \/ savedSeq' = seq /\ unsaved' = FALSE /\ UNCHANGED logFaults
     \/ /\ LogFault /\ UNCHANGED savedSeq
        /\ unsaved' = (savedSeq < seq /\ ~(mounted /\ OnFile(seq)))
  /\ top' = seq
  /\ logStep' = "idle"
  /\ UNCHANGED <<ringVars, seq, mounted, fileVars>>

(* clear(): the files, one after the other, unless they cannot be removed, *)
(* and the ring; not the number.                                           *)
ClearFile ==
  /\ logStep = "idle"
  /\ \/ /\ mounted
        /\ file' = <<>> /\ ragged' = FALSE /\ unsaved' = (unsaved \/ Behind)
        /\ UNCHANGED logFaults
     \/ ~mounted /\ UNCHANGED <<file, ragged, unsaved, logFaults>>
     \/ LogFault /\ UNCHANGED <<file, ragged, unsaved>>
  /\ logStep' = "clear"
  /\ UNCHANGED <<ringVars, seq, mounted, old, savedSeq, top>>

ClearRing ==
  /\ logStep = "clear"
  /\ \/ mounted /\ old' = <<>> /\ unsaved' = (unsaved \/ Behind) /\ UNCHANGED logFaults
     \/ ~mounted /\ UNCHANGED <<old, unsaved, logFaults>>
     \/ LogFault /\ UNCHANGED <<old, unsaved>>
  /\ head' = 0 /\ count' = 0 /\ entries' = <<>>
  /\ logStep' = "save"
  /\ UNCHANGED <<ring, seq, mounted, file, ragged, savedSeq, top>>

--------------------------------------------------------------------------------
(* init(): the lines of both files that can be parsed, the old file first, and *)
(* the highest number anywhere.                                                *)
Parsed(lines) ==
  LET read[n \in 0 .. Len(lines)] ==
        IF n = 0 THEN <<>>
        ELSE IF lines[n] = Broken THEN read[n - 1] ELSE Append(read[n - 1], lines[n])
  IN  read[Len(lines)]
Highest(lines) == LET s == {lines[i] : i \in DOMAIN lines} \cup {0}
                  IN  CHOOSE m \in s : \A e \in s : e <= m

(* Mutant: the stored number is trusted. *)
ResumeSaved(found) == savedSeq
Resume(found) == IF Highest(found) > savedSeq THEN Highest(found) ELSE savedSeq

(* The ring after n pushes, the last of which are its contents. *)
Filled(found) ==
  [i \in 0 .. Ring - 1 |->
     LET at == {k \in DOMAIN found : (k - 1) % Ring = i /\ k + Ring > Len(found)}
     IN  IF at = {} THEN Broken ELSE found[CHOOSE k \in at : TRUE]]

(* The device comes up with these lines in its file; but SPIFFS that does   *)
(* not mount is formatted, and may not come up even then.                  *)
LogBoot(lines, torn) ==
  /\ mounted' \in BOOLEAN
  /\ \/ /\ file' = lines /\ ragged' = torn /\ UNCHANGED old
        /\ unsaved' = (unsaved \/ (Behind /\ ~mounted'))
     \/ /\ file' = <<>> /\ ragged' = FALSE /\ old' = <<>>
        /\ unsaved' = (unsaved \/ Behind)
  /\ LET kept  == IF mounted' THEN old' \o file' ELSE <<>>
         found == Parsed(kept)
     IN  /\ ring' = Filled(found)
         /\ head' = Len(found) % Ring
         /\ count' = IF Len(found) < Ring THEN Len(found) ELSE Ring
         /\ entries' = found
         /\ seq' = Resume(kept)
  /\ logStep' = "idle"
  /\ UNCHANGED <<savedSeq, top>>
  /\ LogFault

(* A reset anywhere; in the middle of a line it leaves a part of it. *)
LogReset ==
  \/ LogBoot(file, ragged)
  \/ logStep = "append" /\ LogBoot(Torn, TRUE)

LogNext == \/ LogEvent \/ RemoveOld \/ RenameFile \/ AppendLine \/ PersistSeq
           \/ ClearFile \/ ClearRing \/ LogReset

LogSpec == LogInit /\ [][LogNext]_logVars

--------------------------------------------------------------------------------
(* get_json(since, limit): from the newest back, until one is not newer than *)
(* since or there are enough.                                                *)
AtIndexOff(i) == ring[(head + i) % Ring]                    \* mutant: forwards
AtIndex(i) == ring[(head + 2 * Ring - 1 - i) % Ring]
GetJson(since, limit) ==
  LET most == IF limit < count THEN limit ELSE count
      n    == CHOOSE k \in 0 .. most :
                /\ \A i \in 0 .. k - 1 : AtIndex(i) > since
                /\ k = most \/ AtIndex(k) <= since
  IN  [i \in 1 .. n |-> AtIndex(i - 1)]

(* The web server is told exactly the newest events after the one it knows,  *)
(* newest first, as many as it asked for and the ring can hold.              *)
AnswersNewest ==
  \A since \in 0 .. seq, limit \in 1 .. Ring :
    LET answer == GetJson(since, limit)
        n      == Len(answer)
        last   == Len(entries)
    IN  /\ n <= limit /\ n <= last
        /\ \A i \in 1 .. n : answer[i] = entries[last + 1 - i] /\ answer[i] > since
        /\ \A k \in 1 .. last : entries[k] > since => n = limit \/ k > last - n

(* "ids never repeat": the next number is past that of the last finished     *)
(* log(), since NVS has it or, where NVS refused it, a file: through         *)
(* rotations, torn lines and resets.  Unless the file refused it as well, or *)
(* went, before the next one was stored: cleared, formatted, not mounted, or *)
(* rotated away by a file without a whole line.                              *)
NeverRepeats == unsaved \/ top <= seq

================================================================================
