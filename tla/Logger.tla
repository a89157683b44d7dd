------------------------------- MODULE Logger -------------------------------
(***************************************************************************)
(* The loggers of common/logger.go: a SmartLogger, which shows the phases  *)
(* of a test for the messages that announce them, around a TestLogger, or  *)
(* around a BufferedTestLogger that keeps the messages of a quiet test     *)
(* back until it fails.  A message is known by the order in which it was   *)
(* sent; what it says is the phase that it announces, if any.              *)
(***************************************************************************)
EXTENDS Integers, Sequences, FiniteSets

CONSTANTS MaxMessages

ASSUME MaxMessagesAssumption == MaxMessages \in Nat

Working == {"building", "validating"}   \* phases that are under way
Completed == {"added"}                  \* phases that are marked as done
NoPhase == ""

\* How a message is sent: ShortInfo; Info; a warning, debug or custom message; an error;
\* ProgressStage; ImmediateShortInfo and ImmediateShortWarn; FatalError; CriticalError, ErrorWithContext.
Ways == {"short", "info", "warn", "error", "stage", "immediate", "fatal", "critical"}

VARIABLES buffered,     \* the SmartLogger wraps a BufferedTestLogger, else a TestLogger
          quietMode,    \* of what it wraps
          buffer,       \* the messages that are kept back
          failed,
          batchMode,
          activePhase,
          suppressedPhases,
          output,       \* what was printed: messages, and phases instead of them
          sent,         \* history: the messages, and how they were sent
          cleared       \* history: those that ClearBuffer has thrown away

loggerVars == <<buffered, quietMode, buffer, failed, batchMode, activePhase,
                suppressedPhases, output, sent, cleared>>

\* CreateAddonLogger and its like wrap a quiet logger with a buffer, and no other.
LoggerInit ==
    /\ buffered \in BOOLEAN
    /\ quietMode = buffered
    /\ buffer = <<>>
    /\ failed = FALSE
    /\ batchMode = FALSE
    /\ activePhase = NoPhase
    /\ suppressedPhases = {}
    /\ output = <<>>
    /\ sent = <<>>
    /\ cleared = {}

Message(i) == [message |-> i, phase |-> NoPhase]
Phase(p) == [message |-> 0, phase |-> p]

\* The message that is sent now.
This == Len(sent) + 1

Sends(way, p) ==
    /\ Len(sent) < MaxMessages
    /\ sent' = Append(sent, [way |-> way, phase |-> p, quiet |-> quietMode])

Outputs(items) == output' = output \o items

Show(i) == Outputs(<<Message(i)>>)

\* What is wrapped logs a message: a buffer keeps it back in quiet mode, where a TestLogger
\* prints nothing but errors.
Log(i, forced) ==
    \/ ~quietMode /\ Show(i) /\ UNCHANGED buffer
    \/ quietMode /\ buffered /\ buffer' = Append(buffer, i) /\ UNCHANGED output
    \/ /\ quietMode /\ ~buffered
       /\ IF forced THEN Show(i) ELSE UNCHANGED output
       /\ UNCHANGED buffer

Warn == /\ Sends("warn", NoPhase)
        /\ Log(This, FALSE)
        /\ UNCHANGED <<buffered, quietMode, failed, batchMode, activePhase, suppressedPhases, cleared>>

Error == /\ Sends("error", NoPhase)
         /\ Log(This, TRUE)
         /\ UNCHANGED <<buffered, quietMode, failed, batchMode, activePhase, suppressedPhases, cleared>>

\* A SmartLogger drops these in quiet mode.
Info ==
    /\ Sends("info", NoPhase)
    /\ IF quietMode THEN UNCHANGED <<buffer, output>> ELSE Log(This, FALSE)
    /\ UNCHANGED <<buffered, quietMode, failed, batchMode, activePhase, suppressedPhases, cleared>>

\* Whether a phase is shown: one under way when it is not the one shown last, a completed
\* one always, but once in batch mode.
ShouldShowPhase(p) ==
    IF p \in Completed THEN batchMode => p \notin suppressedPhases
    ELSE p # activePhase

\* ShortInfo shows the phase that a message announces, in quiet mode instead of it.
ShortInfo(p) ==
    /\ Sends("short", p)
    /\ LET shown == p # NoPhase /\ ShouldShowPhase(p)
           stage == IF shown THEN <<Phase(p)>> ELSE <<>>
       IN  /\ activePhase' = IF shown /\ p \in Working THEN p ELSE activePhase
           /\ suppressedPhases' = IF shown /\ p \in Completed /\ batchMode
                                  THEN suppressedPhases \cup {p} ELSE suppressedPhases
           /\ IF p = NoPhase THEN Log(This, FALSE)
              ELSE /\ Outputs(stage \o IF quietMode THEN <<>> ELSE <<Message(This)>>)
                   /\ UNCHANGED buffer
    /\ UNCHANGED <<buffered, quietMode, failed, batchMode, cleared>>

\* ProgressStage; ProgressSuccess and ProgressInfo leave the active phase alone.
ProgressStage(p) ==
    /\ Sends("stage", p)
    /\ Outputs(<<Phase(p), Message(This)>>)
    /\ activePhase' = p
    /\ UNCHANGED <<buffered, quietMode, buffer, failed, batchMode, suppressedPhases, cleared>>

\* ImmediateShortInfo, ImmediateShortWarn: without a buffer this is an ordinary message.
Immediate ==
    /\ Sends("immediate", NoPhase)
    /\ IF buffered THEN Show(This) /\ UNCHANGED buffer ELSE Log(This, FALSE)
    /\ UNCHANGED <<buffered, quietMode, failed, batchMode, activePhase, suppressedPhases, cleared>>

\* ImmediateShortError: without a buffer an error, which a quiet TestLogger prints.
ImmediateError ==
    /\ Sends("error", NoPhase)
    /\ IF buffered THEN Show(This) /\ UNCHANGED buffer ELSE Log(This, TRUE)
    /\ UNCHANGED <<buffered, quietMode, failed, batchMode, activePhase, suppressedPhases, cleared>>

FatalError ==
    /\ Sends("fatal", NoPhase)
    /\ Show(This)
    /\ UNCHANGED <<buffered, quietMode, buffer, failed, batchMode, activePhase,
                   suppressedPhases, cleared>>

\* What is kept back, in its order.
Buffered == [i \in DOMAIN buffer |-> Message(buffer[i])]

KeepsBufferBUG == buffer' = buffer

Emptied == buffer' = <<>>

\* The messages that are kept back come first.
CriticalError ==
    /\ Sends("critical", NoPhase)
    /\ failed' = buffered
    /\ Outputs(Append(Buffered, Message(This)))
    /\ Emptied
    /\ UNCHANGED <<buffered, quietMode, batchMode, activePhase, suppressedPhases, cleared>>

MarkFailed ==
    /\ failed' = buffered
    /\ UNCHANGED <<buffered, quietMode, buffer, batchMode, activePhase, suppressedPhases,
                   output, sent, cleared>>

FlushBuffer ==
    /\ Outputs(Buffered)
    /\ Emptied
    /\ UNCHANGED <<buffered, quietMode, failed, batchMode, activePhase, suppressedPhases, sent, cleared>>

FlushOnFailure == failed /\ FlushBuffer

Kept == {buffer[k] : k \in DOMAIN buffer}

ClearBuffer ==
    /\ Emptied
    /\ cleared' = cleared \cup Kept
    /\ UNCHANGED <<buffered, quietMode, failed, batchMode, activePhase, suppressedPhases,
                   output, sent>>

SetQuietMode ==
    /\ \E quiet \in BOOLEAN : quietMode' = quiet
    /\ UNCHANGED <<buffered, buffer, failed, batchMode, activePhase, suppressedPhases, output,
                   sent, cleared>>

EnableBatchMode ==
    /\ batchMode' = TRUE
    /\ UNCHANGED <<buffered, quietMode, buffer, failed, activePhase, suppressedPhases, output,
                   sent, cleared>>

DisableBatchMode ==
    /\ batchMode' = FALSE
    /\ suppressedPhases' = {}
    /\ activePhase' = NoPhase
    /\ UNCHANGED <<buffered, quietMode, buffer, failed, output, sent, cleared>>

LoggerNext ==
    \/ Warn \/ Error \/ Info \/ Immediate \/ ImmediateError \/ FatalError \/ CriticalError
    \/ \E p \in Working \cup Completed \cup {NoPhase} : ShortInfo(p)
    \/ \E p \in Working : ProgressStage(p)
    \/ MarkFailed \/ FlushBuffer \/ FlushOnFailure \/ ClearBuffer
    \/ SetQuietMode \/ EnableBatchMode \/ DisableBatchMode

LoggerSpec == LoggerInit /\ [][LoggerNext]_loggerVars
-----------------------------------------------------------------------------
Printed == {output[k].message : k \in DOMAIN output} \ {0}
PhasesShown == {output[k].phase : k \in DOMAIN output} \ {NoPhase}

\* What a failed test shows is complete and in order: no message is printed twice, or
\* printed and still kept back; the messages that are kept back are in the order in which
\* they were sent; and one that is neither printed nor kept
\* back, nor thrown away by ClearBuffer, was sent to a quiet logger
\* and is an Info, a message whose phase has been shown in its place, or, where there is no
\* buffer, no error.
LoggerRight ==
    /\ \A k, n \in DOMAIN output :
          output[k].message # 0 /\ output[k].message = output[n].message => k = n
    /\ Printed \cap Kept = {}
    /\ \A k, n \in DOMAIN buffer : k < n => buffer[k] < buffer[n]
    /\ \A i \in DOMAIN sent \ (Printed \cup Kept \cup cleared) :
          /\ sent[i].quiet
          /\ \/ sent[i].way = "info"
             \/ sent[i].way = "short" /\ sent[i].phase \in PhasesShown
             \/ ~buffered /\ sent[i].way \in {"short", "warn", "immediate"}
=============================================================================
