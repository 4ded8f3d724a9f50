--------------------------- MODULE CharacterFrames ---------------------------
(***************************************************************************)
(* Character frames: a refresh writes a candidate, supersedes the frame    *)
(* that speaks now and accepts its own; the owner accepts, rejects,        *)
(* revises or retires frames; the first injection of a frame is marked on  *)
(* it.  Each call reads first and writes later, and calls may overlap.  An *)
(* update the store refuses is swallowed: the call goes on as if written.  *)
(***************************************************************************)
EXTENDS Naturals, FiniteSets, Sequences

CONSTANTS
    Editors,        \* the callers that may be inside a call at once
    MaxFrames,      \* bound: frames ever written
    MaxEdits        \* bound: calls begun

ASSUME FrameAssumption == MaxFrames \in Nat /\ MaxEdits \in Nat

VARIABLES
    frames,     \* the frames, in the order they were written
    edits,      \* what each editor is doing
    begunEdits, \* how many calls have begun
    moments,    \* how many frames have been accepted: the clock of acceptedAt
    voiced      \* history: TRUE from an acceptance until a dismissal, a mark or a
                \* failure that leaves no frame accepted

frameVars == <<frames, edits, begunEdits, moments, voiced>>

FrameStates == {"candidate", "accepted", "rejected", "retired", "superseded"}
Silenced == {"rejected", "retired", "superseded"}
\* "read" is the status the call read with its frame, "status" what it will write.
NoEdit == [op |-> "none", frame |-> 0, other |-> 0, read |-> "candidate", status |-> "candidate"]

\* VALID_TRANSITIONS and ACTION_TO_STATUS of the lifecycle.
MutContestable(status) == {"accept", "reject", "revise", "retire"}
Contestable(status) ==
    [candidate |-> {"accept", "reject", "revise"}, accepted |-> {"reject", "revise", "retire"},
     rejected |-> {"revise"}, retired |-> {"revise"}, superseded |-> {}][status]
MutStatusAfter(action) == action
StatusAfter(action) == [accept |-> "accepted", reject |-> "rejected", retire |-> "retired"][action]

FramesInit ==
    /\ frames = <<>> /\ edits = [e \in Editors |-> NoEdit] /\ begunEdits = 0 /\ moments = 0
    /\ voiced = FALSE

Accepted == {f \in DOMAIN frames : frames[f].status = "accepted"}

\* readLatestAcceptedFrame: the accepted frame with the latest acceptedAt.
LatestAccepted ==
    IF Accepted = {} THEN 0
    ELSE CHOOSE f \in Accepted : \A g \in Accepted : frames[g].at <= frames[f].at

\* loadActiveCharacterFrame: what the next context speaks with, and how.
PendingRevision(f) ==
    \E g \in DOMAIN frames : frames[g].status = "candidate" /\ frames[g].revises = f
Speaking ==
    IF LatestAccepted = 0 THEN "deferred"
    ELSE IF PendingRevision(LatestAccepted) THEN "contested" ELSE "active"

StartEdit(e, next) ==
    /\ edits[e].op = "none" /\ begunEdits < MaxEdits /\ begunEdits' = begunEdits + 1
    /\ edits' = [edits EXCEPT ![e] = next]

NewFrame(base) == [status |-> "candidate", revises |-> base, at |-> 0, seen |-> FALSE]
EndEdit(e) == edits' = [edits EXCEPT ![e] = NoEdit]
NextStep(e, op) == edits' = [edits EXCEPT ![e].op = op]

\* updateCharacterFrameStatus: written, or refused by the store and swallowed.
Written(becomes) == frames' = becomes \/ frames' = frames
\* The agent keeps its voice as long as a frame is accepted after the step.
StillVoiced == voiced' = (voiced /\ \E f \in DOMAIN frames' : frames'[f].status = "accepted")

-----------------------------------------------------------------------------

\* refreshCharacterFrame, once the sections it built have been validated:
\* writeCandidateFrame.  A refresh without sources or refused by the
\* validator writes nothing.
RefreshFrame(e) ==
    /\ Len(frames) < MaxFrames
    /\ StartEdit(e, [NoEdit EXCEPT !.op = "reading", !.frame = Len(frames) + 1])
    /\ frames' = Append(frames, NewFrame(0))
    /\ UNCHANGED <<moments, voiced>>

\* The accepted frame of this moment is the one that will be superseded,
\* unless it is the candidate itself, accepted by the owner meanwhile.  A read
\* the store refuses finds none.
ReadPrevious(e) ==
    /\ edits[e].op = "reading"
    /\ \/ NextStep(e, "accepting")
       \/ /\ LatestAccepted \notin {0, edits[e].frame}
          /\ edits' = [edits EXCEPT ![e].op = "superseding", ![e].other = LatestAccepted]
    /\ UNCHANGED <<frames, begunEdits, moments, voiced>>

Superseding(f) == [frames EXCEPT ![f].status = "superseded"]

MutSupersedePrevious(e) ==
    /\ edits[e].op = "superseding" /\ EndEdit(e) /\ Written(Superseding(edits[e].other))
    /\ UNCHANGED <<begunEdits, moments, voiced>>
\* The previous frame, or the frame an accepted revision revises, is superseded.
SupersedePrevious(e) ==
    /\ edits[e].op = "superseding" /\ NextStep(e, "accepting")
    /\ Written(Superseding(edits[e].other))
    /\ UNCHANGED <<begunEdits, moments, voiced>>

\* The candidate is accepted, whatever has become of it meanwhile; or the store
\* refuses, and the call reports the acceptance all the same.
AcceptCandidate(e) ==
    /\ edits[e].op = "accepting" /\ EndEdit(e)
    /\ frames' = [frames EXCEPT ![edits[e].frame].status = "accepted",
                                ![edits[e].frame].at = moments + 1,
                                ![edits[e].frame].revises = IF @ = 0 THEN edits[e].other ELSE @]
    /\ moments' = moments + 1 /\ voiced' = TRUE /\ UNCHANGED begunEdits
AcceptRefused(e) ==
    /\ edits[e].op = "accepting" /\ EndEdit(e)
    /\ UNCHANGED <<frames, begunEdits, moments>> /\ StillVoiced

\* applyCharacterContest reads the frame and refuses an action its status
\* does not allow.  Accepting a revision supersedes what it revises first.
Contest(e) ==
    \E f \in DOMAIN frames : \E action \in Contestable(frames[f].status) :
        /\ StartEdit(e, LET Read == [NoEdit EXCEPT !.frame = f, !.read = frames[f].status] IN
               CASE action = "revise" -> [Read EXCEPT !.op = "revising"]
                 [] action = "accept" -> [Read EXCEPT !.op = IF frames[f].revises = 0 THEN "accepting" ELSE "superseding",
                                                      !.other = frames[f].revises]
                 [] OTHER             -> [Read EXCEPT !.op = "dismissing", !.status = StatusAfter(action)])
        /\ UNCHANGED <<frames, moments, voiced>>

\* supersedeFrame reads an accepted frame and supersedes it by hand.
SupersedeByHand(e) ==
    /\ \E f \in Accepted :
        StartEdit(e, [op |-> "dismissing", frame |-> f, other |-> 0, read |-> "accepted", status |-> "superseded"])
    /\ UNCHANGED <<frames, moments, voiced>>

WriteRevision(e) ==
    /\ edits[e].op = "revising" /\ EndEdit(e) /\ Len(frames) < MaxFrames
    /\ frames' = Append(frames, NewFrame(edits[e].frame))
    /\ UNCHANGED <<begunEdits, moments, voiced>>

Dismiss(e) ==
    /\ edits[e].op = "dismissing" /\ EndEdit(e)
    /\ Written([frames EXCEPT ![edits[e].frame].status = edits[e].status]) /\ StillVoiced
    /\ UNCHANGED <<begunEdits, moments>>

\* markFirstInjectionSeen reads a frame of any status and writes its mark
\* together with the status it read.
BeginMark(e) ==
    /\ \E f \in DOMAIN frames :
        StartEdit(e, [NoEdit EXCEPT !.op = "marking", !.frame = f, !.read = frames[f].status])
    /\ UNCHANGED <<frames, moments, voiced>>
MarkSeen(e) ==
    /\ edits[e].op = "marking" /\ EndEdit(e)
    /\ Written([frames EXCEPT ![edits[e].frame].status = edits[e].read, ![edits[e].frame].seen = TRUE])
    /\ StillVoiced
    /\ UNCHANGED <<begunEdits, moments>>

\* A call throws, or the process dies, between two writes; what is written stays.
LoseEdit(e) ==
    /\ edits[e].op # "none" /\ EndEdit(e)
    /\ UNCHANGED <<frames, begunEdits, moments>> /\ StillVoiced

EditStep(e) ==
    \/ RefreshFrame(e) \/ ReadPrevious(e) \/ SupersedePrevious(e) \/ AcceptCandidate(e) \/ AcceptRefused(e)
    \/ Contest(e) \/ SupersedeByHand(e) \/ WriteRevision(e) \/ Dismiss(e)
    \/ BeginMark(e) \/ MarkSeen(e) \/ LoseEdit(e)
FramesNext == \E e \in Editors : EditStep(e)

FramesSpec == FramesInit /\ [][FramesNext]_frameVars
-----------------------------------------------------------------------------

\* The types of the variables.
FramesTypeOK ==
    /\ frames \in Seq([status : FrameStates, revises : 0..MaxFrames, at : 0..MaxEdits, seen : BOOLEAN])
    /\ Len(frames) <= MaxFrames
    /\ \A e \in Editors : edits[e].frame \in 0..Len(frames) /\ edits[e].other \in 0..Len(frames)
    /\ \A e \in Editors : edits[e].read \in FrameStates /\ edits[e].status \in FrameStates
    /\ begunEdits \in 0..MaxEdits /\ moments \in 0..begunEdits /\ voiced \in BOOLEAN

\* Once a frame has been accepted the agent keeps a frame to speak with, however
\* calls overlap: superseding is always followed by the acceptance of the
\* successor.  What may take the last frame is a dismissal by the owner, a mark
\* that writes back an older status, and a successor lost between the two
\* writes, by a death or by a refusing store (character-frame-builder.ts
\* refreshCharacterFrame, character-frame-lifecycle.ts applyCharacterContest).
NeverSpeechless ==
    voiced =>
        \/ Speaking # "deferred"
        \/ \E e \in Editors : edits[e].op = "accepting" /\ edits[e].other # 0

\* A frame that was rejected, retired or superseded speaks again only through a
\* call that read it before it was silenced and wrote after: no call that begins
\* later brings it back, whatever overlaps, dies or is refused
\* (applyCharacterContest, markFirstInjectionSeen).
SilencedStays ==
    [][\A f \in DOMAIN frames :
          frames[f].status \in Silenced /\ frames'[f].status \notin Silenced =>
              \E e \in Editors : edits[e].frame = f /\ edits[e].read \notin Silenced]_frameVars
=============================================================================
