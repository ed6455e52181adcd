--------------------------- MODULE CoroutineProofs ---------------------------
(***************************************************************************)
(* Theorems about Coroutine for frames nested to any depth and bodies      *)
(* resumed any number of times.                                            *)
(***************************************************************************)
EXTENDS Coroutine, SequenceTheorems, TLAPS

USE DepthAssumption, StepsAssumption

\* Only a frame that is not the last one awaits another.
LastCallsNobody == \A f \in Frames : at[f] = "frame" => f < Depth

\* A stream is awaited by streams only.
StreamsOfStreams ==
    \A f \in Frames \ {1} :
        at[f - 1] = "frame" /\ kind[f] = "stream" => kind[f - 1] = "stream"

\* A poll goes down and up along the frames that await one another.
Path ==
    /\ phase \in InPoll => at[cur] # "absent"
    /\ phase = "body" /\ at[cur] = "frame" => at[cur + 1] = "ended"
    /\ phase \in InPoll /\ cur # 1 => at[cur - 1] = "frame"
    /\ phase # "dropped" => at[1] # "absent"

\* A body that has ended is that of the frame whose poll is about to return, or of
\* the one that the body which goes on now has awaited, or of the outermost one.
EndedWhere ==
    \A f \in Frames : at[f] = "ended" =>
        \/ phase = "tail" /\ f = cur
        \/ phase = "body" /\ f = cur + 1
        \/ phase \in {"completed", "threw"} /\ f = 1

\* A value waits in the promise of the frame whose poll is about to return it.
Results ==
    \A f \in Frames : result[f] # 0 =>
        phase = "tail" /\ f = cur /\ kind[f] = "stream" /\ at[f] # "ended"

Structure ==
    /\ TypeOK
    /\ Nested
    /\ Results
    /\ LastCallsNobody
    /\ StreamsOfStreams
    /\ Path
    /\ EndedWhere

LEMMA StructureInit == Init => Structure
<1> SUFFICES ASSUME Init PROVE Structure
  OBVIOUS
<1> USE DEF Init, Frames
<1>1. TypeOK
  <2>1. 1 \in Frames /\ <<>> \in Seq(Nat) /\ 0 \in 0..MaxTurns
    BY EmptySeq
  <2>2. at \in [Frames -> Places] /\ result \in [Frames -> Nat]
    BY DEF Places
  <2> QED BY <2>1, <2>2 DEF TypeOK, Phases
<1>2. Nested /\ Results /\ LastCallsNobody /\ StreamsOfStreams /\ EndedWhere
  <2>1. /\ at[1] = "runnable" /\ \A f \in Frames \ {1} : at[f] = "absent"
        /\ \A f \in Frames : at[f] # "frame" /\ at[f] # "ended"
        /\ \A f \in Frames : result[f] = 0
        /\ \A f \in Frames \ {1} : f - 1 \in Frames
    OBVIOUS
  <2> HIDE DEF Init, Frames
  <2> QED BY <2>1 DEF Nested, Results, LastCallsNobody, StreamsOfStreams, EndedWhere
<1>3. Path
  BY DEF Path, InPoll
<1> QED BY <1>1, <1>2, <1>3 DEF Structure

------------------------------------------------------------------------------
\* Every step keeps the types.
LEMMA TypeStep == TypeOK /\ LastCallsNobody /\ [Next]_vars => TypeOK'
<1> SUFFICES ASSUME TypeOK, LastCallsNobody, [Next]_vars PROVE TypeOK'
  OBVIOUS
<1> USE DEF TypeOK, Phases, InPoll, frames, event, history
<1>1. CASE UNCHANGED vars
  BY <1>1 DEF vars
<1>2. CASE Happen
  BY <1>2 DEF Happen
<1>3. CASE Tell
  BY <1>3 DEF Tell
<1>4. CASE PollStart
  <2>1. 1 \in Frames
    BY DEF Frames
  <2> QED BY <1>4, <2>1 DEF PollStart
<1>5. CASE Drop
  <2>1. at' \in [Frames -> Places]
    BY <1>5 DEF Drop, Places
  <2> QED BY <1>5, <2>1 DEF Drop
<1>6. CASE Runnable
  BY <1>6 DEF Runnable
<1>7. CASE Descend
  <2>1. cur + 1 \in Frames
    BY <1>7 DEF Descend, LastCallsNobody, Frames
  <2> QED BY <1>7, <2>1 DEF Descend
<1>8. CASE PollLeaf
  <2>1. exception' \in [Frames -> BOOLEAN] /\ thrown' \in Nat
    BY <1>8 DEF PollLeaf
  <2>2. leaf' \in {"none", "pending"} /\ phase' \in {"tail", "body"} /\ resumed' \in BOOLEAN
    BY <1>8 DEF PollLeaf, NotResumed
  <2> QED BY <1>8, <2>1, <2>2 DEF PollLeaf
<1>9. CASE PollYield
  <2>1. turns' \in 0..MaxTurns
    <3>1. turns \in 0..MaxTurns /\ turns' = IF turns > 0 THEN turns - 1 ELSE 0
      BY <1>9 DEF PollYield
    <3> HIDE DEF TypeOK
    <3> QED BY <3>1
  <2>2. phase' \in {"tail", "body"} /\ resumed' \in BOOLEAN
    BY <1>9 DEF PollYield, NotResumed
  <2> QED BY <1>9, <2>1, <2>2 DEF PollYield
<1>10. ASSUME NEW place \in Places, NEW next \in Places, BodyRuns(place, next)
       PROVE  /\ at' \in [Frames -> Places] /\ phase' \in Phases /\ resumed' \in BOOLEAN
              /\ steps' \in Nat /\ cur' \in Frames /\ woken' \in BOOLEAN
              /\ out' \in Seq(Nat) /\ lost' \in Nat
  BY <1>10 DEF BodyRuns
<1>11. ASSUME Caught PROVE caught' \in Nat
  BY <1>11 DEF Caught
<1> {"absent", "runnable", "leaf", "yield", "frame", "ended"} \subseteq Places
  BY DEF Places
<1>12. CASE BodyAwaits
  BY <1>10, <1>11, <1>12 DEF BodyAwaits, BodyGoesOn
<1>13. CASE BodyAwaitsYield
  BY <1>10, <1>11, <1>13 DEF BodyAwaitsYield, BodyGoesOn
<1>14. CASE BodyCalls
  <2>1. kind' \in [Frames -> {"task", "stream"}]
    BY <1>14 DEF BodyCalls
  <2> QED BY <1>10, <1>11, <1>14, <2>1 DEF BodyCalls, BodyGoesOn
<1>15. CASE BodyYields
  <2>1. yielded' \in Nat /\ result' \in [Frames -> Nat]
    BY <1>15 DEF BodyYields
  <2> QED BY <1>10, <1>11, <1>15, <2>1 DEF BodyYields, BodyGoesOn
<1>16. CASE BodyReturns
  BY <1>10, <1>11, <1>16 DEF BodyReturns
<1>17. CASE BodyThrows
  <2>1. thrown' \in Nat /\ caught' \in Nat
    BY <1>11, <1>17 DEF BodyThrows
  <2>2. exception' \in [Frames -> BOOLEAN]
    BY <1>17 DEF BodyThrows
  <2> QED BY <1>10, <1>17, <2>1, <2>2 DEF BodyThrows
<1>18. ASSUME NEW what \in {"pending", "given", "completed", "threw"}, Answer(what)
       PROVE  cur' \in Frames /\ phase' \in Phases /\ resumed' \in BOOLEAN
  <2>1. cur \in Frames /\ (cur # 1 => cur - 1 \in Frames)
    BY DEF Frames
  <2>2. CASE cur = 1
    BY <1>18, <2>1, <2>2 DEF Answer
  <2>3. CASE cur # 1
    BY <1>18, <2>1, <2>3 DEF Answer, NotResumed
  <2> QED BY <2>2, <2>3
<1>19. CASE TaskReturns
  BY <1>18, <1>19 DEF TaskReturns
<1>20. CASE TaskThrows
  <2>1. exception' \in [Frames -> BOOLEAN]
    BY <1>20 DEF TaskThrows
  <2> QED BY <1>18, <1>20, <2>1 DEF TaskThrows
<1>21. CASE StreamGives
  <2>1. result' \in [Frames -> Nat]
    BY <1>21 DEF StreamGives
  <2>2. out' \in Seq(Nat)
    BY <1>21, AppendProperties DEF StreamGives
  <2> QED BY <1>18, <1>21, <2>1, <2>2 DEF StreamGives
<1>22. CASE StreamEnds
  <2>1. lost' \in Nat
    BY <1>22 DEF StreamEnds
  <2> QED BY <1>18, <1>22, <2>1 DEF StreamEnds
<1>23. CASE StillPending
  <2>1. woken' \in BOOLEAN
    BY <1>23 DEF StillPending
  <2> QED BY <1>18, <1>23, <2>1 DEF StillPending
<1> QED BY <1>1, <1>2, <1>3, <1>4, <1>5, <1>6, <1>7, <1>8, <1>9, <1>12, <1>13, <1>14,
           <1>15, <1>16, <1>17, <1>19, <1>20, <1>21, <1>22, <1>23 DEF Next

\* A body that runs ends its frame, or suspends it with the next one in its place.
LEMMA BodyStructure ==
    ASSUME Structure,
           NEW place \in Places \ {"absent"}, NEW next \in {"absent", "runnable"},
           next = "runnable" <=> place = "frame", place = "frame" => cur < Depth,
           BodyRuns(place, next),
           kind' \in [Frames -> {"task", "stream"}],
           \A f \in Frames : f # cur + 1 => kind'[f] = kind[f],
           place = "frame" /\ kind'[cur + 1] = "stream" => kind[cur] = "stream"
    PROVE  /\ Nested' /\ LastCallsNobody' /\ StreamsOfStreams' /\ Path'
           /\ EndedWhere'
<1>1. /\ cur \in Frames /\ cur \in Nat /\ cur >= 1 /\ cur <= Depth
      /\ at \in [Frames -> Places] /\ phase = "body"
      /\ cur' = cur /\ phase' = "tail" /\ steps' = steps + 1 /\ steps \in Nat
  <2>1. cur \in Frames /\ at \in [Frames -> Places] /\ steps \in Nat
    BY DEF Structure, TypeOK
  <2>2. cur \in Nat /\ cur >= 1 /\ cur <= Depth
    BY <2>1 DEF Frames
  <2>3. phase = "body" /\ cur' = cur /\ phase' = "tail" /\ steps' = steps + 1
    BY DEF BodyRuns
  <2> QED BY <2>1, <2>2, <2>3
<1>2. at' = [f \in Frames |-> CASE f = cur -> place
                                 [] f = cur + 1 -> next
                                 [] OTHER -> at[f]]
  BY DEF BodyRuns
<1>3. at'[cur] = place
  BY <1>1, <1>2
<1>4. cur + 1 \in Frames => at'[cur + 1] = next
  BY <1>1, <1>2
<1>5. \A f \in Frames \ {cur, cur + 1} : at'[f] = at[f]
  BY <1>1, <1>2
<1>6. \A f \in Frames \ {1} : at[f] # "absent" <=> at[f - 1] = "frame"
  BY <1>1 DEF Structure, Nested
<1>7. cur + 1 \in Frames => at[cur + 1] # "frame"
  <2>1. at[cur] = "frame" => at[cur + 1] = "ended"
    BY <1>1 DEF Structure, Path
  <2>2. cur + 1 \in Frames => (at[cur + 1] # "absent" <=> at[cur] = "frame")
    <3>1. cur + 1 # 1 /\ (cur + 1) - 1 = cur
      BY <1>1
    <3> QED BY <1>6, <3>1
  <2> QED BY <2>1, <2>2
<1>8. cur + 2 \in Frames => at[cur + 2] = "absent"
  <2>1. cur + 2 # 1 /\ (cur + 2) - 1 = cur + 1 /\ (cur + 2 \in Frames => cur + 1 \in Frames)
    BY <1>1 DEF Frames
  <2> QED BY <1>6, <1>7, <2>1
<1>9. \A f \in Frames : f \in Nat /\ f >= 1 /\ (f # 1 => f - 1 \in Frames)
  BY DEF Frames
<1>11. ASSUME NEW f \in Frames \ {1}
       PROVE  at'[f] # "absent" <=> at'[f - 1] = "frame"
  <2>1. f - 1 \in Frames /\ f \in Nat /\ (at[f] # "absent" <=> at[f - 1] = "frame")
    BY <1>6, <1>9
  <2>2. CASE f = cur
    <3>1. f - 1 \notin {cur, cur + 1}
      BY <1>1, <2>2
    <3>2. at[cur] # "absent"
      BY <1>1 DEF Structure, Path, InPoll
    <3> QED BY <1>3, <1>5, <2>1, <2>2, <3>1, <3>2
  <2>3. CASE f = cur + 1
    <3>1. f - 1 = cur
      BY <1>1, <2>3
    <3> QED BY <1>3, <1>4, <2>3, <3>1
  <2>4. CASE f = cur + 2
    <3>1. f - 1 = cur + 1 /\ f \notin {cur, cur + 1}
      BY <1>1, <2>4
    <3> QED BY <1>4, <1>5, <1>8, <2>1, <2>4, <3>1
  <2>5. CASE f \notin {cur, cur + 1, cur + 2}
    <3>1. f - 1 \notin {cur, cur + 1}
      BY <1>1, <2>1, <2>5
    <3> QED BY <1>5, <2>1, <2>5, <3>1
  <2> QED BY <2>2, <2>3, <2>4, <2>5
<1>12. LastCallsNobody'
  <2>1. LastCallsNobody
    BY DEF Structure
  <2> QED BY <1>1, <1>3, <1>4, <1>5, <2>1 DEF LastCallsNobody
<1>13. StreamsOfStreams'
  <2> SUFFICES ASSUME NEW f \in Frames \ {1}, at'[f - 1] = "frame", kind'[f] = "stream"
               PROVE  kind'[f - 1] = "stream"
    BY DEF StreamsOfStreams
  <2>1. f \in Nat /\ f - 1 \in Frames
    BY <1>9
  <2>2. CASE f = cur + 1
    <3>1. f - 1 = cur
      BY <1>1, <2>2
    <3> QED BY <1>1, <1>3, <2>2, <3>1
  <2>3. CASE f = cur + 2
    <3>1. f - 1 = cur + 1
      BY <1>1, <2>3
    <3> QED BY <1>4, <2>1, <3>1
  <2>4. CASE f \notin {cur + 1, cur + 2}
    <3>1. f - 1 # cur /\ f - 1 # cur + 1 /\ kind'[f] = kind[f] /\ kind'[f - 1] = kind[f - 1]
      BY <1>1, <2>1, <2>4
    <3>2. at[f - 1] = "frame"
      BY <1>5, <2>1, <3>1
    <3> QED BY <3>1, <3>2 DEF Structure, StreamsOfStreams
  <2> QED BY <2>2, <2>3, <2>4
<1>14. Path'
  <2>1. cur # 1 => cur - 1 \in Frames /\ at'[cur - 1] = at[cur - 1] /\ at[cur - 1] = "frame"
    BY <1>1, <1>5, <1>9 DEF Structure, Path, InPoll
  <2>2. at'[1] # "absent"
    <3>1. CASE cur = 1
      BY <1>3, <3>1
    <3>2. CASE cur # 1
      <4>1. 1 \in Frames /\ 1 \notin {cur, cur + 1} /\ at[1] # "absent"
        BY <1>1, <3>2 DEF Frames, Structure, Path
      <4> QED BY <1>5, <4>1
    <3> QED BY <3>1, <3>2
  <2> QED BY <1>1, <1>3, <2>1, <2>2 DEF Path
<1>15. EndedWhere'
  <2>1. \A f \in Frames \ {cur, cur + 1} : at[f] # "ended"
    BY <1>1 DEF Structure, EndedWhere
  <2> QED BY <1>1, <1>4, <1>5, <2>1 DEF EndedWhere
<1> QED BY <1>11, <1>12, <1>13, <1>14, <1>15 DEF Nested

\* A poll() that returns goes back to the frame that awaits.
LEMMA AnswerStructure ==
    ASSUME Structure, NEW what \in {"pending", "given", "completed", "threw"},
           Answer(what), UNCHANGED <<kind, at>>,
           at[cur] = "ended" <=> what \in {"completed", "threw"}
    PROVE  /\ Nested' /\ LastCallsNobody' /\ StreamsOfStreams' /\ Path'
           /\ EndedWhere'
<1> USE DEF Answer, NotResumed
<1>1. /\ cur \in Frames /\ cur \in Nat /\ cur >= 1 /\ cur <= Depth
      /\ phase = "tail" /\ resumed \in BOOLEAN /\ at' = at /\ kind' = kind
  BY DEF Structure, TypeOK, Frames
<1>2. Nested' /\ LastCallsNobody' /\ StreamsOfStreams'
  BY <1>1 DEF Structure, Nested, LastCallsNobody, StreamsOfStreams
<1>3. /\ at[1] # "absent" /\ at[cur] # "absent"
      /\ cur # 1 => at[cur - 1] = "frame"
      /\ \A f \in Frames : at[f] = "ended" => f = cur
  BY <1>1 DEF Structure, Path, EndedWhere, InPoll
<1>4. CASE cur = 1
  <2>1. phase' = what /\ cur' = cur /\ resumed' = resumed
    BY <1>4
  <2> QED BY <1>1, <1>2, <1>3, <1>4, <2>1 DEF InPoll, Path, EndedWhere
<1>5. CASE cur # 1
  <2>1. /\ cur' = cur - 1 /\ phase' \in {"tail", "body"} /\ resumed' \in BOOLEAN
        /\ what \in {"completed", "threw"} <=> phase' = "body"
    BY <1>1, <1>5
  <2>2. cur' \in Frames /\ cur' + 1 = cur /\ at[cur'] = "frame"
    BY <1>1, <1>3, <1>5, <2>1 DEF Frames
  <2>3. cur' # 1 => at[cur' - 1] = "frame"
    <3>1. \A f \in Frames \ {1} : at[f] # "absent" <=> at[f - 1] = "frame"
      BY <1>1 DEF Structure, Nested
    <3> QED BY <2>2, <3>1
  <2>4. Path'
    BY <1>1, <1>3, <2>1, <2>2, <2>3 DEF Path
  <2>5. EndedWhere'
    BY <1>1, <1>3, <2>1, <2>2 DEF EndedWhere
  <2> QED BY <1>2, <2>4, <2>5
<1> QED BY <1>4, <1>5

LEMMA StructureStep == Structure /\ [Next]_vars => Structure'
<1> SUFFICES ASSUME Structure, [Next]_vars PROVE Structure'
  OBVIOUS
<1>0. TypeOK /\ TypeOK'
  BY TypeStep DEF Structure
<1>1. CASE UNCHANGED vars
  <2>1. UNCHANGED <<kind, at, result, phase, cur>>
    BY <1>1 DEF vars, frames
  <2> QED BY <1>0, <2>1 DEF Structure, Nested, Results, LastCallsNobody, StreamsOfStreams,
                            Path, EndedWhere
<1>2. CASE Happen \/ Tell
  <2>1. UNCHANGED <<kind, at, result, phase, cur>>
    BY <1>2 DEF Happen, Tell, frames
  <2> QED BY <1>0, <2>1 DEF Structure, Nested, Results, LastCallsNobody, StreamsOfStreams,
                            Path, EndedWhere
\* The steps from the poll down to the body.
<1>3. ASSUME UNCHANGED <<kind, at, result, cur>>, phase = "down",
             phase' \in {"tail", "body"},
             at[cur] # "frame"
      PROVE  Structure'
  <2>1. Nested' /\ LastCallsNobody' /\ StreamsOfStreams'
    BY <1>3 DEF Structure, Nested, LastCallsNobody, StreamsOfStreams
  <2>2. Results' /\ EndedWhere'
    BY <1>3 DEF Structure, Results, EndedWhere
  <2>3. Path'
    BY <1>3 DEF Structure, Path, InPoll
  <2> QED BY <1>0, <2>1, <2>2, <2>3 DEF Structure
<1>4. CASE Runnable \/ PollLeaf \/ PollYield
  <2>1. /\ UNCHANGED <<kind, at, result, cur>> /\ phase = "down"
        /\ at[cur] \in {"runnable", "leaf", "yield"}
    BY <1>4 DEF Runnable, PollLeaf, PollYield, frames
  <2>2. phase' \in {"tail", "body"}
    BY <1>4 DEF Runnable, PollLeaf, PollYield, NotResumed
  <2> QED BY <1>3, <2>1, <2>2
<1>5. CASE Descend
  <2>1. /\ cur \in Nat /\ cur >= 1 /\ cur < Depth /\ at[cur] = "frame"
        /\ cur' = cur + 1 /\ phase = "down" /\ UNCHANGED <<kind, at, result, phase>>
    BY <1>5, <1>0 DEF Descend, frames, Structure, TypeOK, LastCallsNobody, Frames
  <2>2. cur' \in Frames /\ cur' # 1 /\ cur' - 1 = cur
    BY <2>1 DEF Frames
  <2>3. at[cur'] # "absent"
    BY <2>1, <2>2 DEF Structure, Nested
  <2>4. Nested' /\ LastCallsNobody' /\ StreamsOfStreams'
    BY <2>1 DEF Structure, Nested, LastCallsNobody, StreamsOfStreams
  <2>5. Results' /\ EndedWhere'
    BY <2>1 DEF Structure, Results, EndedWhere
  <2>6. Path'
    BY <2>1, <2>2, <2>3 DEF Structure, Path, InPoll
  <2> QED BY <1>0, <2>4, <2>5, <2>6 DEF Structure
<1>6. CASE PollStart
  <2>1. /\ UNCHANGED <<kind, at, result>> /\ phase \in {"new", "pending", "given"}
        /\ phase' = "down" /\ cur' = 1
    BY <1>6 DEF PollStart, frames
  <2>2. Nested' /\ LastCallsNobody' /\ StreamsOfStreams'
    BY <2>1 DEF Structure, Nested, LastCallsNobody, StreamsOfStreams
  <2>3. Results' /\ EndedWhere'
    BY <2>1 DEF Structure, Results, EndedWhere
  <2>4. Path'
    BY <2>1 DEF Structure, Path, InPoll
  <2> QED BY <1>0, <2>2, <2>3, <2>4 DEF Structure
<1>7. CASE Drop
  <2>1. /\ \A f \in Frames : at'[f] = "absent"
        /\ UNCHANGED <<kind, result>> /\ phase \notin InPoll /\ phase' = "dropped"
    BY <1>7 DEF Drop
  <2>2. Nested' /\ LastCallsNobody' /\ EndedWhere'
    BY <2>1 DEF Nested, LastCallsNobody, EndedWhere
  <2>3. \A f \in Frames \ {1} : f - 1 \in Frames
    BY DEF Frames
  <2>4. StreamsOfStreams'
    BY <2>1, <2>3 DEF StreamsOfStreams
  <2>5. Results'
    BY <2>1 DEF Structure, Results, InPoll
  <2>6. Path'
    BY <2>1 DEF Path, InPoll
  <2> QED BY <1>0, <2>2, <2>4, <2>5, <2>6 DEF Structure
<1>8. CASE BodyAwaits \/ BodyAwaitsYield \/ BodyYields \/ BodyReturns \/ BodyThrows
  <2>1. kind' = kind /\ cur \in Frames /\ kind \in [Frames -> {"task", "stream"}]
    BY <1>0, <1>8 DEF BodyAwaits, BodyAwaitsYield, BodyYields, BodyReturns, BodyThrows, TypeOK
  <2>2. PICK place \in {"leaf", "yield", "runnable", "ended"} : BodyRuns(place, "absent")
    BY <1>8 DEF BodyAwaits, BodyAwaitsYield, BodyYields, BodyReturns, BodyThrows, BodyGoesOn
  <2>3. place \in Places \ {"absent"}
    BY DEF Places
  <2>4. Nested' /\ LastCallsNobody' /\ StreamsOfStreams' /\ Path' /\ EndedWhere'
    BY <2>1, <2>2, <2>3, BodyStructure
  <2>5. /\ phase = "body" /\ phase' = "tail" /\ cur' = cur
        /\ \A f \in Frames : result[f] = 0
    BY <2>2 DEF BodyRuns, Structure, Results
  <2>6. Results'
    <3>1. CASE BodyYields
      <4>1. \A f \in Frames : result'[f] # 0 => f = cur
        BY <1>0, <2>5, <3>1 DEF BodyYields, TypeOK
      <4>2. kind[cur] = "stream" /\ BodyRuns("runnable", "absent")
        BY <3>1 DEF BodyYields, BodyGoesOn
      <4>3. at'[cur] = "runnable"
        <5>1. cur \in Nat
          BY <2>1 DEF Frames
        <5> QED BY <2>1, <4>2, <5>1 DEF BodyRuns
      <4> QED BY <2>1, <2>5, <4>1, <4>2, <4>3 DEF Results
    <3>2. CASE result' = result
      BY <2>5, <3>2 DEF Results
    <3> QED BY <1>8, <3>1, <3>2 DEF BodyAwaits, BodyAwaitsYield, BodyReturns, BodyThrows
  <2> QED BY <1>0, <2>4, <2>6 DEF Structure
<1>9. CASE BodyCalls
  <2>1. cur < Depth /\ BodyRuns("frame", "runnable") /\ result' = result
    BY <1>9 DEF BodyCalls, BodyGoesOn
  <2>2. PICK k \in {"task"} \cup {kind[cur]} : kind' = [kind EXCEPT ![cur + 1] = k]
    BY <1>9 DEF BodyCalls
  <2>3. /\ cur \in Frames /\ cur + 1 \in Frames /\ cur + 1 # cur
        /\ kind \in [Frames -> {"task", "stream"}]
    BY <1>0, <2>1 DEF TypeOK, Frames
  <2>4. /\ kind' \in [Frames -> {"task", "stream"}]
        /\ \A f \in Frames : f # cur + 1 => kind'[f] = kind[f]
        /\ kind'[cur + 1] = "stream" => kind[cur] = "stream"
    BY <2>2, <2>3
  <2>5. Nested' /\ LastCallsNobody' /\ StreamsOfStreams' /\ Path' /\ EndedWhere'
    <3>1. "frame" \in Places \ {"absent"}
      BY DEF Places
    <3> QED BY <2>1, <2>4, <3>1, BodyStructure
  <2>6. Results'
    BY <2>1 DEF BodyRuns, Structure, Results
  <2> QED BY <1>0, <2>5, <2>6 DEF Structure
<1>10. CASE TaskReturns \/ TaskThrows \/ StreamEnds \/ StillPending
  <2> USE <1>10 DEF TaskReturns, TaskThrows, StreamEnds, StillPending, frames
  <2>1. UNCHANGED <<kind, at, result>>
    OBVIOUS
  <2>2. Nested' /\ LastCallsNobody' /\ StreamsOfStreams' /\ Path' /\ EndedWhere'
    BY <2>1, AnswerStructure
  <2>3. \A f \in Frames : result[f] = 0
    BY DEF Structure, Results, Answer
  <2> QED BY <1>0, <2>1, <2>2, <2>3 DEF Structure, Results
<1>11. CASE StreamGives
  <2>1. UNCHANGED <<kind, at>> /\ kind[cur] = "stream" /\ Answer("given") /\ phase = "tail"
    BY <1>11 DEF StreamGives, Answer
  <2>2. cur \in Frames /\ cur \in Nat /\ at[cur] # "ended" /\ result[cur] # 0
    BY <1>0, <1>11 DEF StreamGives, Structure, Results, TypeOK, Frames
  <2>3. Nested' /\ LastCallsNobody' /\ StreamsOfStreams' /\ Path' /\ EndedWhere'
    BY <2>1, <2>2, AnswerStructure
  <2>4. \A f \in Frames : result'[f] # 0 => f = cur - 1
    BY <1>11, <2>1, <2>2 DEF StreamGives, Structure, Results
  <2>5. CASE cur = 1
    BY <1>0, <2>3, <2>4, <2>5 DEF Structure, Results, Frames
  <2>6. CASE cur # 1
    <3>1. cur' = cur - 1 /\ phase' = "tail"
      BY <2>1, <2>6 DEF Answer, NotResumed
    <3>2. at[cur - 1] = "frame" /\ kind[cur - 1] = "stream"
      BY <2>1, <2>2, <2>6 DEF Structure, Path, InPoll, StreamsOfStreams
    <3> QED BY <1>0, <2>1, <2>3, <2>4, <3>1, <3>2 DEF Structure, Results
  <2> QED BY <2>5, <2>6
<1> QED BY <1>1, <1>2, <1>4, <1>5, <1>6, <1>7, <1>8, <1>9, <1>10, <1>11 DEF Next

LEMMA StructureAlways == Spec => []Structure
<1> QED BY StructureInit, StructureStep, PTL DEF Spec

\* Every variable has its type: at most Depth frames nest, and a yield() counts
\* down from MaxTurns to zero and no further (yield.cppm, task.cppm:58-97,
\* stream.cppm:60-93).
THEOREM TypeCorrect == Spec => []TypeOK
<1> QED BY StructureAlways, PTL DEF Structure

------------------------------------------------------------------------------
\* While polls return, either the executor has been woken, or will be by the
\* poll that resumed the body, or by the awaitable.
WakesOnReturn ==
    phase = "tail" =>
        \/ at[cur] = "ended" \/ result[cur] # 0
        \/ woken \/ resumed \/ leaf = "pending"

\* The exception that a poll carries up from one frame to the next.
InFlight ==
    IF phase = "threw" \/ (phase \in {"body", "tail"} /\ exception[cur]) THEN 1 ELSE 0

\* A promise holds an exception while its frame is resumed or is about to return
\* it, and that of a stream that has ended keeps it.
ExceptionWhere ==
    \A f \in Frames : exception[f] =>
        \/ phase \in {"body", "tail"} /\ f = cur /\ (phase = "tail" => at[f] = "ended")
        \/ phase = "body" /\ f = cur + 1 /\ kind[f] = "stream" /\ at[f] = "ended"
        \/ phase = "completed" /\ f = 1 /\ kind[f] = "stream" /\ at[f] = "ended"
        \/ phase = "dropped"

ExceptionsCounted ==
    phase # "dropped" => thrown = caught + lost + InFlight

\* At most the last value yielded waits in a promise.
ValuesCounted ==
    /\ \A i \in 1..Len(out) : out[i] = i
    /\ Len(out) = yielded - (IF phase = "tail" /\ result[cur] # 0 THEN 1 ELSE 0)
    /\ phase = "tail" /\ result[cur] # 0 => result[cur] = yielded

------------------------------------------------------------------------------
\* What a poll that ends leaves behind.
LEMMA WakesStep ==
    Structure /\ Structure' /\ NoLostWakeup /\ WakesOnReturn /\ [Next]_vars
        => NoLostWakeup' /\ WakesOnReturn'
<1> SUFFICES ASSUME Structure, Structure', NoLostWakeup, WakesOnReturn, [Next]_vars
             PROVE  NoLostWakeup' /\ WakesOnReturn'
  OBVIOUS
<1> USE DEF NoLostWakeup, WakesOnReturn, frames, event, history
<1>0. /\ cur \in Frames /\ cur \in Nat /\ woken \in BOOLEAN /\ resumed \in BOOLEAN
      /\ result \in [Frames -> Nat]
      /\ cur # 1 => cur - 1 \in Frames
  <2>1. cur \in Frames /\ woken \in BOOLEAN /\ resumed \in BOOLEAN /\ result \in [Frames -> Nat]
    BY DEF Structure, TypeOK
  <2> QED BY <2>1 DEF Frames
<1>1. CASE UNCHANGED vars
  <2>1. UNCHANGED <<at, result, leaf, phase, cur, resumed, woken>>
    BY <1>1 DEF vars
  <2> QED BY <2>1
<1>2. CASE Happen \/ Tell
  BY <1>2 DEF Happen, Tell
<1>3. CASE PollStart \/ Drop \/ Runnable \/ Descend
  BY <1>3 DEF PollStart, Drop, Runnable, Descend
<1>4. CASE PollLeaf \/ PollYield
  BY <1>4 DEF PollLeaf, PollYield, NotResumed
<1>5. ASSUME NEW place, NEW next, BodyRuns(place, next)
      PROVE  NoLostWakeup' /\ WakesOnReturn'
  BY <1>5 DEF BodyRuns
<1>6. CASE \/ BodyAwaits \/ BodyAwaitsYield \/ BodyCalls
           \/ BodyYields \/ BodyReturns \/ BodyThrows
  BY <1>5, <1>6 DEF BodyAwaits, BodyAwaitsYield, BodyCalls, BodyYields, BodyReturns,
                    BodyThrows, BodyGoesOn
<1>7. CASE TaskReturns \/ TaskThrows \/ StreamEnds
  BY <1>7 DEF TaskReturns, TaskThrows, StreamEnds, Answer
<1>8. CASE StreamGives
  <2>1. CASE cur = 1
    BY <1>8, <2>1 DEF StreamGives, Answer
  <2>2. CASE cur # 1
    <3>1. cur' = cur - 1 /\ result'[cur - 1] = result[cur] /\ result[cur] # 0
      BY <1>0, <1>8, <2>2 DEF StreamGives, Answer
    <3>2. phase' = "tail"
      BY <1>8, <2>2 DEF StreamGives, Answer, NotResumed
    <3> QED BY <3>1, <3>2
  <2> QED BY <2>1, <2>2
<1>9. CASE StillPending
  <2>1. woken' = (woken \/ resumed) /\ leaf' = leaf /\ phase = "tail"
        /\ at[cur] # "ended" /\ result[cur] = 0
    BY <1>9 DEF StillPending, Answer
  <2>2. woken' \/ leaf' = "pending"
    BY <1>0, <2>1
  <2> QED BY <2>2
<1> QED BY <1>1, <1>2, <1>3, <1>4, <1>6, <1>7, <1>8, <1>9 DEF Next

\* However frames nest and whatever bodies do, a poll that returns pending has
\* called the waker, or left it with the awaitable that the innermost body awaits:
\* the `if (resumed) w.wake()' of every level is enough (task.cppm:89,
\* stream.cppm:84).
THEOREM WakesSomebody == Spec => []NoLostWakeup
<1>1. Init => NoLostWakeup /\ WakesOnReturn
  BY DEF Init, NoLostWakeup, WakesOnReturn
<1> QED BY <1>1, StructureAlways, WakesStep, PTL DEF Spec

------------------------------------------------------------------------------
LEMMA ExceptionStep ==
    Structure /\ Structure' /\ ExceptionWhere /\ ExceptionsCounted /\ [Next]_vars
        => ExceptionWhere' /\ ExceptionsCounted'
<1> SUFFICES ASSUME Structure, Structure', ExceptionWhere, ExceptionsCounted, [Next]_vars
             PROVE  ExceptionWhere' /\ ExceptionsCounted'
  OBVIOUS
<1> USE DEF frames, event, history
<1>0. /\ cur \in Frames /\ cur \in Nat /\ cur >= 1
      /\ at \in [Frames -> Places] /\ exception \in [Frames -> BOOLEAN]
      /\ thrown \in Nat /\ caught \in Nat /\ lost \in Nat
      /\ cur # 1 => cur - 1 \in Frames
      /\ \A f \in Frames : f \in Nat
  <2>1. /\ cur \in Frames
        /\ at \in [Frames -> Places] /\ exception \in [Frames -> BOOLEAN]
        /\ thrown \in Nat /\ caught \in Nat /\ lost \in Nat
    BY DEF Structure, TypeOK
  <2>2. \A f \in Frames : f \in Nat /\ f >= 1 /\ (f # 1 => f - 1 \in Frames)
    BY DEF Frames
  <2> QED BY <2>1, <2>2
<1>1. CASE UNCHANGED <<kind, at, exception, phase, cur, thrown, caught, lost>>
  BY <1>1 DEF ExceptionWhere, ExceptionsCounted, InFlight
<1>2. CASE UNCHANGED vars \/ Happen \/ Tell
  BY <1>1, <1>2 DEF vars, Happen, Tell
<1>3. CASE Drop
  BY <1>3 DEF Drop, ExceptionWhere, ExceptionsCounted
\* The way down leaves no exception in a promise, except the awaitable's.
<1>4. ASSUME phase \in {"new", "pending", "given", "down"}
      PROVE  (\A f \in Frames : ~exception[f]) /\ thrown = caught + lost
  BY <1>0, <1>4 DEF ExceptionWhere, ExceptionsCounted, InFlight
<1>5. CASE PollStart \/ Runnable \/ Descend \/ PollYield
  <2>1. /\ phase \in {"new", "pending", "given", "down"}
        /\ UNCHANGED <<exception, thrown, caught, lost>>
        /\ phase' \in {"down", "body", "tail"} /\ cur' \in Frames
    BY <1>5 DEF PollStart, Runnable, Descend, PollYield, NotResumed, Structure, TypeOK
  <2> QED BY <1>0, <1>4, <2>1 DEF ExceptionWhere, ExceptionsCounted, InFlight
<1>6. CASE PollLeaf
  <2>1. /\ phase = "down" /\ cur' = cur /\ UNCHANGED <<caught, lost>>
        /\ exception' = [exception EXCEPT ![cur] = (outcome = "exception")]
        /\ thrown' = IF outcome = "exception" THEN thrown + 1 ELSE thrown
        /\ phase' \in {"body", "tail"}
        /\ outcome = "exception" => phase' = "body"
    BY <1>6 DEF PollLeaf, NotResumed
  <2>2. (\A f \in Frames : exception'[f] => f = cur)
        /\ (exception'[cur] <=> outcome = "exception")
    BY <1>0, <1>4, <2>1
  <2>3. ExceptionWhere'
    BY <2>1, <2>2 DEF ExceptionWhere
  <2>4. ExceptionsCounted'
    BY <1>0, <1>4, <2>1, <2>2 DEF ExceptionsCounted, InFlight
  <2> QED BY <2>3, <2>4
\* A body takes the exception that was thrown into it.
<1>7. ASSUME NEW place, NEW next, BodyRuns(place, next)
      PROVE  /\ phase = "body" /\ phase' = "tail" /\ cur' = cur /\ lost' = lost
             /\ at'[cur] = place
             /\ \A f \in Frames : f < cur => ~exception[f]
             /\ thrown = caught + lost + (IF exception[cur] THEN 1 ELSE 0)
  <2>1. phase = "body" /\ phase' = "tail" /\ cur' = cur /\ lost' = lost /\ at'[cur] = place
    BY <1>0, <1>7 DEF BodyRuns
  <2> QED BY <1>0, <2>1 DEF ExceptionWhere, ExceptionsCounted, InFlight
<1>8. ASSUME NEW place, NEW next, BodyRuns(place, next), Caught,
             exception' = [f \in Frames |-> f < cur /\ exception[f]], thrown' = thrown
      PROVE  ExceptionWhere' /\ ExceptionsCounted'
  <2>1. \A f \in Frames : ~exception'[f]
    BY <1>7, <1>8
  <2>2. caught' = IF exception[cur] THEN caught + 1 ELSE caught
    BY <1>8 DEF Caught
  <2> QED BY <1>0, <1>7, <1>8, <2>1, <2>2 DEF ExceptionWhere, ExceptionsCounted, InFlight
<1>9. CASE BodyAwaits \/ BodyAwaitsYield \/ BodyCalls \/ BodyYields \/ BodyReturns
  BY <1>8, <1>9 DEF BodyAwaits, BodyAwaitsYield, BodyCalls, BodyYields, BodyReturns, BodyGoesOn
<1>10. CASE BodyThrows
  <2>1. BodyRuns("ended", "absent")
        /\ exception' = [f \in Frames |-> f = cur \/ (f < cur /\ exception[f])]
    BY <1>10 DEF BodyThrows
  <2>2. (\A f \in Frames : exception'[f] => f = cur) /\ exception'[cur]
    BY <1>0, <1>7, <2>1
  <2>3. thrown' = caught' + lost + 1
    <3>1. CASE exception[cur] /\ UNCHANGED <<thrown, caught>>
      BY <1>7, <2>1, <3>1
    <3>2. CASE thrown' = thrown + 1 /\ Caught
      BY <1>0, <1>7, <2>1, <3>2 DEF Caught
    <3> QED BY <1>10, <3>1, <3>2 DEF BodyThrows
  <2> QED BY <1>7, <2>1, <2>2, <2>3 DEF ExceptionWhere, ExceptionsCounted, InFlight
\* A poll that returns: only its own frame may hold an exception.
<1>11. ASSUME NEW what, Answer(what)
       PROVE  /\ phase = "tail" /\ \A f \in Frames : exception[f] => f = cur /\ at[f] = "ended"
              /\ thrown = caught + lost + (IF exception[cur] THEN 1 ELSE 0)
              /\ cur = 1 => phase' = what /\ cur' = 1
              /\ cur # 1 => cur' = cur - 1 /\ phase' \in {"body", "tail"}
              /\ cur # 1 /\ what \notin {"pending", "given"} => phase' = "body"
  <2>1. /\ phase = "tail"
        /\ cur = 1 => phase' = what /\ cur' = 1
        /\ cur # 1 => cur' = cur - 1 /\ phase' \in {"body", "tail"}
        /\ cur # 1 /\ what \notin {"pending", "given"} => phase' = "body"
    BY <1>11 DEF Answer, NotResumed
  <2> QED BY <1>0, <2>1 DEF ExceptionWhere, ExceptionsCounted, InFlight
<1>12. ASSUME NEW what \in {"pending", "given", "completed"}, Answer(what), ~exception[cur],
              UNCHANGED <<exception, thrown, caught, lost>>
       PROVE  ExceptionWhere' /\ ExceptionsCounted'
  <2>1. \A f \in Frames : ~exception'[f]
    BY <1>11, <1>12
  <2>2. phase' # "threw" /\ cur' \in Frames
    BY <1>11, <1>12, <1>0
  <2> QED BY <1>0, <1>11, <1>12, <2>1, <2>2 DEF ExceptionWhere, ExceptionsCounted, InFlight
<1>13. CASE TaskReturns
  BY <1>12, <1>13 DEF TaskReturns
<1>14. CASE StillPending
  BY <1>0, <1>11, <1>12, <1>14 DEF StillPending
<1>15. CASE StreamGives
  <2>1. at[cur] # "ended"
    BY <1>0, <1>15 DEF StreamGives, Structure, Results
  <2> QED BY <1>0, <1>11, <1>12, <1>15, <2>1 DEF StreamGives
<1>16. CASE TaskThrows
  <2>1. /\ exception' = [f \in Frames |-> f # cur /\ (f = cur - 1 \/ exception[f])]
        /\ Answer("threw") /\ exception[cur] /\ UNCHANGED <<thrown, caught, lost>>
    BY <1>16 DEF TaskThrows
  <2>2. thrown = caught + lost + 1
    BY <1>11, <2>1
  <2>3. CASE cur = 1
    <3>1. cur - 1 \notin Frames
      BY <2>3 DEF Frames
    <3>2. \A f \in Frames : ~exception'[f]
      BY <1>11, <2>1, <3>1
    <3> QED BY <1>11, <2>1, <2>2, <2>3, <3>2 DEF ExceptionWhere, ExceptionsCounted, InFlight
  <2>4. CASE cur # 1
    <3>1. (\A f \in Frames : exception'[f] => f = cur - 1) /\ exception'[cur - 1]
      BY <1>0, <1>11, <2>1, <2>4
    <3> QED BY <1>11, <2>1, <2>2, <2>4, <3>1 DEF ExceptionWhere, ExceptionsCounted, InFlight
  <2> QED BY <2>3, <2>4
<1>17. CASE StreamEnds
  <2>1. /\ Answer("completed") /\ kind[cur] = "stream" /\ at[cur] = "ended"
        /\ lost' = IF exception[cur] THEN lost + 1 ELSE lost
        /\ UNCHANGED <<kind, at, exception, thrown, caught>>
    BY <1>17 DEF StreamEnds
  <2>2. thrown' = caught' + lost'
    BY <1>0, <1>11, <2>1
  <2>3. CASE cur = 1
    BY <1>0, <1>11, <2>1, <2>2, <2>3 DEF ExceptionWhere, ExceptionsCounted, InFlight
  <2>4. CASE cur # 1
    <3>1. cur' = cur - 1 /\ phase' = "body" /\ cur' + 1 = cur
      BY <1>0, <1>11, <2>1, <2>4
    <3>2. ~exception'[cur']
      BY <1>0, <1>11, <2>1, <2>4, <3>1
    <3>3. ExceptionWhere'
      BY <1>11, <2>1, <3>1 DEF ExceptionWhere
    <3> QED BY <1>0, <2>1, <2>2, <3>1, <3>2, <3>3 DEF ExceptionsCounted, InFlight
  <2> QED BY <2>3, <2>4
<1> QED BY <1>2, <1>3, <1>5, <1>6, <1>9, <1>10, <1>13, <1>14, <1>15, <1>16, <1>17 DEF Next

\* However deep an exception is thrown, it is caught by a body, or comes out of
\* poll(), or is that of a stream, which poll_next() leaves in the promise; no
\* promise of a task is destroyed with an exception in it (task.cppm:67, 77-81,
\* stream.cppm:69-80, detail_promise.cppm:167).
THEOREM NoExceptionVanishes == Spec => []ExceptionsArrive
<1>1. Init => ExceptionWhere /\ ExceptionsCounted
  BY DEF Init, ExceptionWhere, ExceptionsCounted, InFlight
<1>2. Structure /\ ExceptionWhere /\ ExceptionsCounted => ExceptionsArrive
  <2> SUFFICES ASSUME Structure, ExceptionWhere, ExceptionsCounted,
                      phase \notin InPoll \cup {"dropped"}
               PROVE  /\ thrown = caught + lost + (IF phase = "threw" THEN 1 ELSE 0)
                      /\ \A f \in Frames :
                            exception[f] => kind[f] = "stream" /\ at[f] = "ended"
    BY DEF ExceptionsArrive
  <2>1. thrown = caught + lost + (IF phase = "threw" THEN 1 ELSE 0)
    BY DEF ExceptionsCounted, InFlight, InPoll
  <2>2. \A f \in Frames : exception[f] => kind[f] = "stream" /\ at[f] = "ended"
    BY DEF ExceptionWhere, InPoll
  <2> QED BY <2>1, <2>2
<1> QED BY <1>1, <1>2, StructureAlways, ExceptionStep, PTL DEF Spec

------------------------------------------------------------------------------
LEMMA ValuesStep ==
    Structure /\ Structure' /\ ValuesCounted /\ [Next]_vars => ValuesCounted'
<1> SUFFICES ASSUME Structure, Structure', ValuesCounted, [Next]_vars PROVE ValuesCounted'
  OBVIOUS
<1> USE DEF frames, event, history
<1>0. /\ cur \in Frames /\ cur \in Nat /\ result \in [Frames -> Nat]
      /\ out \in Seq(Nat) /\ Len(out) \in Nat /\ yielded \in Nat
      /\ cur # 1 => cur - 1 \in Frames
  <2>1. cur \in Frames /\ result \in [Frames -> Nat] /\ out \in Seq(Nat) /\ yielded \in Nat
    BY DEF Structure, TypeOK
  <2>2. \A f \in Frames : f \in Nat /\ (f # 1 => f - 1 \in Frames)
    BY DEF Frames
  <2>3. Len(out) \in Nat
    BY <2>1, LenProperties
  <2> QED BY <2>1, <2>2, <2>3
<1>1. CASE UNCHANGED <<result, phase, cur, yielded, out>>
  BY <1>1 DEF ValuesCounted
<1>2. CASE UNCHANGED vars \/ Happen \/ Tell
  BY <1>1, <1>2 DEF vars, Happen, Tell
\* In all other steps only StreamGives leaves a state in which a value waits.
<1>3. ASSUME UNCHANGED <<yielded, out>>, ~(phase = "tail" /\ result[cur] # 0),
             ~(phase' = "tail" /\ result'[cur'] # 0)
      PROVE  ValuesCounted'
  BY <1>3 DEF ValuesCounted
<1>4. ASSUME result' = result, UNCHANGED <<yielded, out>>, ~(phase = "tail" /\ result[cur] # 0)
      PROVE  ValuesCounted'
  <2>1. \A f \in Frames : result[f] = 0
    BY <1>4 DEF Structure, Results
  <2>2. cur' \in Frames
    BY DEF Structure, TypeOK
  <2> QED BY <1>3, <1>4, <2>1, <2>2
<1>5. CASE PollStart \/ Drop \/ Runnable \/ Descend \/ PollLeaf \/ PollYield
  <2>1. UNCHANGED <<result, yielded, out>> /\ phase # "tail"
    BY <1>5 DEF PollStart, Drop, Runnable, Descend, PollLeaf, PollYield, InPoll
  <2> QED BY <1>4, <2>1
<1>6. CASE BodyAwaits \/ BodyAwaitsYield \/ BodyCalls \/ BodyReturns \/ BodyThrows
  <2>1. UNCHANGED <<result, yielded, out>> /\ phase = "body"
    BY <1>6 DEF BodyAwaits, BodyAwaitsYield, BodyCalls, BodyReturns, BodyThrows, BodyGoesOn,
                BodyRuns
  <2> QED BY <1>4, <2>1
<1>7. CASE BodyYields
  <2>1. /\ phase = "body" /\ phase' = "tail" /\ cur' = cur /\ out' = out
        /\ yielded' = yielded + 1 /\ result' = [result EXCEPT ![cur] = yielded']
    BY <1>7 DEF BodyYields, BodyGoesOn, BodyRuns
  <2>2. result'[cur'] = yielded + 1
    BY <1>0, <2>1
  <2> QED BY <1>0, <2>1, <2>2 DEF ValuesCounted
<1>8. CASE TaskReturns \/ TaskThrows \/ StreamEnds \/ StillPending
  <2>1. UNCHANGED <<result, yielded, out>>
    BY <1>8 DEF TaskReturns, TaskThrows, StreamEnds, StillPending
  <2>2. result[cur] = 0
    BY <1>0, <1>8 DEF TaskReturns, TaskThrows, StreamEnds, StillPending, Structure, Results
  <2> QED BY <1>4, <2>1, <2>2
<1>9. CASE StreamGives
  <2>1. /\ phase = "tail" /\ result[cur] # 0 /\ Answer("given") /\ yielded' = yielded
        /\ result' = [f \in Frames |-> CASE f = cur     -> 0
                                          [] f = cur - 1 -> result[cur]
                                          [] OTHER       -> result[f]]
        /\ out' = IF cur = 1 THEN Append(out, result[cur]) ELSE out
    BY <1>9 DEF StreamGives, Answer
  <2>2. Len(out) = yielded - 1 /\ result[cur] = yielded /\ \A i \in 1..Len(out) : out[i] = i
    BY <2>1 DEF ValuesCounted
  <2>3. CASE cur = 1
    <3>1. phase' = "given"
      BY <2>1, <2>3 DEF Answer
    <3>2. out' = Append(out, yielded)
      BY <2>1, <2>2, <2>3
    <3>3. /\ Len(out') = Len(out) + 1 /\ out'[Len(out) + 1] = yielded
          /\ \A i \in 1..Len(out) : out'[i] = out[i]
      BY <1>0, <3>2, AppendProperties
    <3>4. Len(out') = yielded /\ \A i \in 1..Len(out') : out'[i] = i
      BY <1>0, <2>2, <3>3
    <3> QED BY <1>0, <2>1, <3>1, <3>4 DEF ValuesCounted
  <2>4. CASE cur # 1
    <3>1. phase' = "tail" /\ cur' = cur - 1 /\ out' = out
      BY <2>1, <2>4 DEF Answer, NotResumed
    <3>2. result'[cur'] = result[cur]
      BY <1>0, <2>1, <2>4, <3>1
    <3> QED BY <2>1, <2>2, <3>1, <3>2 DEF ValuesCounted
  <2> QED BY <2>3, <2>4
<1> QED BY <1>2, <1>5, <1>6, <1>7, <1>8, <1>9 DEF Next

\* However streams nest, the values they yield come out of poll_next() of the
\* outermost one once each and in order, and none is left in a promise when it
\* returns: a promise never holds a second value (stream.cppm:76,
\* detail_promise.cppm:79-83, 106).
THEOREM EveryValueComesOut == Spec => []ValuesInOrder
<1>1. Init => ValuesCounted
  BY DEF Init, ValuesCounted
<1>2. Structure /\ ValuesCounted => ValuesInOrder
  <2> SUFFICES ASSUME Structure, ValuesCounted PROVE ValuesInOrder
    OBVIOUS
  <2>1. phase \notin InPoll => Len(out) = yielded
    <3> SUFFICES ASSUME phase \notin InPoll PROVE Len(out) = yielded
      OBVIOUS
    <3>1. yielded \in Nat /\ phase # "tail"
      BY DEF Structure, TypeOK, InPoll
    <3> QED BY <3>1 DEF ValuesCounted
  <2> QED BY <2>1 DEF ValuesCounted, ValuesInOrder
<1> QED BY <1>1, <1>2, StructureAlways, ValuesStep, PTL DEF Spec
=============================================================================
