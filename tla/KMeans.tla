-------------------------------- MODULE KMeans --------------------------------
(***************************************************************************)
(* The clustering of benchmark/tsx/kmeans: the main task and the tasks of  *)
(* Work_Group, which meet at the entries Init, Start, Finish and Repeat,   *)
(* and the protected objects Global_s, which hands out chunks of points,   *)
(* and New_Centers.  Which center is the nearest of a point is any         *)
(* function of the centers, and of the sums in New_Centers only the number *)
(* of points is kept.                                                      *)
(***************************************************************************)
EXTENDS Integers, FiniteSets

CONSTANTS
  NThreads, NPoints, NClusters,
  CHUNK,
  MaxLoops,  \* 500: the Loop_Count, from -1 on, after which Normal_Exec ends
  Nearest    \* what Find_Nearest may answer: functions from points to clusters

VARIABLES
  main, i, loop,          \* the main task, its loop variable and Loop_Count
  nearest,                \* Find_Nearest with the current centers
  Membership,
  Q_Index, Delt,          \* Global_s
  len,                    \* New_Centers: Data (c, 0)
  work,                   \* label of each task of Work_Group
  Start_Pos, Stop_Pos, point, Local_Delta,   \* their locals
  done,                   \* history: how often each point was worked on in this loop
  changed                 \* history: how often a point changed its center, in all loops

mainVars == <<main, i, loop>>
localVars == <<Start_Pos, Stop_Pos, point, Local_Delta>>
history == <<done, changed>>
meansVars == <<mainVars, nearest, Membership, Q_Index, Delt, len, work, localVars, history>>

Group == 1 .. NThreads
Points == 1 .. NPoints
Centers == 1 .. NClusters

\* Normal_Exec up to its loop; Set_Index and Set_Delta are its first statements.
MeansInit ==
  /\ main = "start" /\ i = 1 /\ loop = -1
  /\ nearest \in Nearest
  /\ Membership = [p \in Points |-> -1]
  /\ Q_Index = NThreads * CHUNK /\ Delt = 0
  /\ len = [c \in Centers |-> 0]
  /\ work = [w \in Group |-> "start"]
  /\ Start_Pos = [w \in Group |-> 0] /\ Stop_Pos = [w \in Group |-> 0]
  /\ point = [w \in Group |-> 0]
  /\ Local_Delta = [w \in Group |-> 0]
  /\ done = [p \in Points |-> 0] /\ changed = 0

\* Wrong variant of Smaller: the last chunk is not cut off.
SmallerNot(a, b) == a

\* A chunk ends with the last point at the latest.
Smaller(a, b) == IF a < b THEN a ELSE b

-----------------------------------------------------------------------------
(* Tasks of Work_Group *)

\* The chunk from pos on, if there is one: the while loop and Stop_Pos.
TakeChunk(w, pos) ==
  /\ Start_Pos' = [Start_Pos EXCEPT ![w] = pos]
  /\ Stop_Pos' = [Stop_Pos EXCEPT ![w] = IF pos < NPoints THEN Smaller(pos + CHUNK, NPoints) ELSE @]
  /\ point' = [point EXCEPT ![w] = pos + 1]
  /\ work' = [work EXCEPT ![w] = IF pos < NPoints THEN "compare" ELSE "addDelta"]

\* if Membership (i) /= Member (Index)
Compare(w) ==
  /\ work[w] = "compare"
  /\ LET p == point[w]
         another == IF Membership[p] # nearest[p] THEN 1 ELSE 0
     IN  /\ Local_Delta' = [Local_Delta EXCEPT ![w] = @ + another]
         /\ changed' = changed + another
         /\ Membership' = [Membership EXCEPT ![p] = nearest[p]]
  /\ work' = [work EXCEPT ![w] = "write"]
  /\ UNCHANGED <<mainVars, nearest, Q_Index, Delt, len, Start_Pos, Stop_Pos, point, done>>

\* New_Centers.Write_Points, and the for loop
WritePoints(w) ==
  /\ work[w] = "write"
  /\ len' = [len EXCEPT ![nearest[point[w]]] = @ + 1]
  /\ done' = [done EXCEPT ![point[w]] = @ + 1]
  /\ point' = [point EXCEPT ![w] = @ + 1]
  /\ work' = [work EXCEPT ![w] =
                IF point[w] < Stop_Pos[w] THEN "compare"
                ELSE IF Start_Pos[w] + CHUNK < NPoints THEN "addIndex" ELSE "addDelta"]
  /\ UNCHANGED <<mainVars, nearest, Membership, Q_Index, Delt, Start_Pos, Stop_Pos, Local_Delta,
                 changed>>

\* Global_s.Add_Index
AddIndex(w) ==
  /\ work[w] = "addIndex"
  /\ TakeChunk(w, Q_Index)
  /\ Q_Index' = Q_Index + CHUNK
  /\ UNCHANGED <<mainVars, nearest, Membership, Delt, len, Local_Delta, history>>

\* Wrong variant of AddDelta: the sum is read before it is added to.
AddDeltaBlindly(w) ==
  /\ work[w] = "addDelta"
  /\ Delt' = Local_Delta[w]
  /\ work' = [work EXCEPT ![w] = "finish"]
  /\ UNCHANGED <<mainVars, nearest, Membership, Q_Index, len, localVars, history>>

\* Global_s.Add_Delta.  Local_Delta is not reset for the next loop.
AddDelta(w) ==
  /\ work[w] = "addDelta"
  /\ Delt' = Delt + Local_Delta[w]
  /\ work' = [work EXCEPT ![w] = "finish"]
  /\ UNCHANGED <<mainVars, nearest, Membership, Q_Index, len, localVars, history>>

-----------------------------------------------------------------------------
(* The main task: Normal_Exec *)

\* The loops over the tasks: i goes from 1 to nThreads, main to there.
NextTask(there) ==
  IF i < NThreads THEN i' = i + 1 /\ UNCHANGED main ELSE i' = 1 /\ main' = there

\* The rendezvous Start; the tasks before are at work already.
Start ==
  /\ main = "start" /\ work[i] = "start"
  /\ NextTask("finish")
  /\ TakeChunk(i, (i - 1) * CHUNK)
  /\ UNCHANGED <<loop, nearest, Membership, Q_Index, Delt, len, Local_Delta, history>>

Finish ==
  /\ main = "finish" /\ work[i] = "finish"
  /\ NextTask("centers")
  /\ work' = [work EXCEPT ![i] = "repeat"]
  /\ UNCHANGED <<loop, nearest, Membership, Q_Index, Delt, len, localVars, history>>

\* The centers are computed and New_Centers is set to zero.
NewCenters ==
  /\ main = "centers"
  /\ loop' = loop + 1
  /\ main' = IF loop' = MaxLoops THEN "end" ELSE "repeat"
  /\ nearest' \in Nearest
  /\ len' = [c \in Centers |-> 0]
  /\ UNCHANGED <<i, Membership, Q_Index, Delt, work, localVars, history>>

\* Repeat (True) for all tasks, and the first statements of the loop
Repeat ==
  /\ main = "repeat" /\ work[i] = "repeat"
  /\ NextTask("start")
  /\ work' = [work EXCEPT ![i] = "start"]
  /\ IF i = NThreads
     THEN Q_Index' = NThreads * CHUNK /\ Delt' = 0 /\ done' = [p \in Points |-> 0]
     ELSE UNCHANGED <<Q_Index, Delt, done>>
  /\ UNCHANGED <<loop, nearest, Membership, len, localVars, changed>>

\* Repeat (False)
End ==
  /\ main = "end" /\ work[i] = "repeat"
  /\ NextTask("done")
  /\ work' = [work EXCEPT ![i] = "done"]
  /\ UNCHANGED <<loop, nearest, Membership, Q_Index, Delt, len, localVars, history>>

Main == Start \/ Finish \/ NewCenters \/ Repeat \/ End

Work(w) == Compare(w) \/ WritePoints(w) \/ AddIndex(w) \/ AddDelta(w)

MeansNext == Main \/ \E w \in Group : Work(w)

MeansSpec == MeansInit /\ [][MeansNext]_meansVars

\* The operating system schedules every task again and again.
FairMeansSpec == MeansSpec /\ WF_meansVars(Main) /\ \A w \in Group : WF_meansVars(Work(w))

-----------------------------------------------------------------------------

MeansTypeOK ==
  /\ main \in {"start", "finish", "centers", "repeat", "end", "done"}
  /\ i \in Group /\ loop \in -1 .. MaxLoops
  /\ nearest \in Nearest /\ Membership \in [Points -> Centers \cup {-1}]
  /\ Q_Index \in Nat /\ Delt \in Nat
  /\ len \in [Centers -> Nat]
  /\ work \in [Group -> {"start", "compare", "write", "addIndex", "addDelta", "finish",
                         "repeat", "done"}]
  /\ Start_Pos \in [Group -> Nat] /\ Stop_Pos \in [Group -> 0 .. NPoints]
  /\ point \in [Group -> Nat] /\ Local_Delta \in [Group -> Nat]
  /\ done \in [Points -> Nat] /\ changed \in Nat

\* The chunks are handed out so that every point is worked on once in a loop,
\* with the last chunk cut off and more tasks than chunks, and the centers are
\* divided by the number of points that were added to them.
EachPointOnce ==
  /\ \A p \in Points : done[p] <= 1
  /\ main = "centers" =>
       /\ \A p \in Points : done[p] = 1 /\ Membership[p] = nearest[p]
       /\ \A c \in Centers : len[c] = Cardinality({p \in Points : nearest[p] = c})

\* What the main task gets from Get_Delta is the number of changes of all loops
\* up to this one, since no task sets its Local_Delta back: no change is lost
\* and none is added by two tasks.
ChangesCounted == main = "centers" => Delt = changed
=============================================================================
