---------------------------- MODULE RemoteLemmas ----------------------------
(***************************************************************************)
(* RemoteInv is inductive: it holds in a fresh home directory, and every   *)
(* step of the remote side and every launch keeps it, whoever the client.  *)
(***************************************************************************)
EXTENDS Remote, SequenceTheorems, TLAPS

(* Updating one entry of a sequence, and extending it, entry by entry. *)
LEMMA SeqUpdate ==
  ASSUME NEW S, NEW s \in Seq(S), NEW i \in DOMAIN s, NEW e \in S
  PROVE  /\ [s EXCEPT ![i] = e] \in Seq(S)
         /\ DOMAIN [s EXCEPT ![i] = e] = DOMAIN s
         /\ \A j \in DOMAIN s : [s EXCEPT ![i] = e][j] = IF j = i THEN e ELSE s[j]
<1>1. DOMAIN s = 1..Len(s)
  OBVIOUS
<1>2. QED
  BY <1>1, ExceptSeq

LEMMA SeqAppend ==
  ASSUME NEW S, NEW s \in Seq(S), NEW e \in S
  PROVE  /\ Append(s, e) \in Seq(S)
         /\ DOMAIN Append(s, e) = DOMAIN s \cup {Len(s) + 1}
         /\ Len(s) + 1 \notin DOMAIN s
         /\ \A j \in DOMAIN s : Append(s, e)[j] = s[j]
         /\ Append(s, e)[Len(s) + 1] = e
<1>1. /\ DOMAIN s = 1..Len(s)
      /\ Len(s) \in Nat
  OBVIOUS
<1>2. /\ Append(s, e) \in Seq(S)
      /\ DOMAIN Append(s, e) = 1..Len(s) + 1
  BY AppendProperties
<1>3. QED
  BY <1>1, <1>2, AppendProperties

(* A step of door process d changes its pc, and sbatch its jid; the rest of *)
(* it and every other process stay as they are.                             *)
DoorMoved(d, pc, jid) ==
  /\ door' \in Seq(DoorProcess)
  /\ DOMAIN door' = DOMAIN door
  /\ \A e \in DOMAIN door :
        /\ door[e] \in DoorProcess
        /\ door'[e].act = door[e].act
        /\ door'[e].ctr = door[e].ctr
        /\ DoorInst(e)' = DoorInst(e)
        /\ door'[e].pc = IF e = d THEN pc ELSE door[e].pc
        /\ door'[e].jid = IF e = d THEN jid ELSE door[e].jid

PhaseSet == {"script", "sbatch", "jid", "cancel", "done", "dead"}

LEMMA DoorUpdate ==
  ASSUME RemoteTypeOK, NEW d \in DOMAIN door, NEW r \in DoorProcess,
         r.act = door[d].act, r.ctr = door[d].ctr,
         door' = [door EXCEPT ![d] = r]
  PROVE  DoorMoved(d, r.pc, r.jid)
<1>1. /\ door' \in Seq(DoorProcess)
      /\ DOMAIN door' = DOMAIN door
      /\ \A e \in DOMAIN door : door'[e] = IF e = d THEN r ELSE door[e]
  BY SeqUpdate DEF RemoteTypeOK
<1>2. \A e \in DOMAIN door : door[e] \in DoorProcess
  BY DEF RemoteTypeOK
<1>3. QED
  BY <1>1, <1>2 DEF DoorMoved, DoorInst

LEMMA DoorPcUpdate ==
  ASSUME RemoteTypeOK, NEW d \in DOMAIN door, NEW pc \in PhaseSet,
         door' = [door EXCEPT ![d].pc = pc]
  PROVE  DoorMoved(d, pc, door[d].jid)
<1> DEFINE r == [door[d] EXCEPT !.pc = pc]
<1>1. door[d] \in DoorProcess
  BY DEF RemoteTypeOK
<1>2. /\ r \in DoorProcess
      /\ r.act = door[d].act /\ r.ctr = door[d].ctr
      /\ r.pc = pc /\ r.jid = door[d].jid
  BY <1>1 DEF DoorProcess, PhaseSet
<1>3. door' = [door EXCEPT ![d] = r]
  OBVIOUS
<1> HIDE DEF r
<1>4. QED
  BY <1>2, <1>3, DoorUpdate

(* A step that touches neither the jobs nor any process's job id. *)
LEMMA JidsKept ==
  ASSUME NEW d \in DOMAIN door, NEW pc, DoorMoved(d, pc, door[d].jid),
         UNCHANGED job, DoorJidIsOwn, JobHasDoor
  PROVE  DoorJidIsOwn' /\ JobHasDoor'
<1>1. \A e \in DOMAIN door : door'[e].jid = door[e].jid
  BY DEF DoorMoved
<1>2. DoorJidIsOwn'
  BY <1>1 DEF DoorJidIsOwn, DoorMoved
<1>3. JobHasDoor'
  BY <1>1 DEF JobHasDoor, DoorMoved
<1>4. QED
  BY <1>2, <1>3

LEMMA RemoteInitInv == RemoteInit => RemoteInv
<1> SUFFICES ASSUME RemoteInit PROVE RemoteInv
  OBVIOUS
<1>1. door \in Seq(DoorProcess) /\ job \in Seq(SlurmJob)
  BY EmptySeq DEF RemoteInit
<1>2. RemoteTypeOK
  BY <1>1 DEF RemoteInit, RemoteTypeOK
<1>3. DOMAIN door = {} /\ DOMAIN job = {}
  BY DEF RemoteInit
<1>4. QED
  BY <1>2, <1>3 DEF RemoteInit, RemoteInv, ScriptIsOwn, DoorPhases, DoorJidIsOwn,
     JobHasDoor, JidHasDoor, DoneLeavesJid, JidNamesOwnJob, StatusHasAuthor,
     CancelHasStop

(* A door process writes its batch script. *)
LEMMA ScriptInv ==
  ASSUME RemoteInv, NEW d \in DOMAIN door, produce_slurm_script(d)
  PROVE  RemoteInv'
<1> DEFINE i == DoorInst(d)
<1>1. RemoteTypeOK /\ door[d].pc = "script"
  BY DEF RemoteInv, produce_slurm_script
<1>2. DoorMoved(d, "sbatch", door[d].jid)
  BY <1>1, DoorPcUpdate DEF produce_slurm_script, PhaseSet
<1>3. /\ script' = [script EXCEPT ![i] = door[d].ctr]
      /\ UNCHANGED <<job, jidFile, statusFile>>
  BY DEF produce_slurm_script
<1>4. i \in Instance /\ door[d].ctr \in Container
  BY <1>2, RemoteAssumption DEF DoorMoved, DoorProcess, DoorInst
<1>5. RemoteTypeOK'
  BY <1>1, <1>2, <1>3, <1>4 DEF RemoteTypeOK, DoorMoved
<1>6. ScriptIsOwn'
  BY <1>1, <1>3, <1>4 DEF RemoteInv, RemoteTypeOK, ScriptIsOwn, DoorInst
<1>7. DoorPhases'
  <2>1. door[d].act = "submit" /\ door[d].jid = None
    BY <1>1, <1>2 DEF RemoteInv, DoorPhases, DoorMoved, DoorProcess
  <2>2. \A e \in DOMAIN door :
           /\ door'[e].pc = "sbatch" => script'[DoorInst(e)] # None
           /\ DoorInst(e)' = DoorInst(e)
    BY <1>1, <1>2, <1>3, <1>4, RemoteAssumption
       DEF RemoteInv, RemoteTypeOK, DoorPhases, DoorMoved
  <2>3. QED
    BY <1>2, <2>1, <2>2 DEF RemoteInv, DoorPhases, DoorMoved
<1>8. DoorJidIsOwn' /\ JobHasDoor'
  BY <1>2, <1>3, JidsKept DEF RemoteInv
<1>9. /\ JidHasDoor' /\ DoneLeavesJid' /\ CancelHasStop'
      /\ JidNamesOwnJob' /\ StatusHasAuthor'
  BY <1>1, <1>2, <1>3
     DEF RemoteInv, DoorMoved, JidHasDoor, DoneLeavesJid, CancelHasStop,
         JidNamesOwnJob, StatusHasAuthor
<1>10. QED
  BY <1>5, <1>6, <1>7, <1>8, <1>9 DEF RemoteInv

(* Slurm accepts the script of a door process and gives it a job id. *)
LEMMA SbatchInv ==
  ASSUME RemoteInv, NEW d \in DOMAIN door, slurm_batch_submit(d)
  PROVE  RemoteInv'
<1> DEFINE i == DoorInst(d)
           n == Len(job) + 1
           new == [ctr |-> script[i], st |-> "active", code |-> None]
           r == [door[d] EXCEPT !.pc = "jid", !.jid = n]
<1>1. /\ RemoteTypeOK /\ door[d].pc = "sbatch" /\ door[d] \in DoorProcess
      /\ job \in Seq(SlurmJob) /\ n \in Nat
      /\ door' = [door EXCEPT ![d] = r]
      /\ job' = Append(job, new)
      /\ UNCHANGED <<script, jidFile, statusFile>>
  BY DEF RemoteInv, RemoteTypeOK, slurm_batch_submit
<1>2. door[d].act = "submit" /\ script[i] # None
  BY <1>1 DEF RemoteInv, DoorPhases, DoorProcess
<1>3. /\ r \in DoorProcess /\ r.act = door[d].act /\ r.ctr = door[d].ctr
      /\ r.pc = "jid" /\ r.jid = n
  BY <1>1 DEF DoorProcess
<1>4. i \in Instance
  BY <1>1, RemoteAssumption DEF DoorProcess, DoorInst
<1>5. new \in SlurmJob /\ new.st = "active" /\ new.ctr = script[i]
  BY <1>1, <1>2, <1>4 DEF RemoteTypeOK, SlurmJob
<1>6. InstOf[new.ctr] = i
  BY <1>2, <1>4, <1>5 DEF RemoteInv, ScriptIsOwn
<1> HIDE DEF r, new
<1>7. DoorMoved(d, "jid", n)
  BY <1>1, <1>3, DoorUpdate
<1>8. /\ job' \in Seq(SlurmJob)
      /\ DOMAIN job' = DOMAIN job \cup {n}
      /\ n \notin DOMAIN job /\ n # None
      /\ \A j \in DOMAIN job : job'[j] = job[j]
      /\ job'[n] = new
  BY <1>1, <1>5, SeqAppend, RemoteAssumption
<1> HIDE DEF n, i
<1>9. RemoteTypeOK'
  BY <1>1, <1>7, <1>8 DEF RemoteTypeOK, DoorMoved
<1>10. ScriptIsOwn'
  BY <1>1 DEF RemoteInv, ScriptIsOwn
<1>11. DoorPhases'
  BY <1>1, <1>2, <1>7, <1>8 DEF RemoteInv, DoorPhases, DoorMoved
<1>12. DoorJidIsOwn'
  BY <1>2, <1>6, <1>7, <1>8 DEF RemoteInv, DoorJidIsOwn, DoorMoved, i
<1>13. JobHasDoor'
  <2>1. door[d].jid = None
    BY <1>1 DEF RemoteInv, DoorPhases
  <2>2. SUFFICES ASSUME NEW j \in DOMAIN job'
                 PROVE  \E e \in DOMAIN door' :
                           door'[e].jid = j /\ DoorInst(e)' = InstOf[job'[j].ctr]
    BY DEF JobHasDoor
  <2>3. CASE j = n
    BY <2>3, <1>6, <1>7, <1>8 DEF DoorMoved, i
  <2>4. CASE j # n
    <3>1. j \in DOMAIN job /\ job'[j] = job[j]
      BY <2>4, <1>8
    <3>2. PICK e \in DOMAIN door : door[e].jid = j /\ DoorInst(e) = InstOf[job[j].ctr]
      BY <3>1 DEF RemoteInv, JobHasDoor
    <3>3. e # d
      BY <3>1, <3>2, <2>1, <1>1, RemoteAssumption
    <3>4. QED
      BY <3>1, <3>2, <3>3, <1>7 DEF DoorMoved
  <2>5. QED
    BY <2>3, <2>4
<1>14. JidHasDoor' /\ DoneLeavesJid'
  BY <1>1, <1>7 DEF RemoteInv, JidHasDoor, DoneLeavesJid, DoorMoved
<1>15. JidNamesOwnJob'
  BY <1>1, <1>8 DEF RemoteInv, JidNamesOwnJob
<1>16. StatusHasAuthor'
  BY <1>1, <1>8 DEF RemoteInv, StatusHasAuthor
<1>17. CancelHasStop'
  BY <1>5, <1>7, <1>8 DEF RemoteInv, CancelHasStop, DoorMoved
<1>18. QED
  BY <1>9, <1>10, <1>11, <1>12, <1>13, <1>14, <1>15, <1>16, <1>17 DEF RemoteInv

(* The door process saves the id in the .jid file of its instance. *)
LEMMA JidInv ==
  ASSUME RemoteInv, NEW d \in DOMAIN door, handle_jid(d)
  PROVE  RemoteInv'
<1> DEFINE i == DoorInst(d)
<1>1. /\ RemoteTypeOK /\ door[d].pc = "jid" /\ door[d] \in DoorProcess
      /\ jidFile' = [jidFile EXCEPT ![i] = door[d].jid]
      /\ UNCHANGED <<job, script, statusFile>>
  BY DEF RemoteInv, RemoteTypeOK, handle_jid
<1>2. DoorMoved(d, "done", door[d].jid)
  BY <1>1, DoorPcUpdate DEF handle_jid, PhaseSet
<1>3. i \in Instance
  BY <1>1, RemoteAssumption DEF DoorProcess, DoorInst
<1>4. /\ door[d].jid # None /\ door[d].act = "submit"
      /\ door[d].jid \in DOMAIN job
      /\ InstOf[job[door[d].jid].ctr] = i
  BY <1>1 DEF RemoteInv, DoorPhases, DoorJidIsOwn, DoorProcess
<1>5. jidFile \in [Instance -> Nat \cup {None}] /\ door[d].jid \in Nat \cup {None}
  BY <1>1 DEF RemoteTypeOK, DoorProcess
<1>6. \A x \in Instance : jidFile'[x] = IF x = i THEN door[d].jid ELSE jidFile[x]
  BY <1>1, <1>3, <1>5
<1>7. RemoteTypeOK'
  BY <1>1, <1>2, <1>5 DEF RemoteTypeOK, DoorMoved
<1>8. ScriptIsOwn' /\ StatusHasAuthor' /\ CancelHasStop'
  BY <1>1, <1>2 DEF RemoteInv, ScriptIsOwn, StatusHasAuthor, CancelHasStop, DoorMoved
<1>9. DoorPhases'
  BY <1>1, <1>2, <1>4 DEF RemoteInv, DoorPhases, DoorMoved
<1>10. DoorJidIsOwn' /\ JobHasDoor'
  BY <1>1, <1>2, JidsKept DEF RemoteInv
<1>11. JidHasDoor'
  BY <1>2, <1>6 DEF RemoteInv, JidHasDoor, DoorMoved
<1>12. DoneLeavesJid'
  BY <1>2, <1>4, <1>6, RemoteAssumption
     DEF RemoteInv, DoneLeavesJid, DoorMoved, DoorProcess, DoorInst
<1>13. JidNamesOwnJob'
  BY <1>1, <1>4, <1>6 DEF RemoteInv, JidNamesOwnJob
<1>14. QED
  BY <1>7, <1>8, <1>9, <1>10, <1>11, <1>12, <1>13 DEF RemoteInv

(* A job changes state: its container stays, an ended job stays as it ended. *)
JobMoved(j, st, code) ==
  /\ job' \in Seq(SlurmJob)
  /\ DOMAIN job' = DOMAIN job
  /\ \A x \in DOMAIN job :
        /\ job'[x].ctr = job[x].ctr
        /\ x = j => job'[x].st = st /\ job'[x].code = code
        /\ x # j => job'[x] = job[x]

JobStates == {"active", "done", "cancelled", "lost"}

LEMMA JobUpdate ==
  ASSUME RemoteTypeOK, NEW j \in DOMAIN job, NEW r \in SlurmJob,
         r.ctr = job[j].ctr, job' = [job EXCEPT ![j] = r]
  PROVE  JobMoved(j, r.st, r.code)
<1>1. /\ job' \in Seq(SlurmJob)
      /\ DOMAIN job' = DOMAIN job
      /\ \A x \in DOMAIN job : job'[x] = IF x = j THEN r ELSE job[x]
  BY SeqUpdate DEF RemoteTypeOK
<1>2. QED
  BY <1>1 DEF JobMoved

LEMMA JobEndUpdate ==
  ASSUME RemoteTypeOK, NEW j \in DOMAIN job, NEW code \in Code,
         job' = [job EXCEPT ![j] = [@ EXCEPT !.st = "done", !.code = code]]
  PROVE  JobMoved(j, "done", code)
<1> DEFINE r == [job[j] EXCEPT !.st = "done", !.code = code]
<1>1. job[j] \in SlurmJob
  BY DEF RemoteTypeOK
<1>2. r \in SlurmJob /\ r.ctr = job[j].ctr /\ r.st = "done" /\ r.code = code
  BY <1>1 DEF SlurmJob
<1>3. job' = [job EXCEPT ![j] = r]
  OBVIOUS
<1> HIDE DEF r
<1>4. JobMoved(j, r.st, r.code)
  BY <1>2, <1>3, JobUpdate
<1>5. QED
  BY <1>2, <1>4

LEMMA JobStUpdate ==
  ASSUME RemoteTypeOK, NEW j \in DOMAIN job, NEW st \in JobStates,
         job' = [job EXCEPT ![j].st = st]
  PROVE  JobMoved(j, st, job[j].code)
<1> DEFINE r == [job[j] EXCEPT !.st = st]
<1>1. job[j] \in SlurmJob
  BY DEF RemoteTypeOK
<1>2. r \in SlurmJob /\ r.ctr = job[j].ctr /\ r.st = st /\ r.code = job[j].code
  BY <1>1 DEF SlurmJob, JobStates
<1>3. job' = [job EXCEPT ![j] = r]
  OBVIOUS
<1> HIDE DEF r
<1>4. QED
  BY <1>2, <1>3, JobUpdate

(* What no change of a job's state disturbs. *)
LEMMA JobMovedKeeps ==
  ASSUME RemoteInv, NEW j \in DOMAIN job, NEW st, NEW code, JobMoved(j, st, code),
         UNCHANGED <<door, jidFile>>
  PROVE  DoorJidIsOwn' /\ JobHasDoor' /\ JidHasDoor' /\ DoneLeavesJid' /\ JidNamesOwnJob'
<1>1. DOMAIN job' = DOMAIN job /\ \A x \in DOMAIN job : job'[x].ctr = job[x].ctr
  BY DEF JobMoved
<1>2. DoorJidIsOwn'
  BY <1>1 DEF RemoteInv, DoorJidIsOwn, DoorInst
<1>3. JobHasDoor'
  BY <1>1 DEF RemoteInv, JobHasDoor, DoorInst
<1>4. JidNamesOwnJob'
  BY <1>1 DEF RemoteInv, JidNamesOwnJob
<1>5. JidHasDoor' /\ DoneLeavesJid'
  BY DEF RemoteInv, JidHasDoor, DoneLeavesJid, DoorInst
<1>6. QED
  BY <1>2, <1>3, <1>4, <1>5

(* A job ends and writes its status file. *)
LEMMA JobEndsInv ==
  ASSUME RemoteInv, NEW j \in DOMAIN job, JobEnds(j)
  PROVE  RemoteInv'
<1> DEFINE i == InstOf[job[j].ctr]
<1>1. /\ RemoteTypeOK /\ job[j].st = "active" /\ job[j] \in SlurmJob
      /\ UNCHANGED <<door, script, jidFile>>
  BY DEF RemoteInv, RemoteTypeOK, JobEnds
<1>2. PICK c \in Code :
         /\ statusFile' = [statusFile EXCEPT ![i] = c]
         /\ job' = [job EXCEPT ![j] = [@ EXCEPT !.st = "done", !.code = c]]
  BY DEF JobEnds
<1>3. JobMoved(j, "done", c)
  BY <1>1, <1>2, JobEndUpdate
<1>4. i \in Instance
  BY <1>1, RemoteAssumption DEF SlurmJob
<1>5. /\ statusFile' \in [Instance -> Code \cup {None}]
      /\ \A x \in Instance : statusFile'[x] = IF x = i THEN c ELSE statusFile[x]
  BY <1>1, <1>2, <1>4 DEF RemoteTypeOK
<1>6. RemoteTypeOK'
  BY <1>1, <1>3, <1>5 DEF RemoteTypeOK, JobMoved
<1>7. DoorJidIsOwn' /\ JobHasDoor' /\ JidHasDoor' /\ DoneLeavesJid' /\ JidNamesOwnJob'
  BY <1>1, <1>3, JobMovedKeeps
<1>8. ScriptIsOwn' /\ DoorPhases'
  BY <1>1 DEF RemoteInv, ScriptIsOwn, DoorPhases, DoorInst
<1>9. StatusHasAuthor'
  <2>1. SUFFICES ASSUME NEW x \in Instance, statusFile'[x] # None
                 PROVE  \E y \in DOMAIN job' : /\ job'[y].st = "done"
                                               /\ job'[y].code = statusFile'[x]
                                               /\ InstOf[job'[y].ctr] = x
    BY DEF StatusHasAuthor
  <2>2. CASE x = i
    BY <2>2, <1>3, <1>5 DEF JobMoved
  <2>3. CASE x # i
    <3>1. PICK y \in DOMAIN job : /\ job[y].st = "done"
                                  /\ job[y].code = statusFile[x]
                                  /\ InstOf[job[y].ctr] = x
      BY <2>1, <2>3, <1>5 DEF RemoteInv, StatusHasAuthor
    <3>2. QED
      BY <3>1, <2>3, <1>1, <1>3, <1>5 DEF JobMoved
  <2>4. QED
    BY <2>2, <2>3
<1>10. CancelHasStop'
  BY <1>1, <1>3 DEF RemoteInv, CancelHasStop, JobMoved, DoorInst
<1>11. QED
  BY <1>6, <1>7, <1>8, <1>9, <1>10 DEF RemoteInv

(* Slurm kills a job without a trace. *)
LEMMA JobLostInv ==
  ASSUME RemoteInv, NEW j \in DOMAIN job, JobLost(j)
  PROVE  RemoteInv'
<1>1. /\ RemoteTypeOK /\ job[j].st = "active"
      /\ UNCHANGED <<door, script, jidFile, statusFile>>
  BY DEF RemoteInv, JobLost
<1>2. JobMoved(j, "lost", job[j].code)
  BY <1>1, JobStUpdate DEF JobLost, JobStates
<1>3. RemoteTypeOK'
  BY <1>1, <1>2 DEF RemoteTypeOK, JobMoved
<1>4. DoorJidIsOwn' /\ JobHasDoor' /\ JidHasDoor' /\ DoneLeavesJid' /\ JidNamesOwnJob'
  BY <1>1, <1>2, JobMovedKeeps
<1>5. ScriptIsOwn' /\ DoorPhases'
  BY <1>1 DEF RemoteInv, ScriptIsOwn, DoorPhases, DoorInst
<1>6. StatusHasAuthor'
  BY <1>1, <1>2 DEF RemoteInv, StatusHasAuthor, JobMoved
<1>7. CancelHasStop'
  BY <1>1, <1>2 DEF RemoteInv, CancelHasStop, JobMoved, DoorInst
<1>8. QED
  BY <1>3, <1>4, <1>5, <1>6, <1>7 DEF RemoteInv

(* A door process that has not finished ends without leaving anything. *)
LEMMA DoorEndsInv ==
  ASSUME RemoteInv, NEW d \in DOMAIN door, DoorMoved(d, "dead", door[d].jid),
         UNCHANGED <<job, script, jidFile, statusFile>>, door[d].pc # "done"
  PROVE  RemoteInv'
<1>1. RemoteTypeOK'
  BY DEF RemoteInv, RemoteTypeOK, DoorMoved
<1>2. DoorJidIsOwn' /\ JobHasDoor'
  BY JidsKept DEF RemoteInv
<1>3. ScriptIsOwn' /\ DoorPhases' /\ JidNamesOwnJob' /\ StatusHasAuthor'
  BY DEF RemoteInv, ScriptIsOwn, DoorPhases, JidNamesOwnJob, StatusHasAuthor, DoorMoved
<1>4. JidHasDoor' /\ DoneLeavesJid' /\ CancelHasStop'
  BY DEF RemoteInv, JidHasDoor, DoneLeavesJid, CancelHasStop, DoorMoved
<1>5. QED
  BY <1>1, <1>2, <1>3, <1>4 DEF RemoteInv

(* A stop finds no id, or cancels the job the .jid file names. *)
LEMMA DeleteInv ==
  ASSUME RemoteInv, NEW d \in DOMAIN door, delete_container(d)
  PROVE  RemoteInv'
<1> DEFINE i == DoorInst(d)
<1>1. /\ RemoteTypeOK /\ door[d].pc = "cancel" /\ door[d] \in DoorProcess
      /\ UNCHANGED <<script, jidFile, statusFile>>
  BY DEF RemoteInv, RemoteTypeOK, delete_container
<1>2. door[d].act = "stop" /\ i \in Instance
  BY <1>1, RemoteAssumption DEF RemoteInv, DoorPhases, DoorProcess, DoorInst
<1>3. CASE jidFile[i] = None
  <2>1. DoorMoved(d, "dead", door[d].jid) /\ UNCHANGED job
    BY <1>1, <1>3, DoorPcUpdate DEF delete_container, PhaseSet
  <2>2. QED
    BY <2>1, <1>1, DoorEndsInv
<1>4. CASE jidFile[i] # None
  <2> DEFINE j == jidFile[i]
             st == IF job[j].st = "active" THEN "cancelled" ELSE job[j].st
  <2>1. DoorMoved(d, "done", door[d].jid)
    BY <1>1, <1>4, DoorPcUpdate DEF delete_container, PhaseSet
  <2>2. j \in DOMAIN job /\ InstOf[job[j].ctr] = i
    BY <1>2, <1>4 DEF RemoteInv, JidNamesOwnJob
  <2>3. st \in JobStates /\ job' = [job EXCEPT ![j].st = st]
    <3>1. job[j] \in SlurmJob
      BY <1>1, <2>2 DEF RemoteTypeOK
    <3>2. st \in JobStates
      BY <3>1 DEF SlurmJob, JobStates
    <3>3. job' = [job EXCEPT ![j].st = st]
      BY <1>1, <1>4 DEF delete_container, scancel
    <3>4. QED
      BY <3>2, <3>3
  <2>4. JobMoved(j, st, job[j].code)
    BY <1>1, <2>2, <2>3, JobStUpdate
  <2> HIDE DEF j
  <2>5. RemoteTypeOK'
    BY <1>1, <2>1, <2>4 DEF RemoteTypeOK, DoorMoved, JobMoved
  <2>6. ScriptIsOwn' /\ DoorPhases' /\ DoneLeavesJid' /\ JidHasDoor'
    BY <1>1, <1>2, <2>1
       DEF RemoteInv, ScriptIsOwn, DoorPhases, DoneLeavesJid, JidHasDoor, DoorMoved
  <2>7. DoorJidIsOwn' /\ JobHasDoor'
    <3>1. DOMAIN job' = DOMAIN job /\ \A x \in DOMAIN job : job'[x].ctr = job[x].ctr
      BY <2>4 DEF JobMoved
    <3>2. \A e \in DOMAIN door : door'[e].jid = door[e].jid
      BY <2>1 DEF DoorMoved
    <3>3. DoorJidIsOwn'
      BY <2>1, <3>1, <3>2 DEF RemoteInv, DoorJidIsOwn, DoorMoved
    <3>4. JobHasDoor'
      BY <2>1, <3>1, <3>2 DEF RemoteInv, JobHasDoor, DoorMoved
    <3>5. QED
      BY <3>3, <3>4
  <2>8. JidNamesOwnJob'
    BY <1>1, <2>4 DEF RemoteInv, JidNamesOwnJob, JobMoved
  <2>9. StatusHasAuthor'
    <3>1. \A x \in DOMAIN job : job[x].st = "done" =>
            job'[x].st = "done" /\ job'[x].code = job[x].code /\ job'[x].ctr = job[x].ctr
      BY <2>4 DEF JobMoved
    <3>2. QED
      BY <1>1, <2>4, <3>1 DEF RemoteInv, StatusHasAuthor, JobMoved
  <2>10. CancelHasStop'
    <3>1. \A x \in DOMAIN job : x # j => job'[x] = job[x]
      BY <2>4 DEF JobMoved
    <3>2. d \in DOMAIN door' /\ door'[d].act = "stop" /\ DoorInst(d)' = InstOf[job'[j].ctr]
      BY <1>2, <2>1, <2>2, <2>4 DEF DoorMoved, JobMoved
    <3>3. QED
      BY <2>1, <2>4, <3>1, <3>2 DEF RemoteInv, CancelHasStop, DoorMoved, JobMoved
  <2>11. QED
    BY <2>5, <2>6, <2>7, <2>8, <2>9, <2>10 DEF RemoteInv
<1>5. QED
  BY <1>3, <1>4

(* A door process dies where it is. *)
LEMMA DoorDiesInv ==
  ASSUME RemoteInv, NEW d \in DOMAIN door, DoorDies(d)
  PROVE  RemoteInv'
<1>1. RemoteTypeOK /\ UNCHANGED <<job, script, jidFile, statusFile>>
  BY DEF RemoteInv, DoorDies
<1>2. DoorMoved(d, "dead", door[d].jid)
  BY <1>1, DoorPcUpdate DEF DoorDies, PhaseSet
<1>3. door[d].pc # "done"
  BY DEF DoorDies
<1>4. QED
  BY <1>1, <1>2, <1>3, DoorEndsInv

(* The provider starts a door process. *)
LEMMA LaunchInv ==
  ASSUME RemoteInv, NEW c \in Container,
         runRemoteExecutionInstance(c) \/ stopRemoteExecutionInstance(c),
         UNCHANGED <<job, script, jidFile, statusFile>>
  PROVE  RemoteInv'
<1>1. PICK r \in DoorProcess :
         /\ door' = Append(door, r) /\ r.jid = None
         /\ \/ r.act = "submit" /\ r.pc = "script"
            \/ r.act = "stop" /\ r.pc = "cancel"
  BY DEF runRemoteExecutionInstance, stopRemoteExecutionInstance, DoorProcess
<1>2. /\ door' \in Seq(DoorProcess)
      /\ DOMAIN door' = DOMAIN door \cup {Len(door) + 1}
      /\ \A e \in DOMAIN door : door'[e] = door[e] /\ DoorInst(e)' = DoorInst(e)
      /\ door'[Len(door) + 1] = r
  BY <1>1, SeqAppend DEF RemoteInv, RemoteTypeOK, DoorInst
<1>3. RemoteTypeOK'
  BY <1>2 DEF RemoteInv, RemoteTypeOK
<1>4. ScriptIsOwn' /\ JidNamesOwnJob' /\ StatusHasAuthor'
  BY DEF RemoteInv, ScriptIsOwn, JidNamesOwnJob, StatusHasAuthor
<1>5. DoorPhases' /\ DoorJidIsOwn' /\ DoneLeavesJid'
  BY <1>1, <1>2 DEF RemoteInv, DoorPhases, DoorJidIsOwn, DoneLeavesJid
<1>6. JobHasDoor' /\ JidHasDoor' /\ CancelHasStop'
  BY <1>2 DEF RemoteInv, JobHasDoor, JidHasDoor, CancelHasStop
<1>7. QED
  BY <1>3, <1>4, <1>5, <1>6 DEF RemoteInv

LEMMA RemoteStepInv == RemoteInv /\ RemoteStep => RemoteInv'
<1> SUFFICES ASSUME RemoteInv, RemoteStep PROVE RemoteInv'
  OBVIOUS
<1>1. CASE \E d \in DOMAIN door : DoorStep(d) \/ DoorDies(d)
  BY <1>1, ScriptInv, SbatchInv, JidInv, DeleteInv, DoorDiesInv DEF DoorStep
<1>2. CASE \E j \in DOMAIN job : JobEnds(j) \/ JobLost(j)
  BY <1>2, JobEndsInv, JobLostInv
<1>3. QED
  BY <1>1, <1>2 DEF RemoteStep

LEMMA RemoteStutterInv == RemoteInv /\ UNCHANGED remoteVars => RemoteInv'
BY DEF RemoteInv, remoteVars, RemoteTypeOK, ScriptIsOwn, DoorPhases, DoorJidIsOwn,
   JobHasDoor, JidHasDoor, DoneLeavesJid, JidNamesOwnJob, StatusHasAuthor,
   CancelHasStop, DoorInst

(* RemoteInv implies the one property that is not a part of it. *)
LEMMA SoleFromInv == RemoteInv => SoleSubmissionStoppable
<1> SUFFICES ASSUME RemoteInv, NEW d \in DOMAIN door,
                    door[d].act = "submit", door[d].pc = "done",
                    SubmitDoors(DoorInst(d)) = {d},
                    NEW j \in DOMAIN job, InstOf[job[j].ctr] = DoorInst(d)
             PROVE  jidFile[DoorInst(d)] = j
  BY DEF SoleSubmissionStoppable
<1>1. None \notin DOMAIN job /\ DoorInst(d) \in Instance
  <2>1. door[d] \in DoorProcess /\ DOMAIN job = 1..Len(job)
    BY DEF RemoteInv, RemoteTypeOK
  <2>2. QED
    BY <2>1, RemoteAssumption DEF DoorProcess, DoorInst
<1>2. \A e \in DOMAIN door : door[e].act = "submit" /\ DoorInst(e) = DoorInst(d) => e = d
  BY DEF SubmitDoors
<1>3. PICK e \in DOMAIN door : door[e].jid = j /\ DoorInst(e) = InstOf[job[j].ctr]
  BY DEF RemoteInv, JobHasDoor
<1>4. e = d
  BY <1>1, <1>2, <1>3 DEF RemoteInv, DoorJidIsOwn
<1>5. jidFile[DoorInst(d)] # None
  BY DEF RemoteInv, DoneLeavesJid
<1>6. PICK x \in DOMAIN door : door[x].jid = jidFile[DoorInst(d)] /\ DoorInst(x) = DoorInst(d)
  BY <1>1, <1>5 DEF RemoteInv, JidHasDoor
<1>7. x = d
  BY <1>2, <1>5, <1>6 DEF RemoteInv, DoorJidIsOwn
<1>8. QED
  BY <1>3, <1>4, <1>6, <1>7

=============================================================================
