---------------------------- MODULE SingleVol_proof ----------------------------
(***************************************************************************)
(* SingleVol for any images and any choice of the parts and of what they   *)
(* are upgraded to: outside the moments that Window names the device boots *)
(* after a loss of power, and a call that ends well has written its image. *)
(***************************************************************************)
EXTENDS SingleVol, FiniteSetTheorems, TLAPS

VolState == [data : Content, id : 0 .. 5, mtd : 0 .. 5]
Disk == [Name -> VolState]
JobState == [pc : PC, part : Parts \cup {"kernel"}, img : Images, vol : Name, todo : Seq(RootVol),
             again : BOOLEAN]

\* The path of a call, and how far its volume has got.
Path ==
  job.pc # "idle" =>
    /\ job.part \in Parts
    /\ IF job.part = "rootfs" THEN job.vol \in RootVol ELSE job.vol = job.part
    /\ job.pc = "size" => job.part = "kernel"
    /\ job.pc \in {"pick", "select", "blind"} => job.part = "rootfs"
    /\ job.pc = "data" => job.vol \in Volumes
    /\ job.pc \in {"size", "select"} => ubi[job.vol].data = job.img
    /\ job.pc = "update" /\ job.part = "rootfs" => ubi[job.vol].data = "empty"

\* No two volumes have an id or an mtd device in common.
Distinct == \A v, w \in Volumes : v # w => ubi[v].id # ubi[w].id /\ ubi[v].mtd # ubi[w].mtd

Bad(p) == p \in Parts /\ last[p] # "ok"
USE DEF Bad

\* The kernel is the one whose size is known, the running call replaces it, or
\* the last one could not.
KernelKept ==
  \/ ubi["kernel"].data = env.size
  \/ Bad("kernel")
  \/ /\ job.part = "kernel" /\ job.pc \in {"create", "update", "data", "size"}
     /\ job.pc = "create" => "kernel" \notin Volumes

\* A root volume that is complete has the number in rootfsmtd.
RootSelected == \E v \in RootVol \cap Volumes : ubi[v].mtd = env.root /\ ubi[v].data \in Images
\* So it is, or the running call removed it, which is not the first one since
\* the device started, or the last call could not replace it.
RootKept ==
  \/ RootSelected
  \/ Bad("rootfs")
  \/ /\ job.pc # "idle" /\ job.part = "rootfs" /\ job.again
     /\ \A v \in RootVol \cap Volumes : ubi[v].mtd = env.root => v = job.vol /\ job.pc \in {"update", "data"}

\* The device runs from a complete root volume, which rootfsmtd names during the
\* first upgrade.
RunningKept ==
  /\ ubi[run.root].data \in Images
  /\ job.pc # "idle" /\ job.part = "rootfs" /\ ~job.again => ubi[run.root].mtd = env.root

Kept == TypeOK /\ Path /\ Distinct /\ KernelKept /\ (run.up => RootKept)
IInv == Kept /\ (run.up => RunningKept)

-----------------------------------------------------------------------------
(* Numbers                                                                  *)

LEMMA FiveNames == IsFiniteSet(Name) /\ Cardinality(Name) = 5
<1> DEFINE A == {"kernel"}  B == A \cup {"bootcore"}  C == B \cup {"firmware"}
           D == C \cup {"rootfs"}  F == D \cup {"rootfsB"}
<1>1. IsFiniteSet(A) /\ Cardinality(A) = 1
  BY FS_Singleton
<1>2. IsFiniteSet(B) /\ Cardinality(B) = 2
  BY <1>1, FS_AddElement
<1>3. IsFiniteSet(C) /\ Cardinality(C) = 3
  BY <1>2, FS_AddElement
<1>4. IsFiniteSet(D) /\ Cardinality(D) = 4
  BY <1>3, FS_AddElement
<1>5. IsFiniteSet(F) /\ Cardinality(F) = 5
  BY <1>4, FS_AddElement
<1>6. Name = F
  BY DEF Name, RootVol
<1> QED BY <1>5, <1>6

\* Volumes below another one are fewer than all, and grow with it.
LEMMA Counted ==
  ASSUME NEW S \in SUBSET Name
  PROVE  /\ Cardinality(S) \in 0 .. 5
         /\ \A T \in SUBSET S : T # S => Cardinality(T) # Cardinality(S)
<1>1. IsFiniteSet(S) /\ Cardinality(S) \in Nat /\ Cardinality(S) <= 5
  BY FiveNames, FS_Subset, FS_CardinalityType
<1>2. ASSUME NEW T \in SUBSET S, T # S PROVE Cardinality(T) # Cardinality(S)
  BY <1>1, <1>2, FS_Subset
<1> QED BY <1>1, <1>2

LEMMA LowestFreeIs ==
  ASSUME NEW from \in Nat, NEW used, NEW m \in from .. from + 4, m \notin used
  PROVE  LowestFree(from, used) \in from .. m /\ LowestFree(from, used) \notin used
<1> DEFINE Lowest(n) == n \notin used /\ \A k \in from .. n - 1 : k \in used
<1>1. \E n \in from .. from + 5 : Lowest(n)
  <2>1. CASE from \notin used
    <3>1. Lowest(from)
      BY <2>1
    <3> QED BY <3>1
  <2>2. CASE from \in used /\ from + 1 \notin used
    <3>1. Lowest(from + 1)
      BY <2>2
    <3> QED BY <3>1
  <2>3. CASE from \in used /\ from + 1 \in used /\ from + 2 \notin used
    <3>1. Lowest(from + 2)
      BY <2>3
    <3> QED BY <3>1
  <2>4. CASE from \in used /\ from + 1 \in used /\ from + 2 \in used /\ from + 3 \notin used
    <3>1. Lowest(from + 3)
      BY <2>4
    <3> QED BY <3>1
  <2>5. CASE from \in used /\ from + 1 \in used /\ from + 2 \in used /\ from + 3 \in used
    <3>1. m = from + 4
      BY <2>5
    <3>2. Lowest(from + 4)
      BY <2>5, <3>1
    <3> QED BY <3>2
  <2> QED BY <2>1, <2>2, <2>3, <2>4, <2>5
<1>2. LowestFree(from, used) = CHOOSE n \in from .. from + 5 : Lowest(n)
  BY FiveNames DEF LowestFree
<1> DEFINE l == LowestFree(from, used)
<1>3. l \in from .. from + 5 /\ Lowest(l)
  BY <1>1, <1>2
<1> HIDE DEF l
<1>4. l <= m
  BY <1>3
<1> QED BY <1>3, <1>4 DEF l

\* Four numbers leave one of five free.
LEMMA Free ==
  ASSUME NEW from \in Nat, NEW a, NEW b, NEW c, NEW d
  PROVE  \E m \in from .. from + 4 : m \notin {a, b, c, d}
<1> SUFFICES ASSUME \A m \in from .. from + 4 : m \in {a, b, c, d} PROVE FALSE
  OBVIOUS
<1>1. {from, from + 1, from + 2, from + 3, from + 4} \subseteq {a, b, c, d}
  OBVIOUS
<1> QED BY <1>1

\* A volume that is missing leaves an id and an mtd number free.
LEMMA FreeNumber ==
  ASSUME NEW v \in Name \ Volumes, NEW f, NEW from \in Nat
  PROVE  LET l == LowestFree(from, {f[w] : w \in Volumes})
         IN  l \in from .. from + 4 /\ \A w \in Volumes : l # f[w]
<1> DEFINE used == {f[w] : w \in Volumes}  l == LowestFree(from, used)
<1>1. \E a, b, c, d : used \subseteq {a, b, c, d}
  <2>1. Volumes \subseteq Name
    BY DEF Volumes
  <2>2. CASE v = "kernel"
    <3>1. used \subseteq {f["bootcore"], f["firmware"], f["rootfs"], f["rootfsB"]}
      BY <2>1, <2>2 DEF Name, RootVol
    <3> QED BY <3>1
  <2>3. CASE v = "bootcore"
    <3>1. used \subseteq {f["kernel"], f["firmware"], f["rootfs"], f["rootfsB"]}
      BY <2>1, <2>3 DEF Name, RootVol
    <3> QED BY <3>1
  <2>4. CASE v = "firmware"
    <3>1. used \subseteq {f["kernel"], f["bootcore"], f["rootfs"], f["rootfsB"]}
      BY <2>1, <2>4 DEF Name, RootVol
    <3> QED BY <3>1
  <2>5. CASE v = "rootfs"
    <3>1. used \subseteq {f["kernel"], f["bootcore"], f["firmware"], f["rootfsB"]}
      BY <2>1, <2>5 DEF Name, RootVol
    <3> QED BY <3>1
  <2>6. CASE v = "rootfsB"
    <3>1. used \subseteq {f["kernel"], f["bootcore"], f["firmware"], f["rootfs"]}
      BY <2>1, <2>6 DEF Name, RootVol
    <3> QED BY <3>1
  <2> QED BY <2>2, <2>3, <2>4, <2>5, <2>6 DEF Name, RootVol
<1> HIDE DEF used
<1>2. PICK m \in from .. from + 4 : m \notin used
  <2>1. PICK a, b, c, d : used \subseteq {a, b, c, d}
    BY <1>1
  <2>2. \E m \in from .. from + 4 : m \notin {a, b, c, d}
    BY Free
  <2> QED BY <2>1, <2>2
<1>3. l \in from .. m /\ l \notin used
  BY <1>2, LowestFreeIs
<1> HIDE DEF l
<1>4. l \in from .. from + 4
  BY <1>2, <1>3
<1>5. \A w \in Volumes : l # f[w]
  BY <1>3 DEF used
<1> QED BY <1>4, <1>5 DEF l, used

-----------------------------------------------------------------------------
(* What a step does to the volumes                                          *)

LEMMA Contents ==
  /\ {"none", "empty", "torn"} \subseteq Content /\ Images \subseteq Content
  /\ \A i \in Images : i \notin {"none", "empty", "torn"}
  /\ Absent \in VolState /\ Absent.data = "none"
  /\ RootVol \subseteq Name /\ "kernel" \in Name /\ "kernel" \notin RootVol /\ Factory \in Images
BY ImageAssumption DEF Content, Absent, VolState, RootVol, Name

\* A volume is removed.
LEMMA Removes ==
  ASSUME ubi \in Disk, Distinct, NEW v \in Name, ubi' = [ubi EXCEPT ![v] = Absent]
  PROVE  /\ ubi' \in Disk /\ Distinct'
         /\ ubi'[v].data = "none" /\ Volumes' = Volumes \ {v}
         /\ \A w \in Name : w # v => ubi'[w] = ubi[w]
<1>1. ubi' \in Disk /\ ubi'[v] = Absent /\ \A w \in Name : w # v => ubi'[w] = ubi[w]
  BY Contents DEF Disk
<1>2. Volumes' = Volumes \ {v}
  BY <1>1, Contents DEF Volumes
<1>3. Distinct'
  BY <1>1, <1>2 DEF Distinct, Volumes
<1> QED BY <1>1, <1>2, <1>3, Contents

\* A volume that was missing is there, with numbers of its own.
LEMMA Creates ==
  ASSUME ubi \in Disk, Distinct, NEW v \in Name \ Volumes, NEW i \in 0 .. 5, NEW m \in 0 .. 5,
         \A w \in Volumes : i # ubi[w].id /\ m # ubi[w].mtd,
         ubi' = [ubi EXCEPT ![v] = [data |-> "empty", id |-> i, mtd |-> m]]
  PROVE  /\ ubi' \in Disk /\ Distinct'
         /\ ubi'[v].data = "empty" /\ Volumes' = Volumes \cup {v}
         /\ \A w \in Name : w # v => ubi'[w] = ubi[w]
<1> DEFINE e == [data |-> "empty", id |-> i, mtd |-> m]
<1>1. e \in VolState /\ e.data = "empty" /\ e.id = i /\ e.mtd = m
  BY Contents DEF VolState
<1> HIDE DEF e
<1>2. ubi' = [ubi EXCEPT ![v] = e]
  BY DEF e
<1>3. ubi' \in Disk /\ ubi'[v] = e /\ \A w \in Name : w # v => ubi'[w] = ubi[w]
  BY <1>1, <1>2 DEF Disk
<1>4. Volumes' = Volumes \cup {v}
  BY <1>1, <1>3 DEF Volumes
<1>5. Distinct'
  <2> SUFFICES ASSUME NEW a \in Volumes \cup {v}, NEW b \in Volumes \cup {v}, a # b
               PROVE  ubi'[a].id # ubi'[b].id /\ ubi'[a].mtd # ubi'[b].mtd
    BY <1>4 DEF Distinct
  <2>1. \A w \in Volumes : w \in Name /\ w # v /\ ubi'[w] = ubi[w]
    BY <1>3 DEF Volumes
  <2>2. CASE a \in Volumes /\ b \in Volumes
    BY <2>1, <2>2 DEF Distinct
  <2>3. CASE a = v \/ b = v
    BY <1>1, <1>3, <2>1, <2>3
  <2> QED BY <2>2, <2>3
<1> QED BY <1>1, <1>3, <1>4, <1>5

\* A volume is written.
LEMMA Writes ==
  ASSUME ubi \in Disk, Distinct, NEW v \in Name, NEW c \in Content, c # "none", ubi' = [ubi EXCEPT ![v].data = c]
  PROVE  /\ ubi' \in Disk
         /\ ubi'[v].data = c /\ Volumes' = Volumes \cup {v}
         /\ \A w \in Name : w # v => ubi'[w] = ubi[w]
         /\ \A w \in Name : ubi'[w].mtd = ubi[w].mtd /\ ubi'[w].id = ubi[w].id
<1> DEFINE e == [ubi[v] EXCEPT !.data = c]
<1>1. e \in VolState /\ e.data = c /\ e.id = ubi[v].id /\ e.mtd = ubi[v].mtd
  <2>1. \A s \in VolState : /\ [s EXCEPT !.data = c] \in VolState
                            /\ [s EXCEPT !.data = c].data = c
                            /\ [s EXCEPT !.data = c].id = s.id /\ [s EXCEPT !.data = c].mtd = s.mtd
    BY DEF VolState
  <2> QED BY <2>1 DEF Disk
<1>2. ubi' = [ubi EXCEPT ![v] = e]
  OBVIOUS
<1> HIDE DEF e
<1>3. ubi' \in Disk /\ ubi'[v] = e /\ \A w \in Name : w # v => ubi'[w] = ubi[w]
  BY <1>1, <1>2 DEF Disk
<1>4. Volumes' = Volumes \cup {v}
  BY <1>1, <1>3 DEF Volumes
<1> QED BY <1>1, <1>3, <1>4

\* A boot numbers the volumes by their ids.
LEMMA Renumbers ==
  ASSUME ubi \in Disk, Distinct, ubi' = Numbered
  PROVE  /\ ubi' \in Disk /\ Distinct'
         /\ Volumes' = Volumes
         /\ \A w \in Name : ubi'[w].data = ubi[w].data
<1> DEFINE Below(v) == {w \in Volumes : ubi[w].id <= ubi[v].id}
<1>0. \A v \in Name : Below(v) \in SUBSET Name /\ Cardinality(Below(v)) \in 0 .. 5
  BY Counted DEF Volumes
<1>1. \A v \in Name : ubi'[v] = IF v \in Volumes THEN [ubi[v] EXCEPT !.mtd = Cardinality(Below(v))] ELSE Absent
  BY DEF Numbered
<1>2. ubi' = [v \in Name |-> ubi'[v]]
  BY DEF Numbered
<1>3. ASSUME NEW v \in Volumes
      PROVE  /\ ubi'[v] \in VolState /\ ubi'[v].mtd = Cardinality(Below(v))
             /\ ubi'[v].id = ubi[v].id /\ ubi'[v].data = ubi[v].data
  <2>1. v \in Name /\ ubi[v] \in VolState
    BY DEF Volumes, Disk
  <2>2. Cardinality(Below(v)) \in 0 .. 5 /\ ubi'[v] = [ubi[v] EXCEPT !.mtd = Cardinality(Below(v))]
    BY <1>0, <1>1, <2>1
  <2> DEFINE k == Cardinality(Below(v))
  <2>3. k \in 0 .. 5 /\ ubi'[v] = [ubi[v] EXCEPT !.mtd = k]
    BY <2>2
  <2> HIDE DEF k
  <2>4. \A s \in VolState : /\ [s EXCEPT !.mtd = k] \in VolState
                            /\ [s EXCEPT !.mtd = k].mtd = k
                            /\ [s EXCEPT !.mtd = k].id = s.id /\ [s EXCEPT !.mtd = k].data = s.data
    BY <2>3 DEF VolState
  <2>5. ubi'[v] \in VolState /\ ubi'[v].mtd = k /\ ubi'[v].id = ubi[v].id /\ ubi'[v].data = ubi[v].data
    BY <2>1, <2>3, <2>4
  <2> QED BY <2>5 DEF k
<1>4. \A v \in Name : ubi'[v] \in VolState /\ ubi'[v].data = ubi[v].data
  <2> SUFFICES ASSUME NEW v \in Name PROVE ubi'[v] \in VolState /\ ubi'[v].data = ubi[v].data
    OBVIOUS
  <2>1. CASE v \in Volumes
    BY <1>3, <2>1
  <2>2. CASE v \notin Volumes
    BY <1>1, <2>2, Contents DEF Volumes
  <2> QED BY <2>1, <2>2
<1>5. ubi' \in Disk
  BY <1>2, <1>4 DEF Disk
<1>6. Volumes' = Volumes
  BY <1>4 DEF Volumes
<1>7. Distinct'
  <2> SUFFICES ASSUME NEW v \in Volumes, NEW w \in Volumes, v # w
               PROVE  ubi'[v].id # ubi'[w].id /\ ubi'[v].mtd # ubi'[w].mtd
    BY <1>6 DEF Distinct
  <2>1. ubi[v].id # ubi[w].id /\ ubi[v].id \in 0 .. 5 /\ ubi[w].id \in 0 .. 5
    BY DEF Distinct, Volumes, Disk, VolState
  <2>2. \A a, b \in Volumes : ubi[a].id < ubi[b].id => Below(a) \in SUBSET Below(b) /\ Below(a) # Below(b)
    <3> SUFFICES ASSUME NEW a \in Volumes, NEW b \in Volumes, ubi[a].id < ubi[b].id
                 PROVE  Below(a) \in SUBSET Below(b) /\ b \in Below(b) /\ b \notin Below(a)
      OBVIOUS
    <3>1. \A c \in Volumes : ubi[c].id \in 0 .. 5
      BY DEF Volumes, Disk, VolState
    <3> QED BY <3>1
  <2>3. Below(v) \in SUBSET Name /\ Below(w) \in SUBSET Name
    BY DEF Volumes
  <2>4. Cardinality(Below(v)) # Cardinality(Below(w))
    <3> HIDE DEF Below
    <3>1. CASE ubi[v].id < ubi[w].id
      BY <2>2, <2>3, <3>1, Counted
    <3>2. CASE ubi[w].id < ubi[v].id
      BY <2>2, <2>3, <3>2, Counted
    <3> QED BY <2>1, <3>1, <3>2
  <2> HIDE DEF Below
  <2> QED BY <1>3, <2>1, <2>4
<1> QED BY <1>4, <1>5, <1>6, <1>7

-----------------------------------------------------------------------------
(* The invariant                                                            *)

LEMMA Types ==
  TypeOK <=> /\ ubi \in Disk
             /\ env \in [size : Images, root : 0 .. 5]
             /\ run \in [up : BOOLEAN, root : RootVol, fw : BOOLEAN]
             /\ job \in JobState
             /\ last \in [Parts -> Ending]
             /\ gap \in BOOLEAN
BY DEF TypeOK, Disk, VolState, JobState

LEMMA NoCallType == NoCall \in JobState /\ NoCall.pc = "idle"
BY Contents DEF NoCall, JobState, PC

\* The call goes on, or ends.
LEMMA JobMoves ==
  ASSUME job \in JobState
  PROVE  /\ \A pc \in PC : Goto(pc) =>
              /\ job' \in JobState /\ job'.pc = pc
              /\ job'.part = job.part /\ job'.img = job.img /\ job'.vol = job.vol
              /\ job'.again = job.again
         /\ \A how \in Ending : End(how) =>
              /\ job' \in JobState /\ job'.pc = "idle"
              /\ last \in [Parts -> Ending] /\ job.part \in Parts =>
                   /\ last' \in [Parts -> Ending]
                   /\ \A p \in Parts : last'[p] = IF p = job.part THEN how ELSE last[p]
<1>1. ASSUME NEW pc \in PC, Goto(pc)
      PROVE  /\ job' \in JobState /\ job'.pc = pc
             /\ job'.part = job.part /\ job'.img = job.img /\ job'.vol = job.vol
             /\ job'.again = job.again
  BY <1>1 DEF Goto, JobState
<1>2. ASSUME NEW how \in Ending, End(how)
      PROVE  /\ job' \in JobState /\ job'.pc = "idle"
             /\ last \in [Parts -> Ending] /\ job.part \in Parts =>
                  /\ last' \in [Parts -> Ending]
                  /\ \A p \in Parts : last'[p] = IF p = job.part THEN how ELSE last[p]
  BY <1>2, NoCallType DEF End
<1> QED BY <1>1, <1>2

LEMMA InitInv == Init => IInv
<1> SUFFICES ASSUME Init PROVE IInv
  OBVIOUS
<1> DEFINE k == [data |-> Factory, id |-> 0, mtd |-> 1]
           r == [data |-> Factory, id |-> 1, mtd |-> 2]
           f == [data |-> Factory, id |-> 2, mtd |-> 3]
<1>1. k \in VolState /\ r \in VolState /\ f \in VolState
  BY Contents DEF VolState
<1>2. /\ ubi["kernel"] = k /\ ubi["rootfs"] = r /\ ubi["firmware"] = f
      /\ ubi["bootcore"] = Absent /\ ubi["rootfsB"] = Absent
      /\ ubi = [v \in Name |-> ubi[v]]
  BY DEF Init, Name, RootVol
<1>3. ubi \in Disk
  BY <1>1, <1>2, Contents DEF Disk, Name, RootVol
<1>4. TypeOK
  <2>1. last \in [Parts -> Ending] /\ gap \in BOOLEAN
    BY DEF Init, Ending
  <2> QED BY <1>3, <2>1, Types, NoCallType, Contents DEF Init, RootVol
<1>5. Volumes = {"kernel", "rootfs", "firmware"}
  BY <1>2, Contents DEF Volumes, Name, RootVol
<1>6. Distinct
  BY <1>2, <1>5 DEF Distinct
<1>7. Path
  BY NoCallType DEF Init, Path
<1>8. KernelKept
  BY <1>2 DEF Init, KernelKept
<1>9. RootKept
  <2>1. env.root = 2 /\ "rootfs" \in RootVol \cap Volumes
    BY <1>5 DEF Init, RootVol
  <2>2. ubi["rootfs"].mtd = 2 /\ ubi["rootfs"].data \in Images
    BY <1>2, Contents
  <2> QED BY <2>1, <2>2 DEF RootKept, RootSelected
<1>10. RunningKept
  BY <1>2, NoCallType, Contents DEF Init, RunningKept
<1> QED BY <1>4, <1>6, <1>7, <1>8, <1>9, <1>10 DEF IInv, Kept

\* The start of a call and the steps in it that leave the volumes alone.
StartStep == \/ \E p \in Parts : \E img \in Offer[p] : Call(p, img)
             \/ Umount \/ Pick \/ PickNone \/ CreateFails

LEMMA RootListType == RootList \in Seq(RootVol)
<1>1. /\ <<"rootfs", "rootfsB">> \in Seq(RootVol) /\ <<"rootfsB", "rootfs">> \in Seq(RootVol)
      /\ <<"rootfs">> \in Seq(RootVol) /\ <<"rootfsB">> \in Seq(RootVol)
  BY DEF RootVol
<1>2. RootList \in {<<"rootfs", "rootfsB">>, <<"rootfsB", "rootfs">>, <<"rootfs">>, <<"rootfsB">>}
  BY DEF RootList
<1> QED BY <1>1, <1>2

LEMMA StartMoves ==
  ASSUME TypeOK, Path, StartStep
  PROVE  /\ TypeOK' /\ Path' /\ UNCHANGED <<ubi, env, last>> /\ run'.up = run.up /\ run'.root = run.root
         /\ job'.pc \in {"umount", "pick", "remove", "blind", "update"}
         /\ job.pc # "idle" => job'.part = job.part /\ job'.again = job.again
         /\ job.pc = "idle" => job'.again = (ubi[run.root].mtd # env.root)
         /\ job'.pc = "update" => job.pc = "create" /\ job.part # "rootfs" /\ job'.vol = job.vol
         /\ job.pc = "idle" \/ (job.pc = "create" \/ job.pc \in {"umount", "pick"})
<1>0. /\ ubi \in Disk /\ env \in [size : Images, root : 0 .. 5] /\ run \in [up : BOOLEAN, root : RootVol, fw : BOOLEAN]
      /\ job \in JobState /\ last \in [Parts -> Ending] /\ gap \in BOOLEAN
  BY Types
<1> DEFINE other == (ubi[run.root].mtd # env.root)
<1>1. ASSUME NEW p \in Parts, NEW img \in Offer[p], Call(p, img)
      PROVE  TypeOK' /\ Path' /\ job'.pc \in {"umount", "pick", "remove"} /\ job'.again = other
  <2> DEFINE pc == CASE p = "firmware" -> "umount" [] p = "rootfs" -> "pick" [] OTHER -> "remove"
             todo == IF p = "rootfs" THEN RootList ELSE <<>>
  <2>1. img \in Images /\ p \in Name
    BY PartsAssumption DEF Name, RootVol
  <2>2. pc \in {"umount", "pick", "remove"} /\ (pc = "pick" => p = "rootfs")
    BY PartsAssumption
  <2>3. todo \in Seq(RootVol)
    BY RootListType
  <2>4. job' = [pc |-> pc, part |-> p, img |-> img, vol |-> p, todo |-> todo, again |-> other]
        /\ UNCHANGED <<ubi, env, run, last, gap>>
    BY <1>1 DEF Call
  <2>0. other \in BOOLEAN
    OBVIOUS
  <2> HIDE DEF pc, todo, other
  <2>5. job' \in JobState /\ job'.pc = pc /\ job'.part = p /\ job'.vol = p /\ job'.again = other
    BY <2>0, <2>1, <2>2, <2>3, <2>4 DEF JobState, PC
  <2>6. TypeOK'
    BY <1>0, <2>4, <2>5 DEF TypeOK, JobState, Disk, VolState
  <2>7. Path'
    BY <2>2, <2>5 DEF Path, RootVol
  <2> QED BY <2>2, <2>5, <2>6, <2>7
<1>2. CASE Umount
  <2>1. job.pc = "umount" /\ Goto("remove") /\ UNCHANGED <<ubi, env, last>>
        /\ run' \in [up : BOOLEAN, root : RootVol, fw : BOOLEAN] /\ run'.up = run.up
        /\ run'.root = run.root /\ gap' = gap
    BY <1>0, <1>2 DEF Umount
  <2>2. job' \in JobState /\ job'.pc = "remove" /\ job'.part = job.part /\ job'.vol = job.vol /\ job'.again = job.again
    BY <1>0, <2>1, JobMoves DEF PC
  <2>3. TypeOK'
    BY <1>0, <2>1, <2>2 DEF TypeOK, JobState, Disk, VolState
  <2>4. Path'
    BY <2>1, <2>2 DEF Path
  <2> QED BY <2>1, <2>2, <2>3, <2>4
<1>3. CASE Pick
  <2> DEFINE v == IF Head(job.todo) = "rootfs" THEN "rootfsB" ELSE "rootfs"
  <2>1. job.pc = "pick" /\ job.todo # <<>> /\ UNCHANGED <<ubi, env, run, last, gap>>
        /\ job' = [job EXCEPT !.pc = "remove", !.todo = Tail(job.todo), !.vol = v]
    BY <1>3 DEF Pick
  <2>2. v \in RootVol /\ v \in Name
    BY DEF RootVol, Name
  <2>3. Tail(job.todo) \in Seq(RootVol)
    BY <1>0, <2>1 DEF JobState
  <2> HIDE DEF v
  <2>4. job' = [pc |-> "remove", part |-> job.part, img |-> job.img, vol |-> v, todo |-> Tail(job.todo),
                 again |-> job.again]
    BY <1>0, <2>1 DEF JobState
  <2>5. job' \in JobState /\ job'.pc = "remove" /\ job'.part = job.part /\ job'.vol = v
        /\ job'.again = job.again
    BY <1>0, <2>2, <2>3, <2>4 DEF JobState, PC
  <2>6. TypeOK'
    BY <1>0, <2>1, <2>5 DEF TypeOK, JobState, Disk, VolState
  <2>7. Path'
    BY <2>1, <2>2, <2>5 DEF Path
  <2> QED BY <2>1, <2>5, <2>6, <2>7
<1>4. CASE PickNone \/ CreateFails
  <2>1. PICK pc \in {"blind", "pick", "update"} :
          /\ Goto(pc) /\ UNCHANGED <<ubi, env, run, last>> /\ job.pc \in {"pick", "create"}
          /\ gap' \in BOOLEAN
          /\ pc = "pick" => job.part = "rootfs"
          /\ pc = "update" => job.pc = "create" /\ job.part # "rootfs"
          /\ pc = "blind" => job.pc = "pick"
    BY <1>0, <1>4 DEF PickNone, CreateFails
  <2>2. job' \in JobState /\ job'.pc = pc /\ job'.part = job.part /\ job'.vol = job.vol /\ job'.again = job.again
    BY <1>0, <2>1, JobMoves DEF PC
  <2>3. TypeOK'
    BY <1>0, <2>1, <2>2 DEF TypeOK, JobState, Disk, VolState
  <2>4. Path'
    BY <2>1, <2>2 DEF Path
  <2> QED BY <2>1, <2>2, <2>3, <2>4
<1> QED BY <1>1, <1>2, <1>3, <1>4 DEF StartStep, Call

LEMMA StartKeeps == IInv /\ StartStep => Kept'
<1> SUFFICES ASSUME IInv, StartStep PROVE Kept'
  OBVIOUS
<1>1. /\ TypeOK' /\ Path' /\ UNCHANGED <<ubi, env, last>> /\ run'.up = run.up
      /\ job'.pc \in {"umount", "pick", "remove", "blind", "update"}
      /\ job.pc # "idle" => job'.part = job.part /\ job'.again = job.again
      /\ job'.pc = "update" => job.pc = "create" /\ job.part # "rootfs" /\ job'.vol = job.vol
      /\ job.pc = "idle" \/ (job.pc = "create" \/ job.pc \in {"umount", "pick"})
      /\ StartStep
  BY StartMoves DEF IInv, Kept
<1>2. Volumes' = Volumes /\ Distinct' /\ RootSelected' = RootSelected
  BY <1>1 DEF IInv, Kept, Volumes, Distinct, RootSelected
<1>3. KernelKept'
  <2>1. CASE job.part = "kernel" /\ job.pc = "create"
    <3>1. job'.pc = "update"
      BY <1>1, <2>1 DEF StartStep, Call, Umount, Pick, PickNone, CreateFails, Goto, IInv, Kept, TypeOK, PC
    <3> QED BY <1>1, <1>2, <2>1, <3>1 DEF IInv, Kept, KernelKept
  <2>2. CASE ~(job.part = "kernel" /\ job.pc = "create")
    BY <1>1, <1>2, <2>2 DEF IInv, Kept, KernelKept
  <2> QED BY <2>1, <2>2
<1>4. run'.up => RootKept'
  BY <1>1, <1>2 DEF IInv, Kept, RootKept
<1> QED BY <1>1, <1>2, <1>3, <1>4 DEF IInv, Kept

\* The running call takes its volume away, or cannot.
LEMMA RemoveKeeps == IInv /\ Remove => Kept'
<1> SUFFICES ASSUME IInv, Remove PROVE Kept'
  OBVIOUS
<1>0. /\ ubi \in Disk /\ job \in JobState /\ last \in [Parts -> Ending] /\ Distinct
      /\ job.pc = "remove" /\ UNCHANGED <<env, run, last>> /\ Goto("create") /\ job.vol \in Name
      /\ env \in [size : Images, root : 0 .. 5] /\ run \in [up : BOOLEAN, root : RootVol, fw : BOOLEAN]
      /\ gap' \in BOOLEAN
  BY Types DEF IInv, Kept, Remove, JobState
<1>1. job' \in JobState /\ job'.pc = "create" /\ job'.part = job.part /\ job'.vol = job.vol /\ job'.again = job.again
  BY <1>0, JobMoves DEF PC
<1>2. Path'
  BY <1>0, <1>1 DEF IInv, Kept, Path
<1>3. CASE UNCHANGED ubi
  <2>1. Volumes' = Volumes /\ Distinct' /\ RootSelected' = RootSelected
    BY <1>0, <1>3 DEF Volumes, Distinct, RootSelected
  <2>2. TypeOK'
    BY <1>0, <1>1, <1>3 DEF TypeOK, JobState, Disk, VolState
  <2>3. KernelKept'
    BY <1>0, <1>1, <1>3 DEF IInv, Kept, KernelKept
  <2>4. run'.up => RootKept'
    BY <1>0, <1>1, <1>3, <2>1 DEF IInv, Kept, RootKept
  <2> QED BY <1>2, <2>1, <2>2, <2>3, <2>4 DEF IInv, Kept
<1>4. CASE ubi' = [ubi EXCEPT ![job.vol] = Absent]
  <2>1. /\ ubi' \in Disk /\ Distinct'
        /\ ubi'[job.vol].data = "none" /\ Volumes' = Volumes \ {job.vol}
        /\ \A w \in Name : w # job.vol => ubi'[w] = ubi[w]
    BY <1>0, <1>4, Removes
  <2>2. TypeOK'
    BY <1>0, <1>1, <2>1 DEF TypeOK, JobState, Disk, VolState
  <2>3. KernelKept'
    <3>1. CASE job.vol = "kernel"
      <4>1. job.part = "kernel"
        BY <1>0, <3>1 DEF IInv, Kept, Path, RootVol
      <4> QED BY <1>1, <2>1, <3>1, <4>1 DEF KernelKept
    <3>2. CASE job.vol # "kernel"
      BY <1>0, <1>1, <2>1, <3>2, Contents DEF IInv, Kept, KernelKept
    <3> QED BY <3>1, <3>2
  <2>4. ASSUME run'.up PROVE RootKept'
    <3>1. RootKept
      BY <1>0, <2>4 DEF IInv, Kept
    <3>2. CASE Bad("rootfs")
      BY <1>0, <3>2 DEF RootKept
    <3>3. CASE RootSelected
      <4>1. PICK v \in RootVol \cap Volumes : ubi[v].mtd = env.root /\ ubi[v].data \in Images
        BY <3>3 DEF RootSelected
      <4>2. CASE v = job.vol
        <5>1. job.part = "rootfs"
          BY <1>0, <4>1, <4>2, PartsAssumption DEF IInv, Kept, Path, RootVol
        <5>2. \A w \in RootVol \cap Volumes' : w \in Volumes /\ w # v /\ ubi'[w] = ubi[w] /\ ubi[w].mtd # ubi[v].mtd
          BY <1>0, <2>1, <4>1, <4>2, Contents DEF Distinct
        <5>3. job.again
          <6> SUFFICES ASSUME ~job.again PROVE FALSE
            BY <1>0 DEF JobState
          <6>1. run.root \in RootVol /\ ubi[run.root].data \in Images /\ ubi[run.root].mtd = env.root
            BY <1>0, <2>4, <5>1 DEF IInv, RunningKept
          <6>2. run.root \in Volumes
            BY <6>1, Contents DEF Volumes
          <6>3. run.root # v
            <7>1. ubi'[job.vol] # ubi[job.vol]
              BY <2>1, <4>1, <4>2, Contents
            <7> QED BY <1>0, <4>2, <7>1 DEF Remove, Mounted
          <6> QED BY <1>0, <4>1, <6>1, <6>2, <6>3 DEF Distinct
        <5> QED BY <1>0, <1>1, <4>1, <5>1, <5>2, <5>3 DEF RootKept
      <4>3. CASE v # job.vol
        <5>1. v \in RootVol \cap Volumes' /\ ubi'[v] = ubi[v]
          BY <2>1, <4>1, <4>3, Contents
        <5> QED BY <1>0, <4>1, <5>1 DEF RootKept, RootSelected
      <4> QED BY <4>2, <4>3
    <3>4. CASE /\ job.pc # "idle" /\ job.part = "rootfs" /\ job.again
               /\ \A v \in RootVol \cap Volumes : ubi[v].mtd = env.root => v = job.vol /\ job.pc \in {"update", "data"}
      <4>1. \A v \in RootVol \cap Volumes' : v \in Volumes /\ ubi'[v] = ubi[v]
        BY <2>1, Contents
      <4> QED BY <1>0, <1>1, <3>4, <4>1 DEF RootKept
    <3> QED BY <3>1, <3>2, <3>3, <3>4 DEF RootKept
  <2> QED BY <1>2, <2>1, <2>2, <2>3, <2>4 DEF IInv, Kept
<1> QED BY <1>3, <1>4 DEF Remove

\* The running call makes its volume, with free numbers.
LEMMA CreateKeeps == IInv /\ Create => Kept'
<1> SUFFICES ASSUME IInv, Create PROVE Kept'
  OBVIOUS
<1>0. /\ ubi \in Disk /\ job \in JobState /\ last \in [Parts -> Ending] /\ Distinct
      /\ job.pc = "create" /\ UNCHANGED <<env, run, last>> /\ Goto("update") /\ job.vol \in Name \ Volumes
      /\ env \in [size : Images, root : 0 .. 5] /\ run \in [up : BOOLEAN, root : RootVol, fw : BOOLEAN]
      /\ gap' \in BOOLEAN
  BY Types DEF IInv, Kept, Create, JobState
<1>1. job' \in JobState /\ job'.pc = "update" /\ job'.part = job.part /\ job'.vol = job.vol /\ job'.again = job.again
  BY <1>0, JobMoves DEF PC
<1> DEFINE ids == {ubi[w].id : w \in Volumes}  mtds == {ubi[w].mtd : w \in Volumes}
           i == NewId  m == LowestFree(1, mtds)
<1>2. Volumes \subseteq Name
  BY DEF Volumes
<1>3. LowestFree(0, ids) \in 0 .. 4
  <2> DEFINE g == [w \in Name |-> ubi[w].id]
  <2>1. ids = {g[w] : w \in Volumes}
    BY <1>2
  <2> HIDE DEF g
  <2> DEFINE l == LowestFree(0, {g[w] : w \in Volumes})
  <2>2. l \in 0 .. 0 + 4
    BY <1>0, FreeNumber
  <2>3. LowestFree(0, ids) = l
    BY <2>1
  <2> HIDE DEF l
  <2>4. l \in 0 .. 4
    BY <2>2
  <2> QED BY <2>3, <2>4
<1>4. m \in 1 .. 5 /\ \A w \in Volumes : m # ubi[w].mtd
  <2> DEFINE g == [w \in Name |-> ubi[w].mtd]
  <2>1. mtds = {g[w] : w \in Volumes} /\ \A w \in Volumes : g[w] = ubi[w].mtd
    BY <1>2
  <2> HIDE DEF g
  <2> DEFINE l == LowestFree(1, {g[w] : w \in Volumes})
  <2>2. l \in 1 .. 1 + 4 /\ \A w \in Volumes : l # g[w]
    BY <1>0, FreeNumber
  <2>3. m = l
    BY <2>1
  <2> QED BY <2>1, <2>2, <2>3
<1>5. i \in 0 .. 5 /\ \A w \in Volumes : i # ubi[w].id
  <2>1. i = 1 \/ i = LowestFree(0, ids)
    BY DEF NewId
  <2>2. i \notin ids
    BY DEF Create
  <2> HIDE DEF i
  <2>3. i \in 0 .. 5
    BY <1>3, <2>1
  <2> QED BY <2>2, <2>3
<1>6. ubi' = [ubi EXCEPT ![job.vol] = [data |-> "empty", id |-> i, mtd |-> m]]
  BY DEF Create
<1> HIDE DEF i, m
<1>7. /\ ubi' \in Disk /\ Distinct'
      /\ ubi'[job.vol].data = "empty" /\ Volumes' = Volumes \cup {job.vol}
      /\ \A w \in Name : w # job.vol => ubi'[w] = ubi[w]
  <2>1. m \in 0 .. 5 /\ \A w \in Volumes : i # ubi[w].id /\ m # ubi[w].mtd
    BY <1>4, <1>5
  <2> DEFINE v == job.vol
  <2>2. ubi \in Disk /\ Distinct /\ v \in Name \ Volumes /\ i \in 0 .. 5
    BY <1>0, <1>5
  <2>3. ubi' = [ubi EXCEPT ![v] = [data |-> "empty", id |-> i, mtd |-> m]]
    BY <1>6
  <2> HIDE DEF v
  <2>4. /\ ubi' \in Disk /\ Distinct'
        /\ ubi'[v].data = "empty" /\ Volumes' = Volumes \cup {v}
        /\ \A w \in Name : w # v => ubi'[w] = ubi[w]
    BY <2>1, <2>2, <2>3, Creates
  <2> QED BY <2>4 DEF v
<1>8. TypeOK'
  BY <1>0, <1>1, <1>7 DEF TypeOK, JobState, Disk, VolState
<1>9. Path'
  BY <1>0, <1>1, <1>7 DEF IInv, Kept, Path
<1>10. KernelKept'
  <2>1. CASE job.vol = "kernel"
    <3>1. job.part = "kernel"
      BY <1>0, <2>1 DEF IInv, Kept, Path, RootVol
    <3> QED BY <1>1, <3>1 DEF KernelKept
  <2>2. CASE job.vol # "kernel"
    <3>1. ubi'["kernel"] = ubi["kernel"] /\ job.part # "kernel"
      BY <1>0, <1>7, <2>2, Contents DEF IInv, Kept, Path
    <3> QED BY <1>0, <1>1, <3>1 DEF IInv, Kept, KernelKept
  <2> QED BY <2>1, <2>2
<1>11. ASSUME run'.up PROVE RootKept'
  <2>1. \A v \in Volumes : ubi'[v] = ubi[v] /\ v # job.vol /\ v \in Volumes'
    BY <1>0, <1>2, <1>7
  <2>2. RootKept
    BY <1>0, <1>11 DEF IInv, Kept
  <2>3. RootSelected => RootSelected'
    BY <1>0, <2>1 DEF RootSelected
  <2>4. \A v \in RootVol \cap Volumes' : v \in Volumes \/ v = job.vol
    BY <1>7
  <2> QED BY <1>0, <1>1, <2>1, <2>2, <2>3, <2>4 DEF RootKept
<1> QED BY <1>7, <1>8, <1>9, <1>10, <1>11 DEF IInv, Kept

\* ubiupdatevol starts: its volume is incomplete.
LEMMA UpdateStartKeeps == IInv /\ UpdateStart => Kept'
<1> SUFFICES ASSUME IInv, UpdateStart PROVE Kept'
  OBVIOUS
<1>0. /\ ubi \in Disk /\ job \in JobState /\ last \in [Parts -> Ending] /\ Distinct
      /\ job.pc = "update" /\ UNCHANGED <<env, run, last>> /\ Goto("data") /\ job.vol \in Name /\ job.vol \in Volumes
      /\ env \in [size : Images, root : 0 .. 5] /\ run \in [up : BOOLEAN, root : RootVol, fw : BOOLEAN]
      /\ gap' \in BOOLEAN
      /\ ubi' = [ubi EXCEPT ![job.vol].data = "torn"]
  BY Types DEF IInv, Kept, UpdateStart, JobState
<1>1. job' \in JobState /\ job'.pc = "data" /\ job'.part = job.part /\ job'.vol = job.vol /\ job'.again = job.again
  BY <1>0, JobMoves DEF PC
<1>2. /\ ubi' \in Disk /\ ubi'[job.vol].data = "torn" /\ Volumes' = Volumes
      /\ \A w \in Name : w # job.vol => ubi'[w] = ubi[w]
      /\ \A w \in Name : ubi'[w].mtd = ubi[w].mtd /\ ubi'[w].id = ubi[w].id
  <2>1. "torn" \in Content /\ "torn" # "none"
    BY Contents
  <2>2. /\ ubi' \in Disk /\ ubi'[job.vol].data = "torn" /\ Volumes' = Volumes \cup {job.vol}
        /\ \A w \in Name : w # job.vol => ubi'[w] = ubi[w]
        /\ \A w \in Name : ubi'[w].mtd = ubi[w].mtd /\ ubi'[w].id = ubi[w].id
    BY <1>0, <2>1, Writes
  <2> QED BY <1>0, <2>2
<1>3. \A w \in Volumes : w \in Name
  BY DEF Volumes
<1>4. TypeOK'
  BY <1>0, <1>1, <1>2 DEF TypeOK, JobState, Disk, VolState
<1>5. Path'
  BY <1>0, <1>1, <1>2 DEF IInv, Kept, Path
<1>6. Distinct'
  BY <1>0, <1>2, <1>3 DEF Distinct
<1>7. KernelKept'
  <2>1. CASE job.vol = "kernel"
    <3>1. job.part = "kernel"
      BY <1>0, <2>1 DEF IInv, Kept, Path, RootVol
    <3> QED BY <1>1, <3>1 DEF KernelKept
  <2>2. CASE job.vol # "kernel"
    <3>1. ubi'["kernel"] = ubi["kernel"] /\ job.part # "kernel"
      BY <1>0, <1>2, <2>2, Contents DEF IInv, Kept, Path
    <3> QED BY <1>0, <1>1, <3>1 DEF IInv, Kept, KernelKept
  <2> QED BY <2>1, <2>2
<1>8. ASSUME run'.up PROVE RootKept'
  <2>1. RootKept
    BY <1>0, <1>8 DEF IInv, Kept
  <2>2. CASE RootSelected
    <3>1. PICK v \in RootVol \cap Volumes : ubi[v].mtd = env.root /\ ubi[v].data \in Images
      BY <2>2 DEF RootSelected
    <3>2. v # job.vol
      <4>1. job.vol \in RootVol => ubi[job.vol].data = "empty"
        BY <1>0, PartsAssumption DEF IInv, Kept, Path, RootVol
      <4> QED BY <3>1, <4>1, Contents
    <3> QED BY <1>0, <1>2, <1>3, <3>1, <3>2 DEF RootKept, RootSelected
  <2>3. CASE ~RootSelected
    <3>1. \A v \in RootVol \cap Volumes : ubi'[v].mtd = ubi[v].mtd
      BY <1>2, <1>3
    <3> QED BY <1>0, <1>1, <1>2, <2>1, <2>3, <3>1 DEF RootKept
  <2> QED BY <2>2, <2>3
<1> QED BY <1>4, <1>5, <1>6, <1>7, <1>8 DEF IInv, Kept

\* The image is in the volume.
LEMMA UpdateDoneKeeps == IInv /\ UpdateDone => Kept'
<1> SUFFICES ASSUME IInv, UpdateDone PROVE Kept'
  OBVIOUS
<1>0. /\ ubi \in Disk /\ job \in JobState /\ last \in [Parts -> Ending] /\ Distinct
      /\ job.pc = "data" /\ UNCHANGED <<env, run>> /\ job.vol \in Name /\ job.img \in Images /\ job.part \in Parts
      /\ env \in [size : Images, root : 0 .. 5] /\ run \in [up : BOOLEAN, root : RootVol, fw : BOOLEAN]
      /\ gap' \in BOOLEAN
      /\ ubi' = [ubi EXCEPT ![job.vol].data = job.img]
  BY Types DEF IInv, Kept, UpdateDone, JobState, Path
<1>1. /\ job' \in JobState
      /\ job.part = "kernel" => job'.pc = "size" /\ last' = last
      /\ job.part = "rootfs" => job'.pc = "select" /\ last' = last
      /\ job.part \in {"kernel", "rootfs"} => job'.part = job.part /\ job'.vol = job.vol /\ job'.img = job.img
                                             /\ job'.again = job.again
      /\ job.part \notin {"kernel", "rootfs"} => job'.pc = "idle"
      /\ last' \in [Parts -> Ending] /\ \A p \in Parts \ {job.part} : last'[p] = last[p]
  BY <1>0, JobMoves DEF PC, UpdateDone, Ending
<1>2. /\ ubi' \in Disk /\ ubi'[job.vol].data = job.img /\ Volumes' = Volumes \cup {job.vol}
      /\ \A w \in Name : w # job.vol => ubi'[w] = ubi[w]
      /\ \A w \in Name : ubi'[w].mtd = ubi[w].mtd /\ ubi'[w].id = ubi[w].id
  <2>1. job.img \in Content /\ job.img # "none"
    BY <1>0, Contents
  <2> QED BY <1>0, <2>1, Writes
<1>3. Volumes' = Volumes /\ \A w \in Volumes : w \in Name
  BY <1>0, <1>2 DEF IInv, Kept, Path, Volumes
<1>4. TypeOK'
  BY <1>0, <1>1, <1>2 DEF TypeOK, JobState, Disk, VolState
<1>5. Path'
  BY <1>0, <1>1, <1>2 DEF IInv, Kept, Path
<1>6. Distinct'
  BY <1>0, <1>2, <1>3 DEF Distinct
<1>7. KernelKept'
  <2>1. CASE job.part = "kernel"
    BY <1>1, <2>1 DEF KernelKept
  <2>2. CASE job.part # "kernel"
    <3>1. ubi'["kernel"] = ubi["kernel"]
      BY <1>0, <1>1, <1>2, <2>2, Contents, PartsAssumption DEF IInv, Kept, Path, RootVol
    <3> QED BY <1>0, <1>1, <2>2, <3>1 DEF IInv, Kept, KernelKept
  <2> QED BY <2>1, <2>2
<1>8. ASSUME run'.up PROVE RootKept'
  <2>1. RootKept
    BY <1>0, <1>8 DEF IInv, Kept
  <2>2. CASE RootSelected
    <3>1. PICK v \in RootVol \cap Volumes : ubi[v].mtd = env.root /\ ubi[v].data \in Images
      BY <2>2 DEF RootSelected
    <3> QED BY <1>0, <1>2, <1>3, <3>1 DEF RootKept, RootSelected
  <2>3. CASE Bad("rootfs")
    BY <1>0, <1>1, <2>3 DEF RootKept
  <2>4. CASE /\ job.part = "rootfs" /\ job.again
             /\ \A v \in RootVol \cap Volumes : ubi[v].mtd = env.root => v = job.vol /\ job.pc \in {"update", "data"}
    <3>1. CASE ubi[job.vol].mtd = env.root
      <4>1. job.vol \in RootVol \cap Volumes
        BY <1>0, <2>4 DEF IInv, Kept, Path
      <4> QED BY <1>0, <1>2, <1>3, <3>1, <4>1 DEF RootKept, RootSelected
    <3>2. CASE ubi[job.vol].mtd # env.root
      <4>1. job'.pc = "select" /\ job'.part = "rootfs" /\ job'.again
        BY <1>1, <2>4
      <4>2. \A v \in RootVol \cap Volumes' : ubi'[v].mtd # env'.root
        BY <1>0, <1>2, <1>3, <2>4, <3>2
      <4> QED BY <4>1, <4>2 DEF RootKept
    <3> QED BY <3>1, <3>2
  <2> QED BY <2>1, <2>2, <2>3, <2>4 DEF RootKept
<1> QED BY <1>4, <1>5, <1>6, <1>7, <1>8 DEF IInv, Kept

\* ubiupdatevol fails: the last call for the part has not been good.
LEMMA UpdateFailsKeeps == IInv /\ UpdateFails => Kept'
<1> SUFFICES ASSUME IInv, UpdateFails PROVE Kept'
  OBVIOUS
<1>0. /\ ubi \in Disk /\ job \in JobState /\ last \in [Parts -> Ending] /\ Distinct
      /\ job.pc \in {"update", "data"} /\ UNCHANGED <<ubi, env, run>> /\ job.part \in Parts
      /\ env \in [size : Images, root : 0 .. 5] /\ run \in [up : BOOLEAN, root : RootVol, fw : BOOLEAN]
      /\ gap' \in BOOLEAN
  BY Types DEF IInv, Kept, UpdateFails, Path
<1>1. /\ job' \in JobState /\ job'.pc = "idle" /\ last' \in [Parts -> Ending]
      /\ \A p \in Parts : last'[p] = IF p = job.part THEN "failed" ELSE last[p]
  BY <1>0, JobMoves DEF UpdateFails, Ending
<1>2. Volumes' = Volumes /\ Distinct' /\ RootSelected' = RootSelected
  BY <1>0 DEF Volumes, Distinct, RootSelected
<1>3. TypeOK'
  BY <1>0, <1>1 DEF TypeOK, JobState, Disk, VolState
<1>4. Path'
  BY <1>1 DEF Path
<1>5. KernelKept'
  BY <1>0, <1>1 DEF IInv, Kept, KernelKept
<1>6. run'.up => RootKept'
  BY <1>0, <1>1, <1>2 DEF IInv, Kept, RootKept
<1> QED BY <1>2, <1>3, <1>4, <1>5, <1>6 DEF IInv, Kept

\* f_kernel_size and rootfsmtd are set to what was written.
LEMMA EnvKeeps == IInv /\ (SetKernelSize \/ SelectRoot) => Kept'
<1> SUFFICES ASSUME IInv, SetKernelSize \/ SelectRoot PROVE Kept'
  OBVIOUS
<1>0. /\ ubi \in Disk /\ job \in JobState /\ last \in [Parts -> Ending] /\ Distinct
      /\ job.pc \in {"size", "select", "blind"} /\ UNCHANGED <<ubi, run>> /\ job.part \in Parts
      /\ job.img \in Images /\ job.vol \in Name
      /\ env \in [size : Images, root : 0 .. 5] /\ run \in [up : BOOLEAN, root : RootVol, fw : BOOLEAN]
      /\ gap' \in BOOLEAN
  BY Types DEF IInv, Kept, SetKernelSize, SelectRoot, Path, JobState
<1>2. Volumes' = Volumes /\ Distinct'
  BY <1>0 DEF Volumes, Distinct
<1> DEFINE Ended(how) == /\ job' \in JobState /\ job'.pc = "idle" /\ last' \in [Parts -> Ending]
                         /\ \A p \in Parts : last'[p] = IF p = job.part THEN how ELSE last[p]
<1>3. \A how \in Ending : End(how) => Ended(how)
  BY <1>0, JobMoves
<1>4. CASE UNCHANGED env /\ End("silent")
  <2>1. Ended("silent")
    BY <1>3, <1>4 DEF Ending
  <2>2. TypeOK'
    BY <1>0, <1>4, <2>1 DEF TypeOK, JobState, Disk, VolState
  <2>3. Path'
    BY <2>1 DEF Path
  <2>4. KernelKept'
    BY <1>0, <1>4, <2>1 DEF IInv, Kept, KernelKept, Path
  <2>5. run'.up => RootKept'
    <3>1. RootSelected' = RootSelected
      BY <1>0, <1>2, <1>4 DEF RootSelected
    <3> QED BY <1>0, <2>1, <3>1 DEF IInv, Kept, RootKept
  <2> QED BY <1>2, <2>2, <2>3, <2>4, <2>5 DEF Kept
<1>5. CASE SetKernelSize /\ env' = [env EXCEPT !.size = job.img] /\ End("ok")
  <2>1. job.pc = "size" /\ job.part = "kernel" /\ job.vol = "kernel" /\ ubi["kernel"].data = job.img
    BY <1>0, <1>5 DEF IInv, Kept, Path, SetKernelSize
  <2>2. Ended("ok")
    BY <1>3, <1>5 DEF Ending
  <2>3. env' \in [size : Images, root : 0 .. 5] /\ env'.size = job.img /\ env'.root = env.root
    BY <1>0, <1>5
  <2>4. TypeOK'
    BY <1>0, <2>2, <2>3 DEF TypeOK, JobState, Disk, VolState
  <2>5. Path'
    BY <2>2 DEF Path
  <2>6. KernelKept'
    BY <1>0, <2>1, <2>3 DEF KernelKept
  <2>7. run'.up => RootKept'
    <3>1. RootSelected' = RootSelected
      BY <1>0, <1>2, <2>3 DEF RootSelected
    <3> QED BY <1>0, <2>1, <2>2, <3>1 DEF IInv, Kept, RootKept
  <2> QED BY <1>2, <2>4, <2>5, <2>6, <2>7 DEF Kept
<1>6. CASE /\ SelectRoot /\ env' = [env EXCEPT !.root = ubi[job.vol].mtd]
           /\ End(IF job.pc = "blind" THEN "silent" ELSE "ok")
  <2>1. job.pc \in {"select", "blind"} /\ job.part = "rootfs" /\ job.vol \in RootVol
    BY <1>0, <1>6 DEF IInv, Kept, Path, SelectRoot
  <2>2. Ended(IF job.pc = "blind" THEN "silent" ELSE "ok")
    BY <1>3, <1>6 DEF Ending
  <2>3. env' \in [size : Images, root : 0 .. 5] /\ env'.size = env.size /\ env'.root = ubi[job.vol].mtd
    BY <1>0, <1>6 DEF Disk, VolState
  <2>4. TypeOK'
    BY <1>0, <2>2, <2>3 DEF TypeOK, JobState, Disk, VolState
  <2>5. Path'
    BY <2>2 DEF Path
  <2>6. KernelKept'
    BY <1>0, <2>1, <2>2, <2>3 DEF IInv, Kept, KernelKept
  <2>7. RootKept'
    <3>1. CASE job.pc = "blind"
      BY <1>0, <2>1, <2>2, <3>1 DEF RootKept
    <3>2. CASE job.pc = "select"
      <4>1. ubi[job.vol].data = job.img
        BY <3>2 DEF IInv, Kept, Path
      <4>2. job.vol \in RootVol \cap Volumes
        BY <1>0, <2>1, <4>1, Contents DEF Volumes
      <4> QED BY <1>0, <1>2, <2>3, <4>1, <4>2 DEF RootKept, RootSelected
    <3> QED BY <2>1, <3>1, <3>2
  <2> QED BY <1>2, <2>4, <2>5, <2>6, <2>7 DEF Kept
<1> QED BY <1>4, <1>5, <1>6 DEF SetKernelSize, SelectRoot

\* The device comes up from a complete root volume, or stays off.
LEMMA RestartKeeps == IInv /\ Restart => Kept'
<1> SUFFICES ASSUME IInv, Restart PROVE Kept'
  OBVIOUS
<1>0. /\ ubi \in Disk /\ job \in JobState /\ last \in [Parts -> Ending] /\ Distinct /\ env' = env /\ ubi' = Numbered
      /\ env \in [size : Images, root : 0 .. 5] /\ run \in [up : BOOLEAN, root : RootVol, fw : BOOLEAN]
      /\ gap' \in BOOLEAN
  BY Types DEF IInv, Kept, Restart
<1>1. ubi' \in Disk /\ Distinct' /\ Volumes' = Volumes /\ \A w \in Name : ubi'[w].data = ubi[w].data
  BY <1>0, Renumbers
<1>2. /\ job' \in JobState /\ job'.pc = "idle" /\ last' \in [Parts -> Ending]
      /\ IF job.pc = "idle" THEN last' = last
         ELSE \A p \in Parts : last'[p] = IF p = job.part THEN "failed" ELSE last[p]
  <2>1. CASE job.pc = "idle"
    BY <1>0, <2>1 DEF Restart
  <2>2. CASE job.pc # "idle"
    <3>1. End("failed") /\ job.part \in Parts
      BY <2>2 DEF Restart, IInv, Kept, Path
    <3> QED BY <1>0, <2>2, <3>1, JobMoves DEF Ending
  <2> QED BY <2>1, <2>2
<1>3. run' \in [up : BOOLEAN, root : RootVol, fw : BOOLEAN] /\ (run'.up => BootRoot # {})
  <2>1. CASE Boots
    <3>1. PICK v \in BootRoot : run' = [up |-> TRUE, root |-> v, fw |-> ubi["firmware"].data \in Images]
      BY <2>1 DEF Restart
    <3>2. v \in RootVol /\ (ubi["firmware"].data \in Images) \in BOOLEAN /\ BootRoot # {}
      BY DEF BootRoot
    <3> QED BY <3>1, <3>2
  <2>2. CASE ~Boots
    <3>1. run' = [run EXCEPT !.up = FALSE]
      BY <2>2 DEF Restart
    <3> QED BY <1>0, <3>1
  <2> QED BY <2>1, <2>2
<1>4. TypeOK'
  BY <1>0, <1>1, <1>2, <1>3 DEF TypeOK, JobState, Disk, VolState
<1>5. Path'
  BY <1>2 DEF Path
<1>6. KernelKept'
  <2>1. ubi'["kernel"].data = ubi["kernel"].data
    BY <1>1, Contents
  <2>2. job.pc # "idle" => job.part \in Parts
    BY DEF IInv, Kept, Path
  <2> QED BY <1>0, <1>2, <2>1, <2>2 DEF IInv, Kept, KernelKept
<1>7. ASSUME run'.up PROVE RootKept'
  <2>1. PICK v \in RootVol : Numbered[v].mtd = env.root /\ ubi[v].data \in Images
    BY <1>3, <1>7 DEF BootRoot
  <2>2. v \in RootVol \cap Volumes /\ ubi'[v].mtd = env'.root /\ ubi'[v].data \in Images
    BY <1>0, <1>1, <2>1, Contents DEF Volumes
  <2> QED BY <1>1, <2>2 DEF RootKept, RootSelected
<1> QED BY <1>1, <1>4, <1>5, <1>6, <1>7 DEF IInv, Kept

\* The running root volume stays complete, and selected in a first upgrade.
LEMMA RunningKeeps ==
  ASSUME IInv, Next, run'.up
  PROVE  RunningKept'
<1>0. ubi \in Disk /\ job \in JobState /\ run \in [up : BOOLEAN, root : RootVol, fw : BOOLEAN]
      /\ run.root \in Name
  BY Types, Contents DEF IInv, Kept
<1>1. CASE StartStep
  <2>1. /\ UNCHANGED <<ubi, env>> /\ run'.up = run.up /\ run'.root = run.root
        /\ job.pc # "idle" => job'.part = job.part /\ job'.again = job.again
        /\ job.pc = "idle" => job'.again = (ubi[run.root].mtd # env.root)
    BY <1>1, StartMoves DEF IInv, Kept
  <2> QED BY <2>1 DEF IInv, RunningKept
<1>2. ASSUME UNCHANGED <<env, run>>, ubi'[run.root] = ubi[run.root], NEW pc \in PC, Goto(pc), job.pc # "idle"
      PROVE  RunningKept'
  <2>1. job'.part = job.part /\ job'.again = job.again
    BY <1>0, <1>2, JobMoves
  <2> QED BY <1>2, <2>1 DEF IInv, RunningKept
<1>3. run.up => run.root \in Volumes
  BY <1>0, Contents DEF IInv, RunningKept, Volumes
<1>4. CASE Remove \/ Create \/ UpdateStart
  <2>1. UNCHANGED <<env, run>> /\ job.pc # "idle" /\ \E pc \in PC : Goto(pc)
    BY <1>4 DEF Remove, Create, UpdateStart, PC
  <2>2. ubi'[run.root] = ubi[run.root]
    <3>1. CASE UNCHANGED ubi
      BY <3>1
    <3>2. CASE ~UNCHANGED ubi
      <4>1. job.vol # run.root
        BY <1>3, <1>4, <2>1, <3>2 DEF Remove, Create, UpdateStart, Mounted
      <4>2. \E e : ubi' = [ubi EXCEPT ![job.vol] = e]
        BY <1>4, <3>2 DEF Remove, Create, UpdateStart
      <4> QED BY <1>0, <4>1, <4>2 DEF Disk
    <3> QED BY <3>1, <3>2
  <2> QED BY <1>2, <2>1, <2>2
<1>5. CASE UpdateDone
  <2>1. /\ job.pc = "data" /\ UNCHANGED <<env, run>> /\ ubi' = [ubi EXCEPT ![job.vol].data = job.img]
        /\ job.vol \in Name /\ job.img \in Images
    BY <1>0, <1>5 DEF UpdateDone, JobState
  <2>2. ubi'[run.root].data \in Images /\ ubi'[run.root].mtd = ubi[run.root].mtd
    <3>1. job.img \in Content /\ job.img # "none" /\ Distinct
      BY <2>1, Contents DEF IInv, Kept
    <3>2. /\ ubi'[job.vol].data = job.img /\ \A w \in Name : w # job.vol => ubi'[w] = ubi[w]
          /\ \A w \in Name : ubi'[w].mtd = ubi[w].mtd
      BY <1>0, <2>1, <3>1, Writes
    <3> QED BY <1>0, <2>1, <3>2 DEF IInv, RunningKept
  <2>3. job'.pc = "idle" \/ (job'.part = job.part /\ job'.again = job.again)
    <3>1. Goto("size") \/ Goto("select") \/ End("ok")
      BY <1>5 DEF UpdateDone
    <3>2. CASE End("ok")
      BY <3>2, NoCallType DEF End
    <3>3. ASSUME NEW pc \in PC, Goto(pc) PROVE job'.part = job.part /\ job'.again = job.again
      BY <1>0, <3>3, JobMoves
    <3> QED BY <3>1, <3>2, <3>3 DEF PC
  <2> QED BY <2>1, <2>2, <2>3 DEF IInv, RunningKept
<1>6. CASE UpdateFails \/ SetKernelSize \/ SelectRoot
  <2>1. UNCHANGED <<ubi, run>> /\ job' = NoCall
    BY <1>6 DEF UpdateFails, SetKernelSize, SelectRoot, End
  <2> QED BY <2>1, NoCallType DEF IInv, RunningKept
<1>7. CASE Restart
  <2>1. job'.pc = "idle"
    BY <1>7, NoCallType DEF Restart, End
  <2>2. run'.root \in BootRoot
    <3>1. Boots
      BY <1>0, <1>7 DEF Restart
    <3>2. PICK v \in BootRoot : run' = [up |-> TRUE, root |-> v, fw |-> ubi["firmware"].data \in Images]
      BY <1>7, <3>1 DEF Restart
    <3> QED BY <3>2
  <2>3. ubi'[run'.root].data = ubi[run'.root].data
    <3>1. ubi' = Numbered /\ run'.root \in Name
      BY <1>7, <2>2, Contents DEF Restart, BootRoot
    <3> QED BY <1>0, <3>1, Renumbers DEF IInv, Kept
  <2> QED BY <2>1, <2>2, <2>3 DEF RunningKept, BootRoot
<1> QED BY <1>1, <1>4, <1>5, <1>6, <1>7 DEF Next, StartStep

LEMMA Inductive == Spec => []IInv
<1>1. IInv /\ [Next]_vars => IInv'
  <2> SUFFICES ASSUME IInv, [Next]_vars PROVE IInv'
    OBVIOUS
  <2>1. CASE Next
    <3>1. Kept'
      BY <2>1, StartKeeps, RemoveKeeps, CreateKeeps, UpdateStartKeeps, UpdateDoneKeeps, UpdateFailsKeeps,
         EnvKeeps, RestartKeeps DEF Next, StartStep
    <3> QED BY <2>1, <3>1, RunningKeeps DEF IInv
  <2>2. CASE UNCHANGED vars
    BY <2>2 DEF vars, IInv, Kept, TypeOK, Path, Distinct, Volumes, KernelKept, RootKept, RootSelected, RunningKept
  <2> QED BY <2>1, <2>2
<1> QED BY <1>1, InitInv, PTL DEF Spec

-----------------------------------------------------------------------------
(* The results                                                              *)

\* The types of the state: ids and mtd numbers stay below the number of volumes.
THEOREM TypeCorrect == Spec => []TypeOK
<1>1. IInv => TypeOK
  BY DEF IInv, Kept
<1> QED BY <1>1, Inductive, PTL

\* Outside the moments of Window the device boots after a loss of power, for any
\* images and parts, as long as the last call for each part was good and the next
\* boot gives the volumes the numbers they have: always during the first upgrade
\* of the root file system since the device started.
THEOREM LossIsSafe == Spec => []LossSafe
<1>1. IInv => LossSafe
  <2> SUFFICES ASSUME IInv, run.up, ~Window, NumbersKept, \A p \in Parts : last[p] = "ok" PROVE Boots
    BY DEF LossSafe
  <2>1. ubi["kernel"].data = env.size
    <3>1. ASSUME job.part = "kernel", job.pc \in {"update", "data", "size"} PROVE FALSE
      BY <3>1 DEF Window
    <3>2. ASSUME job.part = "kernel", job.pc = "create", "kernel" \notin Volumes PROVE FALSE
      <4>1. job.vol = "kernel"
        BY <3>2 DEF IInv, Kept, Path
      <4> QED BY <3>2, <4>1 DEF Window, Removed
    <3> QED BY <3>1, <3>2 DEF IInv, Kept, KernelKept
  <2>2. BootRoot # {}
    <3>1. CASE RootSelected
      BY <3>1 DEF RootSelected, BootRoot, NumbersKept
    <3>2. CASE /\ job.pc # "idle" /\ job.part = "rootfs" /\ job.again
               /\ \A v \in RootVol \cap Volumes : ubi[v].mtd = env.root => v = job.vol /\ job.pc \in {"update", "data"}
      <4>1. Selected # {}
        BY <3>2 DEF Window
      <4>2. PICK v \in RootVol \cap Volumes : ubi[v].mtd = env.root
        BY <4>1 DEF Selected
      <4>3. job.vol \in Selected /\ job.pc \in {"update", "data"}
        BY <3>2, <4>2 DEF Selected
      <4> QED BY <3>2, <4>3 DEF Window
    <3> QED BY <3>1, <3>2 DEF IInv, Kept, RootKept
  <2> QED BY <2>1, <2>2 DEF Boots
<1> QED BY <1>1, Inductive, PTL

\* A call that exits with 0 has written the image and told the boot loader of
\* it, for any images, failures and moments of a loss of power, unless it is one
\* of those that end "silent".
THEOREM OkIsAlwaysWritten == Spec => OkIsWritten
<1> DEFINE Good == /\ ubi'[job.vol].data = job.img
                   /\ job.part = "kernel" => env'.size = job.img
                   /\ job.part = "rootfs" => env'.root = ubi'[job.vol].mtd
<1>1. IInv /\ [Next]_vars => [job.pc # "idle" /\ job'.pc = "idle" /\ last'[job.part] = "ok" => Good]_vars
  <2> SUFFICES ASSUME IInv, Next, job.pc # "idle", job'.pc = "idle", last'[job.part] = "ok"
               PROVE  Good
    OBVIOUS
  <2>0. job \in JobState /\ ubi \in Disk /\ job.part \in Parts /\ last \in [Parts -> Ending]
        /\ env \in [size : Images, root : 0 .. 5]
    BY Types DEF IInv, Kept, Path
  <2>1. CASE StartStep
    <3>1. job'.pc # "idle"
      BY <2>1, StartMoves DEF IInv, Kept
    <3> QED BY <3>1
  <2>2. CASE Remove \/ Create \/ UpdateStart
    <3>1. \E pc \in PC \ {"idle"} : Goto(pc)
      BY <2>2 DEF Remove, Create, UpdateStart, PC
    <3> QED BY <2>0, <3>1, JobMoves
  <2>3. CASE UpdateDone
    <3>1. job.part \notin {"kernel", "rootfs"}
      BY <2>0, <2>3, JobMoves DEF UpdateDone, PC
    <3> QED BY <2>0, <2>3, <3>1 DEF UpdateDone, Disk, VolState, JobState
  <2>4. ASSUME NEW how \in {"failed", "silent"}, End(how) PROVE FALSE
    BY <2>0, <2>4, JobMoves DEF Ending
  <2>5. CASE UpdateFails \/ Restart
    BY <2>4, <2>5 DEF UpdateFails, Restart
  <2>6. CASE SetKernelSize
    <3>1. env' = [env EXCEPT !.size = job.img] /\ UNCHANGED ubi
      BY <2>4, <2>6 DEF SetKernelSize
    <3> QED BY <2>0, <2>6, <3>1 DEF SetKernelSize, IInv, Kept, Path
  <2>7. CASE SelectRoot
    <3>1. env' = [env EXCEPT !.root = ubi[job.vol].mtd] /\ UNCHANGED ubi /\ job.pc = "select"
      BY <2>4, <2>7 DEF SelectRoot
    <3> QED BY <2>0, <3>1 DEF IInv, Kept, Path
  <2> QED BY <2>1, <2>2, <2>3, <2>5, <2>6, <2>7 DEF Next, StartStep
<1> QED BY <1>1, Inductive, PTL DEF Spec, OkIsWritten
=============================================================================
