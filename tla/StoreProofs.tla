--------------------------- MODULE StoreProofs ------------------------------
(***************************************************************************)
(* Theorems about the files the daemon keeps: a file that a phone sent is  *)
(* there in full, the machine keeps its id wherever a start or a renewal   *)
(* was interrupted, and a stored certificate is the one of the stored      *)
(* fingerprint.                                                            *)
(***************************************************************************)
EXTENDS CertStore, Share, TLAPS

-----------------------------------------------------------------------------
(* Files that phones send (plugins/share.rs).                              *)

ShRequest == [kind : {"known", "stream", "text"}, size : Nat, total : Nat]
ShJobType == [pc : {"idle", "create", "connect", "copy"}, dev : ShDevices \cup {"none"},
              name : ShNames \cup {"none"}, copy : Nat, req : Nat, got : Nat]
ShEntry == [req : Nat, file : ShFiles]
ShDiskType == [ShFiles -> [by : Nat, bytes : Nat]]

\* A job on its own: it has a request, and from create_new on one file that holds what
\* the job has read, and no other.
ShGood(job, disk, seen) ==
    /\ job \in ShJobType
    /\ job.pc = "idle" => job.req = 0
    /\ job.pc # "idle" => /\ job.req \in 1..Len(seen) /\ <<job.name, job.copy>> \in ShFiles
                          /\ job.got <= ShLimit(seen[job.req]) /\ job.got <= seen[job.req].total
    /\ job.pc = "create" => job.got = 0 /\ \A f \in ShFiles : disk[f].by # job.req
    /\ job.pc \in {"connect", "copy"} =>
         /\ disk[<<job.name, job.copy>>] = [by |-> job.req, bytes |-> job.got]
         /\ \A f \in ShFiles : f # <<job.name, job.copy>> => disk[f].by # job.req

ShSize(r) == IF r.kind = "known" THEN r.size ELSE r.total

\* A file is absent, or somebody's, or whole.
ShKept(entry, seen, held) ==
    /\ entry.by \in 0..Len(seen)
    /\ entry.by = 0 => entry = ShAbsent
    /\ entry.by # 0 /\ entry.by \notin held => entry.bytes = ShSize(seen[entry.by])

ShHeld(jobs) == {jobs[j].req : j \in ShJobs}

ShTypes ==
    /\ shSeen \in Seq(ShRequest) /\ shDisk \in ShDiskType
    /\ shLog \in Seq(ShEntry)
    /\ shJob \in [ShJobs -> ShJobType]
ShJobsGood == \A j \in ShJobs : ShGood(shJob[j], shDisk, shSeen)
ShApart == \A i, j \in ShJobs : i # j /\ shJob[i].req # 0 => shJob[i].req # shJob[j].req
ShDiskGood == \A f \in ShFiles : ShKept(shDisk[f], shSeen, ShHeld(shJob))
ShLogGood == \A i \in 1..Len(shLog) :
    /\ shLog[i].req # 0 /\ shDisk[shLog[i].file].by = shLog[i].req
    /\ shLog[i].req \notin ShHeld(shJob)

ShareInv == ShTypes /\ ShJobsGood /\ ShApart /\ ShDiskGood /\ ShLogGood

\* A request more changes nothing of the earlier ones.
LEMMA GoodOneMore ==
    ASSUME NEW seen \in Seq(ShRequest), NEW r \in ShRequest, NEW disk, NEW job, ShGood(job, disk, seen)
    PROVE  ShGood(job, disk, Append(seen, r))
<1>1. Len(Append(seen, r)) = Len(seen) + 1 /\ \A k \in 1..Len(seen) : Append(seen, r)[k] = seen[k]
  OBVIOUS
<1>2. Len(seen) \in Nat
  OBVIOUS
<1>3. CASE job.pc = "idle"
  BY <1>3, Zenon DEF ShGood
<1>4. CASE job.pc # "idle"
  <2>1. job.req \in 1..Len(seen)
    BY <1>4, Zenon DEF ShGood
  <2>2. job.req \in 1..Len(Append(seen, r)) /\ Append(seen, r)[job.req] = seen[job.req]
    BY <1>1, <1>2, <2>1
  <2> QED BY <1>4, <2>2, Zenon DEF ShGood
<1> QED BY <1>3, <1>4, Zenon

\* A job does not mind what becomes of a file that is not its own.
LEMMA GoodElsewhere ==
    ASSUME NEW seen, NEW disk \in ShDiskType, NEW job, ShGood(job, disk, seen),
           NEW f \in ShFiles, NEW entry, job.req # 0 => disk[f].by # job.req /\ entry.by # job.req
    PROVE  ShGood(job, [disk EXCEPT ![f] = entry], seen)
<1> DEFINE after == [disk EXCEPT ![f] = entry]
<1>1. after[f] = entry /\ \A g \in ShFiles : g # f => after[g] = disk[g]
  BY Zenon DEF ShDiskType
<1>2. CASE job.pc = "idle"
  BY <1>2, Zenon DEF ShGood
<1>3. CASE job.pc = "create"
  <2>1. job.req # 0
    BY <1>3 DEF ShGood
  <2> HIDE DEF after
  <2>2. \A g \in ShFiles : after[g].by # job.req
    BY <1>1, <1>3, <2>1, Zenon DEF ShGood
  <2> QED BY <1>3, <2>2 DEF ShGood
<1>4. CASE job.pc \in {"connect", "copy"}
  <2> DEFINE own == <<job.name, job.copy>>
  <2>1. job.req # 0 /\ own \in ShFiles /\ disk[own].by = job.req
    BY <1>4 DEF ShGood
  <2> HIDE DEF after
  <2>2. own # f
    BY <2>1, Zenon
  <2>3. after[own] = disk[own] /\ \A g \in ShFiles : g # own => after[g].by # job.req
    BY <1>1, <1>4, <2>1, <2>2, Zenon DEF ShGood
  <2> QED BY <1>4, <2>3 DEF ShGood
<1>5. job.pc \in {"idle", "create", "connect", "copy"}
  BY Zenon DEF ShGood, ShJobType
<1> QED BY <1>2, <1>3, <1>4, <1>5, Zenon

\* The same of the files.
LEMMA KeptOneMore ==
    ASSUME NEW seen \in Seq(ShRequest), NEW r \in ShRequest, NEW entry, NEW held, NEW more,
           ShKept(entry, seen, held), entry.by # 0 /\ entry.by \in held => entry.by \in more
    PROVE  ShKept(entry, Append(seen, r), more)
<1>1. Len(Append(seen, r)) = Len(seen) + 1 /\ \A k \in 1..Len(seen) : Append(seen, r)[k] = seen[k]
  OBVIOUS
<1>2. Len(seen) \in Nat
  OBVIOUS
<1>3. entry.by # 0 => Append(seen, r)[entry.by] = seen[entry.by]
  BY <1>1, <1>2 DEF ShKept
<1> QED BY <1>1, <1>2, <1>3 DEF ShKept

\* Another job's request is held as before when a job takes a new one or gives up its own.
LEMMA HeldApart ==
    ASSUME NEW jobs, NEW after, NEW j \in ShJobs, \A i \in ShJobs : i # j => after[i] = jobs[i], NEW b,
           b # jobs[j].req
    PROVE  /\ b \in ShHeld(jobs) => b \in ShHeld(after)
           /\ b # after[j].req => (b \in ShHeld(after) => b \in ShHeld(jobs))
  BY Zenon DEF ShHeld

\* The log names files.
LEMMA LoggedFile ==
    ASSUME ShareInv, NEW i \in 1..Len(shLog)
    PROVE  shLog[i].file \in ShFiles
<1>1. shLog \in Seq(ShEntry)
  BY Zenon DEF ShareInv, ShTypes
<1>2. shLog[i] \in ShEntry
  BY <1>1
<1> QED BY <1>2, Zenon DEF ShEntry

\* A request is numbered, and a free job takes it.
LEMMA BeginShares ==
    ASSUME ShareInv, NEW j \in ShJobs, NEW d \in ShDevices, NEW name \in ShNames,
           NEW kind \in {"known", "stream", "text"}, NEW size \in Nat, NEW total \in Nat,
           shJob[j].pc = "idle", ShBegin(j, d, name, kind, size, total), UNCHANGED <<shDisk, shLog>>
    PROVE  ShareInv'
<1> DEFINE n == Len(shSeen)
           r == [kind |-> kind, size |-> size, total |-> total]
           job == [pc |-> "create", dev |-> d, name |-> name, copy |-> 0, req |-> n + 1, got |-> 0]
<1>0. shSeen \in Seq(ShRequest) /\ r \in ShRequest /\ n \in Nat /\ shJob \in [ShJobs -> ShJobType]
  BY DEF ShareInv, ShTypes, ShRequest
<1>1. shSeen' = Append(shSeen, r) /\ shJob' = [shJob EXCEPT ![j] = job]
  BY Zenon DEF ShBegin
<1>2. shSeen' \in Seq(ShRequest) /\ Len(shSeen') = n + 1 /\ shSeen'[n + 1] = r
  BY <1>0, <1>1
<1>3. shJob'[j] = job /\ \A i \in ShJobs : i # j => shJob'[i] = shJob[i]
  BY <1>0, <1>1, Zenon
<1>4. shJob[j].req = 0
  <2>1. ShGood(shJob[j], shDisk, shSeen)
    BY Zenon DEF ShareInv, ShJobsGood
  <2> QED BY <2>1, Zenon DEF ShGood
<1>5. \A i \in ShJobs : shJob[i].req \in 0..n
  <2> TAKE i \in ShJobs
  <2>1. ShGood(shJob[i], shDisk, shSeen)
    BY Zenon DEF ShareInv, ShJobsGood
  <2> QED BY <1>0, <2>1 DEF ShGood
<1>6. \A f \in ShFiles : shDisk[f].by \in 0..n
  BY Zenon DEF ShareInv, ShDiskGood, ShKept
<1>7. job \in ShJobType
  BY <1>0 DEF ShJobType
<1>8. ShTypes'
  BY <1>0, <1>1, <1>2, <1>7, Zenon DEF ShareInv, ShTypes
<1>9. ShGood(job, shDisk, shSeen')
  <2>1. <<name, 0>> \in ShFiles
    BY ShAssumption DEF ShFiles
  <2>2. 0 <= ShLimit(r) /\ 0 <= r.total
    BY ShAssumption DEF ShLimit
  <2>3. \A f \in ShFiles : shDisk[f].by # n + 1
    BY <1>0, <1>6
  <2> QED BY <1>0, <1>2, <1>7, <2>1, <2>2, <2>3 DEF ShGood
<1>10. ShJobsGood'
  <2>1. ASSUME NEW i \in ShJobs PROVE ShGood(shJob'[i], shDisk', shSeen')
    <3>1. CASE i = j
      BY <1>3, <1>9, <3>1, Zenon
    <3>2. CASE i # j
      BY <1>0, <1>1, <1>3, <3>2, GoodOneMore, Zenon DEF ShareInv, ShJobsGood
    <3> QED BY <3>1, <3>2, Zenon
  <2> QED BY <2>1, Zenon DEF ShJobsGood
<1>11. ShApart'
  BY <1>0, <1>3, <1>4, <1>5 DEF ShareInv, ShApart
<1>12. ShDiskGood'
  <2>1. ASSUME NEW f \in ShFiles PROVE ShKept(shDisk'[f], shSeen', ShHeld(shJob'))
    <3>1. shDisk[f].by # 0 /\ shDisk[f].by \in ShHeld(shJob) => shDisk[f].by \in ShHeld(shJob')
      BY <1>3, <1>4, HeldApart, ZenonT(30)
    <3>2. ShKept(shDisk[f], shSeen, ShHeld(shJob))
      BY Zenon DEF ShareInv, ShDiskGood
    <3> QED BY <1>0, <1>1, <3>1, <3>2, KeptOneMore, Zenon
  <2> QED BY <2>1, Zenon DEF ShDiskGood
<1>13. ShLogGood'
  <2>1. ASSUME NEW i \in 1..Len(shLog) PROVE shLog[i].req \notin ShHeld(shJob')
    <3>1. shLog[i].file \in ShFiles
      BY LoggedFile, Zenon
    <3>2. shLog[i].req \in 0..n /\ shLog[i].req # 0 /\ shLog[i].req \notin ShHeld(shJob)
      BY <1>6, <3>1, Zenon DEF ShareInv, ShLogGood
    <3>3. shLog[i].req # shJob'[j].req
      BY <1>0, <1>3, <3>2
    <3> QED BY <1>3, <1>4, <3>2, <3>3, HeldApart, Zenon
  <2> QED BY <2>1, Zenon DEF ShareInv, ShLogGood
<1> QED BY <1>8, <1>10, <1>11, <1>12, <1>13, Zenon DEF ShareInv

\* A job that changes without a new request or an end, and its own file or none with it.
LEMMA WorkShares ==
    ASSUME ShareInv, NEW j \in ShJobs, NEW job, NEW f \in ShFiles, NEW entry \in [by : Nat, bytes : Nat],
           shJob[j].pc # "idle", shJob' = [shJob EXCEPT ![j] = job], job.req = shJob[j].req,
           shDisk' = [shDisk EXCEPT ![f] = entry], entry.by = job.req,
           shDisk[f] = ShAbsent \/ shDisk[f].by = job.req,
           ShGood(job, shDisk', shSeen), UNCHANGED <<shLog, shSeen>>
    PROVE  ShareInv'
<1>0. shJob \in [ShJobs -> ShJobType] /\ shDisk \in ShDiskType /\ job \in ShJobType
  BY Zenon DEF ShareInv, ShTypes, ShGood
<1>1. shJob'[j] = job /\ \A i \in ShJobs : i # j => shJob'[i] = shJob[i]
  BY <1>0, Zenon
<1>2. shDisk'[f] = entry /\ \A g \in ShFiles : g # f => shDisk'[g] = shDisk[g]
  BY <1>0, Zenon DEF ShDiskType
<1>3. job.req \in 1..Len(shSeen)
  <2>1. ShGood(shJob[j], shDisk, shSeen)
    BY Zenon DEF ShareInv, ShJobsGood
  <2> QED BY <2>1, Zenon DEF ShGood
<1>4. ShTypes'
  BY <1>0, Zenon DEF ShareInv, ShTypes, ShDiskType
<1>5. ShApart'
  BY <1>1 DEF ShareInv, ShApart
<1>6. ShHeld(shJob') = ShHeld(shJob)
  BY <1>1 DEF ShHeld
<1>7. ShJobsGood'
  <2>1. ASSUME NEW i \in ShJobs, i # j PROVE ShGood(shJob[i], shDisk', shSeen)
    <3>1. shJob[i].req # 0 => shJob[i].req # job.req
      BY <2>1, Zenon DEF ShareInv, ShApart
    <3>2. shJob[i].req # 0 => shDisk[f].by # shJob[i].req /\ entry.by # shJob[i].req
      BY <3>1 DEF ShAbsent
    <3>3. ShGood(shJob[i], shDisk, shSeen)
      BY Zenon DEF ShareInv, ShJobsGood
    <3> QED BY <1>0, <3>2, <3>3, GoodElsewhere, Zenon
  <2> QED BY <1>1, <2>1, Zenon DEF ShJobsGood
<1>8. ShDiskGood'
  <2>1. job.req \in ShHeld(shJob)
    BY Zenon DEF ShHeld
  <2>2. ShKept(entry, shSeen, ShHeld(shJob))
    BY <1>3, <2>1 DEF ShKept
  <2> QED BY <1>2, <1>6, <2>2, Zenon DEF ShareInv, ShDiskGood
<1>9. ShLogGood'
  <2>1. job.req \in ShHeld(shJob)
    BY Zenon DEF ShHeld
  <2>2. ASSUME NEW i \in 1..Len(shLog) PROVE shDisk'[shLog[i].file].by = shLog[i].req
    <3>1. shLog[i].file \in ShFiles
      BY LoggedFile, Zenon
    <3>2. shLog[i].file # f
      BY <2>1 DEF ShareInv, ShLogGood, ShAbsent
    <3> QED BY <1>2, <3>1, <3>2, Zenon DEF ShareInv, ShLogGood
  <2> QED BY <1>6, <2>2, Zenon DEF ShareInv, ShLogGood
<1> QED BY <1>4, <1>5, <1>7, <1>8, <1>9, Zenon DEF ShareInv

\* A job ends: its file goes with it, or is whole and may be entered on the list.
LEMMA EndShares ==
    ASSUME ShareInv, NEW j \in ShJobs, shJob[j].pc # "idle",
           shJob' = [shJob EXCEPT ![j] = ShIdle], UNCHANGED shSeen,
           NEW f \in ShFiles, NEW entry \in [by : Nat, bytes : Nat],
           shDisk' = [shDisk EXCEPT ![f] = entry],
           entry = shDisk[f] \/ (entry = ShAbsent /\ shDisk[f].by = shJob[j].req),
           \A g \in ShFiles : shDisk'[g].by = shJob[j].req =>
              shDisk'[g].bytes = ShSize(shSeen[shJob[j].req]),
           shLog' \in Seq(ShEntry),
           \A i \in 1..Len(shLog') :
              \/ \E k \in 1..Len(shLog) : shLog'[i] = shLog[k]
              \/ shLog'[i].req = shJob[j].req /\ shDisk'[shLog'[i].file].by = shJob[j].req
    PROVE  ShareInv'
<1>0. shJob \in [ShJobs -> ShJobType] /\ shDisk \in ShDiskType
  BY Zenon DEF ShareInv, ShTypes
<1>1. shJob'[j] = ShIdle /\ \A i \in ShJobs : i # j => shJob'[i] = shJob[i]
  BY <1>0, Zenon
<1>2. shDisk'[f] = entry /\ \A g \in ShFiles : g # f => shDisk'[g] = shDisk[g]
  BY <1>0, Zenon DEF ShDiskType
<1>3. shJob[j].req # 0
  <2>1. ShGood(shJob[j], shDisk, shSeen)
    BY Zenon DEF ShareInv, ShJobsGood
  <2> QED BY <2>1 DEF ShGood
<1>4. ShIdle \in ShJobType
  BY Zenon DEF ShIdle, ShJobType
<1>5. ShTypes'
  BY <1>0, <1>4, Zenon DEF ShareInv, ShTypes, ShDiskType
<1>6. ShIdle.req = 0 /\ ShIdle.pc = "idle" /\ ShAbsent.by = 0
  BY Zenon DEF ShIdle, ShAbsent
<1>7. \A i \in ShJobs : i # j => shJob[i].req # shJob[j].req
  BY <1>3, Zenon DEF ShareInv, ShApart
<1>8. ShApart'
  BY <1>1, <1>6 DEF ShareInv, ShApart
<1>9. shJob[j].req \notin ShHeld(shJob')
  BY <1>1, <1>3, <1>6, <1>7 DEF ShHeld
<1>10. ShJobsGood'
  <2>1. ASSUME NEW i \in ShJobs, i # j PROVE ShGood(shJob[i], shDisk', shSeen)
    <3>1. ShGood(shJob[i], shDisk, shSeen)
      BY Zenon DEF ShareInv, ShJobsGood
    <3>2. CASE entry = shDisk[f]
      <4>1. shDisk' = shDisk
        BY <1>0, <3>2, Zenon DEF ShDiskType
      <4> QED BY <3>1, <4>1, Zenon
    <3>3. CASE entry = ShAbsent /\ shDisk[f].by = shJob[j].req
      <4>1. shJob[i].req # 0 => shDisk[f].by # shJob[i].req /\ entry.by # shJob[i].req
        BY <1>6, <1>7, <2>1, <3>3, Zenon
      <4> QED BY <1>0, <3>1, <4>1, GoodElsewhere, Zenon
    <3> QED BY <3>2, <3>3, Zenon
  <2>2. ShGood(ShIdle, shDisk', shSeen)
    BY <1>4, <1>6, Zenon DEF ShGood
  <2> QED BY <1>1, <2>1, <2>2, Zenon DEF ShJobsGood
<1>11. ShDiskGood'
  <2>1. ASSUME NEW g \in ShFiles PROVE ShKept(shDisk'[g], shSeen, ShHeld(shJob'))
    <3>0. ShKept(shDisk[g], shSeen, ShHeld(shJob))
      BY Zenon DEF ShareInv, ShDiskGood
    <3>1. CASE shDisk'[g] = ShAbsent
      <4>1. Len(shSeen) \in Nat
        BY DEF ShareInv, ShTypes
      <4> QED BY <1>6, <3>1, <4>1 DEF ShKept
    <3>2. CASE shDisk'[g] = shDisk[g]
      <4>1. CASE shDisk[g].by = shJob[j].req
        BY <3>0, <3>2, <4>1, Zenon DEF ShKept
      <4>2. CASE shDisk[g].by # shJob[j].req
        <5>1. shDisk[g].by \in ShHeld(shJob) => shDisk[g].by \in ShHeld(shJob')
          BY <1>1, <4>2 DEF ShHeld
        <5> QED BY <3>0, <3>2, <5>1, Zenon DEF ShKept
      <4> QED BY <4>1, <4>2, Zenon
    <3> QED BY <1>2, <3>1, <3>2, Zenon
  <2> QED BY <2>1, Zenon DEF ShDiskGood
<1>12. ShLogGood'
  <2>1. ASSUME NEW i \in 1..Len(shLog')
        PROVE  /\ shLog'[i].req # 0 /\ shDisk'[shLog'[i].file].by = shLog'[i].req
               /\ shLog'[i].req \notin ShHeld(shJob')
    <3>1. CASE shLog'[i].req = shJob[j].req /\ shDisk'[shLog'[i].file].by = shJob[j].req
      BY <1>3, <1>9, <3>1, Zenon
    <3>2. ASSUME NEW k \in 1..Len(shLog), shLog'[i] = shLog[k]
          PROVE  /\ shLog[k].req # 0 /\ shDisk'[shLog[k].file].by = shLog[k].req
                 /\ shLog[k].req \notin ShHeld(shJob')
      <4>1. shLog[k].file \in ShFiles
        BY LoggedFile, Zenon
      <4>2. /\ shLog[k].req # 0 /\ shDisk[shLog[k].file].by = shLog[k].req
            /\ shLog[k].req \notin ShHeld(shJob)
        BY Zenon DEF ShareInv, ShLogGood
      <4>3. shLog[k].req # shJob[j].req
        BY <4>2, Zenon DEF ShHeld
      <4>4. shLog[k].req \notin ShHeld(shJob')
        BY <1>1, <1>6, <4>2, <4>3 DEF ShHeld
      <4>5. shDisk'[shLog[k].file] = shDisk[shLog[k].file]
        BY <1>2, <4>1, <4>2, <4>3, Zenon
      <4> QED BY <4>2, <4>4, <4>5, Zenon
    <3> QED BY <3>1, <3>2, Zenon
  <2> QED BY <2>1, Zenon DEF ShLogGood
<1> QED BY <1>5, <1>8, <1>10, <1>11, <1>12, Zenon DEF ShareInv

\* create_new takes a candidate that is free, or the next one is tried.
LEMMA CreateShares ==
    ASSUME ShareInv, NEW j \in ShJobs, ShCreate(j)
    PROVE  ShareInv'
<1>0. PICK job : job = shJob[j]
  BY Zenon
<1>1. PICK f : f = <<job.name, job.copy>>
  BY Zenon
<1>2. ShGood(job, shDisk, shSeen) /\ job \in ShJobType /\ job.pc = "create"
  BY <1>0, Zenon DEF ShareInv, ShJobsGood, ShTypes, ShCreate
<1>3. f \in ShFiles /\ f = ShFile(j) /\ job.req \in 1..Len(shSeen)
  BY <1>0, <1>1, <1>2, Zenon DEF ShGood, ShFile
<1>4. shJob \in [ShJobs -> ShJobType] /\ shDisk \in ShDiskType
  BY Zenon DEF ShareInv, ShTypes
<1>5. CASE shDisk[f] = ShAbsent
  <2>1. PICK pc \in {"copy", "connect"} : shJob' = [shJob EXCEPT ![j].pc = pc]
    BY <1>3, <1>5, Zenon DEF ShCreate
  <2> DEFINE entry == [by |-> job.req, bytes |-> 0]
             next == [job EXCEPT !.pc = pc]
  <2>2. shDisk' = [shDisk EXCEPT ![f] = entry] /\ UNCHANGED <<shLog, shSeen>>
    BY <1>0, <1>3, <1>5, Zenon DEF ShCreate
  <2>3. shJob' = [shJob EXCEPT ![j] = next]
    BY <1>0, <1>4, <2>1, Zenon
  <2>4. next \in ShJobType /\ next.pc = pc /\ next.name = job.name /\ next.copy = job.copy
        /\ next.req = job.req /\ next.got = job.got
    BY <1>2, Zenon DEF ShJobType
  <2>5. entry \in [by : Nat, bytes : Nat]
    BY <1>2, Zenon DEF ShJobType
  <2>6. shDisk'[f] = entry /\ \A g \in ShFiles : g # f => shDisk'[g] = shDisk[g]
    BY <1>3, <1>4, <2>2, Zenon DEF ShDiskType
  <2>7. ShGood(next, shDisk', shSeen)
    <3> HIDE DEF next
    <3>1. job.got = 0 /\ \A g \in ShFiles : shDisk[g].by # job.req
      BY <1>2, Zenon DEF ShGood
    <3> QED BY <1>1, <1>2, <1>3, <2>4, <2>6, <3>1, Zenon DEF ShGood
  <2> HIDE DEF next
  <2> QED BY <1>0, <1>2, <1>3, <1>5, <2>2, <2>3, <2>4, <2>5, <2>7, WorkShares, Zenon
<1>6. CASE shDisk[f] # ShAbsent
  <2>1. UNCHANGED <<shDisk, shLog, shSeen>>
    BY <1>3, <1>6, Zenon DEF ShCreate
  <2>2. CASE job.copy + 1 < ShCopies
    <3> DEFINE next == [job EXCEPT !.copy = job.copy + 1]
    <3>1. shJob' = [shJob EXCEPT ![j] = next]
      BY <1>0, <1>3, <1>4, <1>6, <2>2, Zenon DEF ShCreate
    <3>2. next \in ShJobType /\ next.pc = job.pc /\ next.name = job.name /\ next.copy = job.copy + 1
          /\ next.req = job.req /\ next.got = job.got
      BY <1>2 DEF ShJobType
    <3>3. <<next.name, next.copy>> \in ShFiles
      <4>1. job.name \in ShNames /\ job.copy + 1 \in 0..ShCopies - 1
        BY <1>1, <1>2, <1>3, <2>2, ShAssumption DEF ShFiles, ShJobType
      <4> QED BY <3>2, <4>1 DEF ShFiles
    <3> HIDE DEF next
    <3>4. ShGood(next, shDisk, shSeen)
      BY <1>2, <3>2, <3>3, Zenon DEF ShGood
    <3>5. shJob'[j] = next /\ \A i \in ShJobs : i # j => shJob'[i] = shJob[i]
      BY <1>4, <3>1, Zenon
    <3>6. ShTypes'
      BY <1>4, <2>1, <3>1, <3>2, Zenon DEF ShareInv, ShTypes
    <3>7. ShHeld(shJob') = ShHeld(shJob)
      BY <1>0, <3>2, <3>5, Zenon DEF ShHeld
    <3>8. ShJobsGood'
      BY <2>1, <3>4, <3>5, Zenon DEF ShareInv, ShJobsGood
    <3>9. ShApart'
      BY <1>0, <3>2, <3>5 DEF ShareInv, ShApart
    <3>10. ShDiskGood' /\ ShLogGood'
      BY <2>1, <3>7, Zenon DEF ShareInv, ShDiskGood, ShLogGood
    <3> QED BY <3>6, <3>8, <3>9, <3>10, Zenon DEF ShareInv
  <2>3. CASE ~(job.copy + 1 < ShCopies)
    <3>1. shJob' = [shJob EXCEPT ![j] = ShIdle]
      BY <1>0, <1>3, <1>6, <2>3, Zenon DEF ShCreate
    <3>2. PICK entry : entry = shDisk[f]
      BY Zenon
    <3>3. entry \in [by : Nat, bytes : Nat] /\ shDisk' = [shDisk EXCEPT ![f] = entry]
      BY <1>3, <1>4, <2>1, <3>2, Zenon DEF ShDiskType
    <3>4. \A g \in ShFiles : shDisk'[g].by # shJob[j].req
      BY <1>0, <1>2, <2>1, Zenon DEF ShGood
    <3>5. shLog' \in Seq(ShEntry)
      BY <2>1, Zenon DEF ShareInv, ShTypes
    <3>6. \A i \in 1..Len(shLog') : \E k \in 1..Len(shLog) : shLog'[i] = shLog[k]
      BY <2>1, Zenon
    <3>7. shJob[j].pc # "idle" /\ UNCHANGED shSeen
      BY <1>0, <1>2, <2>1, Zenon
    <3> QED BY <1>3, <3>1, <3>2, <3>3, <3>4, <3>5, <3>6, <3>7, EndShares, Zenon
  <2> QED BY <2>2, <2>3, Zenon
<1> QED BY <1>5, <1>6, Zenon

\* The reader takes a unit, which is written to the job's own file.
LEMMA CopyShares ==
    ASSUME ShareInv, NEW j \in ShJobs, ShCopy(j)
    PROVE  ShareInv'
<1>0. PICK job : job = shJob[j]
  BY Zenon
<1>1. PICK f : f = <<job.name, job.copy>>
  BY Zenon
<1>2. ShGood(job, shDisk, shSeen) /\ job \in ShJobType /\ job.pc = "copy"
  BY <1>0, Zenon DEF ShareInv, ShJobsGood, ShTypes, ShCopy
<1>3. f \in ShFiles /\ f = ShFile(j) /\ shDisk[f] = [by |-> job.req, bytes |-> job.got]
  BY <1>0, <1>1, <1>2, Zenon DEF ShGood, ShFile
<1>4. shJob \in [ShJobs -> ShJobType] /\ shDisk \in ShDiskType
  BY Zenon DEF ShareInv, ShTypes
<1>5. job.req \in Nat /\ job.got \in Nat
  BY <1>2, Zenon DEF ShJobType
<1> DEFINE entry == [by |-> job.req, bytes |-> job.got + 1]
           next == [job EXCEPT !.got = job.got + 1]
<1>6. shJob' = [shJob EXCEPT ![j] = next]
  BY <1>0, <1>4, Zenon DEF ShCopy
<1>7. shDisk' = [shDisk EXCEPT ![f] = entry]
  <2>1. shDisk' = [shDisk EXCEPT ![f].bytes = @ + 1]
    BY <1>3, Zenon DEF ShCopy
  <2>2. [shDisk[f] EXCEPT !.bytes = shDisk[f].bytes + 1] = entry
    BY <1>3, <1>5
  <2>3. shDisk' = [shDisk EXCEPT ![f] = [shDisk[f] EXCEPT !.bytes = shDisk[f].bytes + 1]]
    BY <2>1, Zenon
  <2> QED BY <2>2, <2>3, Zenon
<1>8. next \in ShJobType /\ next.pc = "copy" /\ next.name = job.name /\ next.copy = job.copy
      /\ next.req = job.req /\ next.got = job.got + 1
  BY <1>2, <1>5 DEF ShJobType
<1>9. entry \in [by : Nat, bytes : Nat]
  BY <1>5
<1>10. shDisk'[f] = entry /\ \A g \in ShFiles : g # f => shDisk'[g] = shDisk[g]
  BY <1>3, <1>4, <1>7, Zenon DEF ShDiskType
<1> HIDE DEF next
<1>11. ShGood(next, shDisk', shSeen)
  <2>1. job.got + 1 <= ShLimit(shSeen[job.req]) /\ job.got + 1 <= shSeen[job.req].total
    <3>1. shSeen[job.req] \in ShRequest
      BY <1>2 DEF ShareInv, ShTypes, ShGood
    <3>2. ShLimit(shSeen[job.req]) \in Nat /\ shSeen[job.req].total \in Nat
      BY <3>1, ShAssumption DEF ShLimit, ShRequest
    <3> QED BY <1>0, <1>5, <3>2 DEF ShCopy, ShReq
  <2>2. job.req \in 1..Len(shSeen) /\ \A g \in ShFiles : g # f => shDisk[g].by # job.req
    BY <1>1, <1>2, Zenon DEF ShGood
  <2> QED BY <1>1, <1>3, <1>8, <1>10, <2>1, <2>2, Zenon DEF ShGood
<1>12. UNCHANGED <<shLog, shSeen>>
  BY Zenon DEF ShCopy
<1> HIDE DEF entry
<1>13. entry.by = job.req /\ shDisk[f].by = job.req
  BY <1>3 DEF entry
<1> QED BY <1>0, <1>2, <1>3, <1>6, <1>7, <1>8, <1>9, <1>11, <1>12, <1>13, WorkShares, Zenon

\* The connection of a job is up.
LEMMA ConnectShares ==
    ASSUME ShareInv, NEW j \in ShJobs, ShConnect(j)
    PROVE  ShareInv'
<1>0. PICK job : job = shJob[j]
  BY Zenon
<1>1. PICK f : f = <<job.name, job.copy>>
  BY Zenon
<1>2. ShGood(job, shDisk, shSeen) /\ job \in ShJobType /\ job.pc = "connect"
  BY <1>0, Zenon DEF ShareInv, ShJobsGood, ShTypes, ShConnect
<1>3. f \in ShFiles /\ shDisk[f] = [by |-> job.req, bytes |-> job.got]
  BY <1>1, <1>2, Zenon DEF ShGood
<1>4. shJob \in [ShJobs -> ShJobType] /\ shDisk \in ShDiskType
  BY Zenon DEF ShareInv, ShTypes
<1> DEFINE next == [job EXCEPT !.pc = "copy"]
<1>5. shJob' = [shJob EXCEPT ![j] = next] /\ UNCHANGED <<shDisk, shLog, shSeen>>
  BY <1>0, <1>4, Zenon DEF ShConnect
<1>6. next \in ShJobType /\ next.pc = "copy" /\ next.name = job.name /\ next.copy = job.copy
      /\ next.req = job.req /\ next.got = job.got
  BY <1>2, Zenon DEF ShJobType
<1> HIDE DEF next
<1>7. ShGood(next, shDisk', shSeen)
  BY <1>1, <1>2, <1>5, <1>6, Zenon DEF ShGood
<1>8. PICK entry : entry = shDisk[f]
  BY Zenon
<1>9. entry \in [by : Nat, bytes : Nat] /\ shDisk' = [shDisk EXCEPT ![f] = entry]
      /\ entry.by = job.req /\ shDisk[f].by = job.req
  BY <1>3, <1>4, <1>5, <1>8 DEF ShDiskType
<1>10. shJob[j].pc # "idle" /\ next.req = shJob[j].req /\ entry.by = next.req /\ shDisk[f].by = next.req
  BY <1>0, <1>2, <1>6, <1>9, Zenon
<1>11. f \in ShFiles
  BY <1>3, Zenon
<1> QED BY <1>5, <1>7, <1>9, <1>10, <1>11, WorkShares, ZenonT(30)

\* A failure takes the file, and no other.
LEMMA DiscardShares ==
    ASSUME ShareInv, NEW j \in ShJobs, shJob[j].pc \in {"connect", "copy"}, ShDiscard(j),
           shJob' = [shJob EXCEPT ![j] = ShIdle], UNCHANGED shSeen
    PROVE  ShareInv'
<1>1. PICK f : f = ShFile(j)
  BY Zenon
<1>2. ShGood(shJob[j], shDisk, shSeen) /\ shDisk \in ShDiskType
  BY Zenon DEF ShareInv, ShJobsGood, ShTypes
<1>3. /\ f \in ShFiles /\ shDisk[f].by = shJob[j].req /\ shJob[j].req # 0
      /\ \A g \in ShFiles : g # f => shDisk[g].by # shJob[j].req
  BY <1>1, <1>2 DEF ShGood, ShFile
<1>4. shDisk' = [shDisk EXCEPT ![f] = ShAbsent] /\ UNCHANGED shLog
  BY <1>1, Zenon DEF ShDiscard
<1>5. ShAbsent \in [by : Nat, bytes : Nat] /\ ShAbsent.by = 0
  BY Zenon DEF ShAbsent
<1>6. \A g \in ShFiles : shDisk'[g].by # shJob[j].req
  BY <1>2, <1>3, <1>4, <1>5, Zenon DEF ShDiskType
<1>7. shLog' \in Seq(ShEntry)
  BY <1>4, Zenon DEF ShareInv, ShTypes
<1>8. \A i \in 1..Len(shLog') : \E k \in 1..Len(shLog) : shLog'[i] = shLog[k]
  BY <1>4, Zenon
<1> QED BY <1>3, <1>4, <1>5, <1>6, <1>7, <1>8, EndShares, Zenon

\* What a reader that came to its end accepts is whole: a declared size is reached and
\* not passed, a stream under the cap has ended.
LEMMA AcceptsWhole ==
    ASSUME NEW r \in ShRequest, NEW got \in Nat, got <= ShLimit(r), got <= r.total,
           got = ShLimit(r) \/ got = r.total, ShAccepts(r, got)
    PROVE  got = ShSize(r)
<1>1. CASE r.kind = "known"
  BY <1>1 DEF ShRequest, ShLimit, ShAccepts, ShSize
<1>2. CASE r.kind = "stream"
  BY <1>2, ShAssumption DEF ShRequest, ShLimit, ShAccepts, ShSize
<1>3. CASE r.kind = "text"
  BY <1>3, Zenon DEF ShRequest, ShLimit, ShSize
<1> QED BY <1>1, <1>2, <1>3, Zenon DEF ShRequest

\* The entries of a list are those of another, or a new one.
ShFrom(after, log, e) == \A i \in 1..Len(after) : after[i] = e \/ \E k \in 1..Len(log) : after[i] = log[k]

\* What a sequence with one more element at its end holds.
LEMMA OneAtTheEnd ==
    ASSUME NEW s \in Seq(ShEntry), NEW e \in ShEntry, NEW after, after = Append(s, e)
    PROVE  /\ after \in Seq(ShEntry)
           /\ ShFrom(after, s, e)
<1>1. after \in Seq(ShEntry) /\ Len(after) = Len(s) + 1 /\ Len(s) \in Nat
  OBVIOUS
<1>2. \A i \in 1..Len(s) : after[i] = s[i]
  OBVIOUS
<1>3. after[Len(s) + 1] = e
  OBVIOUS
<1>4. \A i \in 1..(Len(s) + 1) : i = Len(s) + 1 \/ i \in 1..Len(s)
  BY <1>1
<1> QED BY <1>1, <1>2, <1>3, <1>4, Zenon DEF ShFrom

\* The list of received files gets an entry at its end, and may lose its first.
LEMMA LogGrows ==
    ASSUME NEW log \in Seq(ShEntry), NEW e \in ShEntry, NEW after,
           after = Append(IF Len(log) >= ShLogCap THEN Tail(log) ELSE log, e)
    PROVE  /\ after \in Seq(ShEntry)
           /\ ShFrom(after, log, e)
<1>1. CASE Len(log) >= ShLogCap
  <2>1. Len(log) \in Nat /\ Len(log) # 0
    BY <1>1, ShAssumption
  <2>2. PICK s : s = Tail(log)
    BY Zenon
  <2>3. s \in Seq(ShEntry) /\ Len(s) = Len(log) - 1
    BY <2>1, <2>2
  <2>4. \A i \in 1..(Len(log) - 1) : s[i] = log[i + 1]
    BY <2>1, <2>2
  <2>5. \A i \in 1..Len(s) : \E k \in 1..Len(log) : s[i] = log[k]
    <3> TAKE i \in 1..Len(s)
    <3>1. i + 1 \in 1..Len(log) /\ s[i] = log[i + 1]
      BY <2>1, <2>3, <2>4
    <3> QED BY <3>1, Zenon
  <2>6. after = Append(s, e)
    BY <1>1, <2>2, Zenon
  <2>7. /\ after \in Seq(ShEntry)
        /\ ShFrom(after, s, e)
    BY <2>3, <2>6, OneAtTheEnd, Zenon
  <2> QED BY <2>5, <2>7 DEF ShFrom
<1>2. CASE ~(Len(log) >= ShLogCap)
  <2>1. after = Append(log, e)
    BY <1>2, Zenon
  <2> QED BY <2>1, OneAtTheEnd, Zenon
<1> QED BY <1>1, <1>2, Zenon

\* A reception that ends well leaves its file, whole, and enters it on the list.
LEMMA FinishShares ==
    ASSUME ShareInv, NEW j \in ShJobs, ShFinish(j)
    PROVE  ShareInv'
<1>0. shJob[j].pc = "copy" /\ shJob' = [shJob EXCEPT ![j] = ShIdle] /\ UNCHANGED shSeen
  BY Zenon DEF ShFinish
<1>1. CASE ~ShAccepts(ShReq(j), shJob[j].got)
  BY <1>0, <1>1, DiscardShares, Zenon DEF ShFinish
<1>2. CASE ShAccepts(ShReq(j), shJob[j].got)
  <2>1. PICK f : f = ShFile(j)
    BY Zenon
  <2>2. ShGood(shJob[j], shDisk, shSeen) /\ shDisk \in ShDiskType /\ shJob[j] \in ShJobType
    BY Zenon DEF ShareInv, ShJobsGood, ShTypes
  <2>3. /\ f \in ShFiles /\ shDisk[f] = [by |-> shJob[j].req, bytes |-> shJob[j].got]
        /\ \A g \in ShFiles : g # f => shDisk[g].by # shJob[j].req
        /\ shJob[j].req \in 1..Len(shSeen)
        /\ shJob[j].got <= ShLimit(ShReq(j)) /\ shJob[j].got <= ShReq(j).total
    BY <1>0, <2>1, <2>2, Zenon DEF ShGood, ShFile, ShReq
  <2>4. ShReq(j) \in ShRequest
    BY <2>3 DEF ShareInv, ShTypes, ShReq
  <2>5. shJob[j].got \in Nat /\ shJob[j].req \in Nat
    BY <2>2, Zenon DEF ShJobType
  <2>6. shJob[j].got = ShSize(ShReq(j))
    BY <1>2, <2>3, <2>4, <2>5, AcceptsWhole, ZenonT(30) DEF ShFinish
  <2> DEFINE e == [req |-> shJob[j].req, file |-> f]
  <2>7. shDisk' = shDisk /\ shLog' = Append(IF Len(shLog) >= ShLogCap THEN Tail(shLog) ELSE shLog, e)
    BY <1>2, <2>1, Zenon DEF ShFinish
  <2>8. e \in ShEntry /\ e.req = shJob[j].req /\ e.file = f
    BY <2>3, <2>5, Zenon DEF ShEntry
  <2> HIDE DEF e
  <2>9. shLog \in Seq(ShEntry)
    BY Zenon DEF ShareInv, ShTypes
  <2> HIDE DEF e
  <2>10. /\ shLog' \in Seq(ShEntry)
         /\ ShFrom(shLog', shLog, e)
    BY <2>7, <2>8, <2>9, LogGrows, ZenonT(30)
  <2>11. \A i \in 1..Len(shLog') :
            \/ \E k \in 1..Len(shLog) : shLog'[i] = shLog[k]
            \/ shLog'[i].req = shJob[j].req /\ shDisk'[shLog'[i].file].by = shJob[j].req
    BY <2>3, <2>7, <2>8, <2>10 DEF ShFrom
  <2>12. \A g \in ShFiles : shDisk'[g].by = shJob[j].req =>
            shDisk'[g].bytes = ShSize(shSeen[shJob[j].req])
    BY <2>3, <2>6, <2>7 DEF ShReq
  <2>13. PICK entry : entry = shDisk[f]
    BY Zenon
  <2>14. entry \in [by : Nat, bytes : Nat] /\ shDisk' = [shDisk EXCEPT ![f] = entry]
    BY <2>2, <2>3, <2>7, <2>13, Zenon DEF ShDiskType
  <2>15. f \in ShFiles /\ shJob[j].pc # "idle"
    BY <1>0, <2>3, Zenon
  <2> QED BY <1>0, <2>10, <2>11, <2>12, <2>13, <2>14, <2>15, EndShares, ZenonT(30)
<1> QED BY <1>1, <1>2, Zenon

\* Sends and bookkeeping leave the downloads alone.
LEMMA ElseShares ==
    ASSUME ShareInv, UNCHANGED <<shJob, shDisk, shLog, shSeen>>
    PROVE  ShareInv'
  BY Zenon DEF ShareInv, ShTypes, ShJobsGood, ShApart, ShDiskGood, ShLogGood

\* A request for a file.
LEMMA ReceiveShares ==
    ASSUME ShareInv, NEW j \in ShJobs, NEW d \in ShDevices, NEW name \in ShNames, NEW total \in ShTotals,
           NEW kind \in {"known", "stream"}, NEW size \in Nat, NEW carries,
           ShReceiveFile(j, d, name, kind, size, total, carries)
    PROVE  ShareInv'
<1>1. total \in Nat
  BY ShAssumption, Zenon
<1>2. CASE ShBegin(j, d, name, kind, size, total)
  BY <1>1, <1>2, BeginShares, Zenon DEF ShReceiveFile
<1>3. CASE UNCHANGED <<shJob, shSeen>>
  BY <1>3, ElseShares, Zenon DEF ShReceiveFile
<1> QED BY <1>2, <1>3, Zenon DEF ShReceiveFile

\* Every step of every reception keeps the download directory whole.
LEMMA ShareStep ==
    ASSUME ShareInv, [ShNext]_shVars
    PROVE  ShareInv'
<1>1. ASSUME NEW j \in ShJobs, NEW d \in ShDevices, NEW name \in ShNames, NEW total \in ShTotals,
             NEW carries \in BOOLEAN, NEW size \in 0..ShMax + 1,
             ShReceiveFile(j, d, name, "known", size, total, carries)
      PROVE  ShareInv'
  <2>1. size \in Nat
    BY ShAssumption
  <2> QED BY <1>1, <2>1, ReceiveShares, Zenon
<1>2. ASSUME NEW j \in ShJobs, NEW d \in ShDevices, NEW name \in ShNames, NEW total \in ShTotals,
             NEW carries \in BOOLEAN, ShReceiveFile(j, d, name, "stream", 0, total, carries)
      PROVE  ShareInv'
  BY <1>2, ReceiveShares, Zenon
<1>3. ASSUME NEW j \in ShJobs, NEW d \in ShDevices, NEW name \in ShNames, NEW total \in ShTotals,
             NEW carries \in BOOLEAN, ShReceiveText(j, d, name, total, carries)
      PROVE  ShareInv'
  <2>1. total \in Nat
    BY ShAssumption, Zenon
  <2> QED BY <1>3, <2>1, BeginShares, Zenon DEF ShReceiveText
<1>4. ASSUME NEW d \in ShDevices, ShUpdate(d) \/ ShDisconnected(d) PROVE ShareInv'
  BY <1>4, ElseShares, Zenon DEF ShUpdate, ShDisconnected
<1>5. ASSUME NEW j \in ShJobs, ShFail(j) PROVE ShareInv'
  BY <1>5, DiscardShares, Zenon DEF ShFail
<1>6. CASE ShSendStart \/ ShServe \/ ShLeave \/ ShLooseEnds
  BY <1>6, ElseShares, Zenon DEF ShSendStart, ShServe, ShLeave, ShLooseEnds, shIn
<1>7. ASSUME NEW ok \in BOOLEAN, ShUpload(ok) \/ ShOffer(ok) PROVE ShareInv'
  BY <1>7, ElseShares, Zenon DEF ShUpload, ShOffer, shIn
<1>8. CASE UNCHANGED shVars
  BY <1>8, ElseShares, Zenon DEF shVars
<1> QED BY Zenon, <1>1, <1>2, <1>3, <1>4, <1>5, <1>6, <1>7, <1>8, CreateShares, ConnectShares, CopyShares,
           FinishShares DEF ShNext

\* What is left in the download directory is whole, and the list of received files names
\* for every request its own file (receive_into, receive_into_streaming,
\* create_unique_destination), for any number of phones, jobs, names and requests.
THEOREM DownloadsAreWhole == ShSpec => []DownloadsWhole
<1>1. ASSUME ShInit PROVE ShareInv
  <2>1. ShIdle \in ShJobType /\ ShIdle.req = 0 /\ ShIdle.pc = "idle"
    BY Zenon DEF ShIdle, ShJobType
  <2>2. ShAbsent \in [by : Nat, bytes : Nat] /\ ShAbsent.by = 0
    BY Zenon DEF ShAbsent
  <2>3. ShTypes
    BY <1>1, <2>1, <2>2 DEF ShInit, ShTypes, ShDiskType
  <2>4. ShJobsGood
    BY <1>1, <2>1, Zenon DEF ShInit, ShJobsGood, ShGood
  <2>5. ShApart /\ ShLogGood
    BY <1>1, <2>1 DEF ShInit, ShApart, ShLogGood
  <2>6. ShDiskGood
    BY <1>1, <2>2 DEF ShInit, ShDiskGood, ShKept
  <2> QED BY <2>3, <2>4, <2>5, <2>6, Zenon DEF ShareInv
<1>2. ASSUME ShareInv PROVE DownloadsWhole
  <2>1. ASSUME NEW f \in ShFiles, shDisk[f] # ShAbsent, \A j \in ShJobs : shJob[j].req # shDisk[f].by
        PROVE  shDisk[f].bytes = ShSize(shSeen[shDisk[f].by])
    <3>1. shDisk[f].by \notin ShHeld(shJob)
      BY <2>1, Zenon DEF ShHeld
    <3>2. ShKept(shDisk[f], shSeen, ShHeld(shJob))
      BY <1>2, Zenon DEF ShareInv, ShDiskGood
    <3> QED BY <2>1, <3>1, <3>2, Zenon DEF ShKept
  <2>2. \A i \in 1..Len(shLog) : shDisk[shLog[i].file].by = shLog[i].req
    BY <1>2, Zenon DEF ShareInv, ShLogGood
  <2> QED BY <2>1, <2>2, Zenon DEF DownloadsWhole, ShSize
<1> QED BY <1>1, <1>2, ShareStep, PTL DEF ShSpec

-----------------------------------------------------------------------------
(* The files of crypto.rs and own_identity.rs.  *)

CertsOf(w) == {Cert(w, k, v) : k \in 0..CsMints, v \in {"valid", "expired"}}

\* The files, the operations of a call and the counters have their types.
CsContents ==
    {Missing} \cup {<<f>> : f \in CsFiles} \cup {Id(i) : i \in CsIds}
      \cup (UNION {CertsOf(i) : i \in CsIds}) \cup {Key(k) : k \in 0..CsMints}
      \cup {Pem(c) : c \in CsPeers} \cup {Pin(c) : c \in CsPeers}

CsOps == [op : {"write", "rename", "delete"}, file : CsFiles, to : CsContents]

CsTypes ==
    /\ csDisk = [f \in CsFiles |-> csDisk[f]]
    /\ csJob \in Seq(CsOps)
    /\ csPhase \in {"down", "starting", "running", "failed"}
    /\ csPhase \in {"down", "failed"} => csJob = <<>>
    /\ csMinted \in 0..CsMints

\* An operation writes f, or moves another file to it.
Fills(o, f) == \/ o.op = "write" /\ o.file = f
               \/ o.op = "rename" /\ o.to = <<f>>

Settled(f) == \A n \in DOMAIN csJob : ~Fills(csJob[n], f)

\* What a call under way may do to the identity: it writes the id the daemon
\* runs under, a certificate made out to it, or adopts one.
OwnOp(n, o, w, old) ==
    /\ o.op = "write" /\ o.file = "id" => o.to = Id(w)
    /\ o.op = "write" /\ o.file = "crt" => o.to \in CertsOf(w)
    /\ o.op = "write" => o.file # "legacyCrt"
    /\ o.op = "rename" => \/ o.file = "legacyCrt" /\ o.to = <<"crt">>
                          \/ o.file = "legacyKey" /\ o.to = <<"key">>
    /\ o.op = "rename" /\ o.file = "legacyCrt" => n = 1 /\ old \in CertsOf(w)
    /\ o.op = "delete" => o.file \in {"pem", "pin"}

\* IdentityKept with what makes it inductive: a file the call has no business
\* with any more names the daemon's id, and once the daemon has run, device_id
\* is written no more and own.crt is made out to no other id.
IdentityInv ==
    /\ CsTypes
    /\ csDisk["id"] \in {Missing, Torn} \cup {Id(i) : i \in CsIds}
    /\ csDisk["crt"] \in {Missing, Torn} \cup UNION {CertsOf(i) : i \in CsIds}
    /\ csDisk["legacyCrt"] \in {Missing} \cup UNION {CertsOf(i) : i \in CsIds}
    /\ csPhase \in {"starting", "running"} =>
          /\ csWho \in CsIds
          /\ \A n \in DOMAIN csJob : OwnOp(n, csJob[n], csWho, csDisk["legacyCrt"])
          /\ Settled("id") => csDisk["id"] = Id(csWho)
          /\ Settled("crt") => csDisk["crt"] \in CertsOf(csWho)
    /\ csPhase = "running" => csFirst # <<>>
    /\ csFirst # <<>> => \E w \in CsIds :
          /\ csFirst = <<w>>
          /\ csDisk["id"] = Id(w) /\ Settled("id")
          /\ csDisk["crt"] \in CertsOf(w) \cup {Torn}
          /\ csPhase \in {"starting", "running"} => csWho = w

Writes(f) == {n \in DOMAIN csJob : csJob[n].op = "write" /\ csJob[n].file = f}

\* PemMatchesPin with what makes it inductive: a call that stores certificate c
\* writes its PEM while the pin is missing or is the one of c, and the pin once
\* the PEM is there.
PhoneOp(c) ==
    /\ \A n \in Writes("pem") :
          /\ n = 1 /\ csJob[n].to = Pem(c)
          /\ csDisk["pin"] = IF Writes("pin") = {} THEN Pin(c) ELSE Missing
    /\ \A n \in Writes("pin") :
          /\ n = Len(csJob) /\ csJob[n].to = Pin(c)
          /\ Writes("pem") = {} => csDisk["pem"] = Pem(c)
    /\ Writes("pem") \cup Writes("pin") # {} => \A n \in DOMAIN csJob : csJob[n].op = "write"

PhoneInv ==
    /\ csDisk["pem"] \in {Missing, Torn} \cup {Pem(c) : c \in CsPeers}
    /\ csDisk["pin"] \in {Missing, Torn} \cup {Pin(c) : c \in CsPeers}
    /\ PemMatchesPin
    /\ Writes("pem") \cup Writes("pin") # {} => \E c \in CsPeers : PhoneOp(c)

\* What is written into a file is neither a missing nor a torn file, and can
\* be read back.
LEMMA Readable ==
    /\ Missing # Torn
    /\ \A i : Id(i) \notin {Missing, Torn} /\ Id(i)[2] = i
    /\ \A c : Pem(c) \notin {Missing, Torn} /\ Pem(c)[2] = c
    /\ \A c : Pin(c) \notin {Missing, Torn} /\ Pin(c)[2] = c
    /\ \A w, k, v : /\ Cert(w, k, v) \notin {Missing, Torn} 
                    /\ Cert(w, k, v)[2] = w /\ Cert(w, k, v)[3] = k /\ Cert(w, k, v)[4] = v
<1>1. Missing # Torn
  BY Zenon DEF Missing, Torn
<1>2. \A i : Id(i) \notin {Missing, Torn} /\ Id(i)[2] = i
  BY Zenon DEF Missing, Torn, Id
<1>3. \A c : Pem(c) \notin {Missing, Torn} /\ Pem(c)[2] = c
  BY Zenon DEF Missing, Torn, Pem
<1>4. \A c : Pin(c) \notin {Missing, Torn} /\ Pin(c)[2] = c
  BY Zenon DEF Missing, Torn, Pin
<1>5. \A w, k, v : /\ Cert(w, k, v) \notin {Missing, Torn} 
                   /\ Cert(w, k, v)[2] = w /\ Cert(w, k, v)[3] = k /\ Cert(w, k, v)[4] = v
  BY Zenon DEF Missing, Torn, Cert
<1> QED BY <1>1, <1>2, <1>3, <1>4, <1>5

\* An id that was found, and one that was not.
LEMMA Found == \A i, k : <<i>> # <<>> /\ (<<i>> = <<k>> => i = k)
<1>1. \A i : <<i>> # <<>>
  BY Zenon
<1>2. ASSUME NEW i, NEW k, <<i>> = <<k>> PROVE i = k
  <2>1. <<i>>[1] = i /\ <<k>>[1] = k
    BY Zenon
  <2> QED BY <1>2, <2>1, Zenon
<1> QED BY <1>1, <1>2, Zenon

\* A certificate names its id.
LEMMA CertNames ==
    ASSUME NEW w, NEW c \in CertsOf(w)
    PROVE  /\ c \notin {Missing, Torn} /\ c[2] = w
           /\ [c EXCEPT ![4] = "expired"] \in CertsOf(w)
<1>1. PICK k \in 0..CsMints, v \in {"valid", "expired"} : c = Cert(w, k, v)
  BY DEF CertsOf
<1>2. [c EXCEPT ![4] = "expired"] = Cert(w, k, "expired")
  BY <1>1 DEF Cert
<1> QED BY <1>1, <1>2, Readable DEF CertsOf

\* The files an operation has not finished with.
LEMMA Operations ==
    /\ \A f, v : Write(f, v).op = "write" /\ Write(f, v).file = f /\ Write(f, v).to = v
    /\ \A f, g : Rename(f, g).op = "rename" /\ Rename(f, g).file = f /\ Rename(f, g).to = <<g>>
    /\ \A f : Delete(f).op = "delete" /\ Delete(f).file = f
BY Zenon DEF Write, Rename, Delete

\* The operations of a call, as functions of the position.
LEMMA OwnJobs ==
    ASSUME NEW w \in CsIds, csMinted \in 0..CsMints, csMinted < CsMints, CsAssumption
    PROVE  /\ generate_certificate(w) \in CertsOf(w)
           /\ LET j == store_own_certificate(generate_certificate(w)) IN
                 /\ j \in Seq(CsOps) /\ DOMAIN j = 1..2
                 /\ j[1] = Write("crt", generate_certificate(w))
                 /\ j[2] = Write("key", Key(csMinted + 1))
           /\ LET j == regenerate(w) IN
                 /\ j \in Seq(CsOps) /\ DOMAIN j = 1..3
                 /\ j[1] = Write("crt", generate_certificate(w))
                 /\ j[2] = Write("key", Key(csMinted + 1))
                 /\ j[3] = Write("id", Id(w))
<1> DEFINE c == generate_certificate(w)
<1>1. c \in CertsOf(w) /\ c[3] = csMinted + 1 /\ csMinted + 1 \in 0..CsMints
  BY Readable DEF generate_certificate, CertsOf, CsAssumption
<1>2. /\ Write("crt", c) \in CsOps /\ Write("key", Key(csMinted + 1)) \in CsOps
      /\ Write("id", Id(w)) \in CsOps
  <2>1. c \in CsContents /\ Key(csMinted + 1) \in CsContents /\ Id(w) \in CsContents
    <3>1. c \in UNION {CertsOf(i) : i \in CsIds}
      BY <1>1, Zenon
    <3> QED BY <1>1, <3>1, Zenon DEF CsContents
  <2> HIDE DEF c
  <2>2. \A f \in CsFiles, v \in CsContents : Write(f, v) \in CsOps
    BY Zenon DEF Write, CsOps
  <2> QED BY <2>1, <2>2, Zenon DEF CsFiles
<1>3. store_own_certificate(c) = <<Write("crt", c), Write("key", Key(csMinted + 1))>>
  BY <1>1, Zenon DEF store_own_certificate
<1>4. regenerate(w) = <<Write("crt", c), Write("key", Key(csMinted + 1))>> \o <<Write("id", Id(w))>>
  BY <1>3, Zenon DEF regenerate, write_id_file
<1> HIDE DEF c
<1> DEFINE a == Write("crt", c) 
           b == Write("key", Key(csMinted + 1)) 
           d == Write("id", Id(w))
<1> HIDE DEF a, b, d
<1>5. <<a, b>> \in Seq(CsOps) /\ DOMAIN <<a, b>> = 1..2 /\ <<a, b>>[1] = a /\ <<a, b>>[2] = b
  BY <1>2 DEF a, b
<1>6. LET j == <<a, b>> \o <<d>> IN
       j \in Seq(CsOps) /\ DOMAIN j = 1..3 /\ j[1] = a /\ j[2] = b /\ j[3] = d
  BY <1>2 DEF a, b, d
<1> QED BY <1>1, <1>3, <1>4, <1>5, <1>6, Zenon DEF a, b, c, d

\* The operations that store and delete the phone's certificate.
LEMMA PhoneJobs ==
    /\ \A c \in CsPeers : LET j == store_peer_certificate(c) IN
          /\ j \in Seq(CsOps)
          /\ \A n \in DOMAIN j : j[n].op = "write" /\ j[n].file \in {"pem", "pin"}
    /\ delete_peer_certificate \in Seq(CsOps)
    /\ \A n \in DOMAIN delete_peer_certificate :
          /\ delete_peer_certificate[n].op = "delete"
          /\ delete_peer_certificate[n].file \in {"pem", "pin"}
<1>1. ASSUME NEW c \in CsPeers
      PROVE  Write("pem", Pem(c)) \in CsOps /\ Write("pin", Pin(c)) \in CsOps
  <2>1. Pem(c) \in CsContents /\ Pin(c) \in CsContents
    BY Zenon DEF CsContents
  <2> QED BY <2>1, Zenon DEF Write, CsOps, CsFiles
<1>2. Delete("pem") \in CsOps /\ Delete("pin") \in CsOps
  <2>1. Missing \in CsContents
    BY Zenon DEF CsContents
  <2> QED BY <2>1, Zenon DEF Delete, CsOps, CsFiles
<1>3. ASSUME NEW a \in CsOps, NEW b \in CsOps
      PROVE  /\ <<a, b>> \in Seq(CsOps) /\ \A n \in DOMAIN <<a, b>> : <<a, b>>[n] \in {a, b}
             /\ <<a>> \in Seq(CsOps) /\ \A n \in DOMAIN <<a>> : <<a>>[n] = a
             /\ <<>> \in Seq(CsOps) /\ DOMAIN <<>> = {}
  BY SMTT(30)
<1>4. ASSUME NEW c \in CsPeers
      PROVE  LET j == store_peer_certificate(c) IN
                /\ j \in Seq(CsOps)
                /\ \A n \in DOMAIN j : j[n].op = "write" /\ j[n].file \in {"pem", "pin"}
  BY <1>1, <1>3, Operations DEF store_peer_certificate
<1> QED BY <1>2, <1>3, <1>4, Operations DEF delete_peer_certificate

\* The rest of a call, when its first operation is done.
LEMMA JobTail ==
    ASSUME csJob \in Seq(CsOps), csJob # <<>>
    PROVE  /\ 1 \in DOMAIN csJob /\ Head(csJob) = csJob[1] /\ csJob[1] \in CsOps
           /\ Tail(csJob) \in Seq(CsOps)
           /\ Len(Tail(csJob)) = Len(csJob) - 1 /\ DOMAIN csJob = 1..Len(csJob) /\ Len(csJob) \in Nat
           /\ DOMAIN Tail(csJob) = 1..(Len(csJob) - 1)
           /\ \A n \in DOMAIN Tail(csJob) :
                 n + 1 \in DOMAIN csJob /\ n + 1 # 1 /\ Tail(csJob)[n] = csJob[n + 1]
           /\ \A n \in DOMAIN csJob : n # 1 =>
                 /\ n - 1 \in DOMAIN Tail(csJob) /\ (n - 1) + 1 = n
                 /\ Tail(csJob)[n - 1] = csJob[n]
OBVIOUS

\* An operation fills at most one file, and a file the rest of a call fills is
\* one the call fills.
LEMMA SettledLater ==
    ASSUME csJob \in Seq(CsOps), csJob # <<>>, csJob' = Tail(csJob), NEW f,
           Settled(f)', ~Fills(csJob[1], f)
    PROVE  Settled(f)
<1>1. \A n \in DOMAIN csJob' : ~Fills(csJob'[n], f)
  BY Zenon DEF Settled, Fills
<1>2. ASSUME NEW n \in DOMAIN csJob, n # 1 PROVE ~Fills(csJob[n], f)
  BY <1>1, <1>2, JobTail, ZenonT(30)
<1> QED BY <1>2, Zenon DEF Settled

\* The rest of a call is of the same kind, whatever became of the old file.
LEMMA OwnTail ==
    ASSUME csJob \in Seq(CsOps), csJob # <<>>, NEW w, NEW old, NEW now,
           \A n \in DOMAIN csJob : OwnOp(n, csJob[n], w, old)
    PROVE  \A n \in DOMAIN Tail(csJob) : OwnOp(n, Tail(csJob)[n], w, now)
<1> SUFFICES ASSUME NEW n \in DOMAIN Tail(csJob) PROVE OwnOp(n, Tail(csJob)[n], w, now)
  BY Zenon
<1>1. PICK o : o = Tail(csJob)[n]
  BY Zenon
<1>2. OwnOp(n + 1, o, w, old) /\ n + 1 # 1
  BY <1>1, JobTail, Zenon
<1> QED BY <1>1, <1>2, Zenon DEF OwnOp

\* A file operation keeps the identity.
LEMMA IdentityOperate ==
    ASSUME IdentityInv, CsOperate
    PROVE  IdentityInv'
<1> DEFINE o == csJob[1]
           alive == csPhase \in {"starting", "running"}
<1>1. csJob # <<>> /\ alive /\ csJob \in Seq(CsOps) /\ csDisk = [f \in CsFiles |-> csDisk[f]]
  BY Zenon DEF CsOperate, IdentityInv, CsTypes
<1>2. /\ OwnOp(1, o, csWho, csDisk["legacyCrt"]) /\ Head(csJob) = o
      /\ o.file \in CsFiles /\ o.op \in {"write", "rename", "delete"}
      /\ Tail(csJob) \in Seq(CsOps) /\ 1 \in DOMAIN csJob
      /\ csWho \in CsIds
  BY <1>1, JobTail, Zenon DEF IdentityInv, CsOps
<1>3. UNCHANGED <<csPhase, csWho, csFirst, csMinted>>
  BY Zenon DEF CsOperate
<1>4. /\ \A f : Settled(f) => ~Fills(o, f)
      /\ csJob' = Tail(csJob) => \A f : Settled(f)' /\ ~Fills(o, f) => Settled(f)
      /\ csJob' = Tail(csJob) => \A f : Settled(f) => Settled(f)'
  <2>1. \A f : Settled(f) => ~Fills(o, f)
    BY <1>2, Zenon DEF Settled
  <2>2. csJob' = Tail(csJob) => \A f : Settled(f)' /\ ~Fills(o, f) => Settled(f)
    BY <1>1, SettledLater, Zenon
  <2>3. ASSUME csJob' = Tail(csJob), NEW f, Settled(f) PROVE Settled(f)'
    <3>1. \A n \in DOMAIN csJob' : csJob'[n] = csJob[n + 1] /\ n + 1 \in DOMAIN csJob
      BY <1>1, <2>3, JobTail, Zenon
    <3> QED BY <2>3, <3>1, Zenon DEF Settled, Fills
  <2> QED BY <2>1, <2>2, <2>3, Zenon
<1>5. ASSUME csJob' = Tail(csJob)
      PROVE  \A n \in DOMAIN csJob' : OwnOp(n, csJob'[n], csWho', csDisk'["legacyCrt"])
  BY <1>1, <1>3, <1>5, OwnTail, ZenonT(30) DEF IdentityInv
<1> DEFINE d == csDisk
           e == csDisk'
<1>6. CASE /\ o.op = "write" /\ csDisk[o.file] # Torn
           /\ csDisk' = [csDisk EXCEPT ![o.file] = Torn] /\ UNCHANGED csJob
  <2>1. /\ o.file # "legacyCrt" /\ e = [f \in CsFiles |-> e[f]]
        /\ \A f \in CsFiles : f # o.file => e[f] = d[f]
        /\ e[o.file] = Torn
    BY <1>1, <1>2, <1>6, Zenon DEF OwnOp
  <2>2. Fills(o, o.file)
    BY <1>6, Zenon DEF Fills
  <2>3. \A f : Settled(f)' <=> Settled(f)
    BY <1>6, Zenon DEF Settled, Fills
  <2>4. e["legacyCrt"] = d["legacyCrt"]
    BY <2>1, Zenon DEF CsFiles
  <2>5. CsTypes'
    BY <1>3, <1>6, <2>1, Zenon DEF IdentityInv, CsTypes
  <2>6. /\ Settled("id")' => e["id"] = d["id"]
        /\ Settled("crt")' => e["crt"] = d["crt"]
        /\ e["id"] \in {Torn, d["id"]} /\ e["crt"] \in {Torn, d["crt"]}
    BY <1>4, <2>1, <2>2, <2>3, Zenon DEF CsFiles
  <2> QED BY <1>1, <1>3, <1>6, <2>3, <2>4, <2>5, <2>6, Zenon DEF IdentityInv
<1>7. CASE /\ o.op = "write" /\ csDisk[o.file] = Torn
           /\ csDisk' = [csDisk EXCEPT ![o.file] = o.to] /\ csJob' = Tail(csJob)
  <2>1. /\ o.file # "legacyCrt" /\ e = [f \in CsFiles |-> e[f]]
        /\ \A f \in CsFiles : f # o.file => e[f] = d[f]
        /\ e[o.file] = o.to
        /\ o.file = "id" => o.to = Id(csWho)
        /\ o.file = "crt" => o.to \in CertsOf(csWho)
        /\ \A f : Fills(o, f) <=> f = o.file
    BY <1>1, <1>2, <1>7, Zenon DEF OwnOp, Fills
  <2>2. e["legacyCrt"] = d["legacyCrt"]
    BY <2>1, Zenon DEF CsFiles
  <2>3. CsTypes'
    BY <1>1, <1>2, <1>3, <1>7, <2>1, Zenon DEF IdentityInv, CsTypes
  <2>4. /\ o.file = "id" => e["id"] = Id(csWho)
        /\ o.file = "crt" => e["crt"] \in CertsOf(csWho)
        /\ o.file # "id" => e["id"] = d["id"]
        /\ o.file # "crt" => e["crt"] = d["crt"]
    BY <2>1, Zenon DEF CsFiles
  <2>5. /\ Settled("id")' => e["id"] = Id(csWho')
        /\ Settled("crt")' => e["crt"] \in CertsOf(csWho')
    BY <1>1, <1>3, <1>4, <1>7, <2>1, <2>4, ZenonT(30) DEF IdentityInv
  <2>6. e["id"] \in {Missing, Torn} \cup {Id(i) : i \in CsIds}
    BY <1>2, <2>4, Zenon DEF IdentityInv
  <2>7. e["crt"] \in {Missing, Torn} \cup UNION {CertsOf(i) : i \in CsIds}
    BY <1>2, <2>4, Zenon DEF IdentityInv
  <2>8. ASSUME NEW w \in CsIds, csFirst = <<w>>, d["id"] = Id(w), Settled("id"),
               d["crt"] \in CertsOf(w) \cup {Torn}, csWho = w
        PROVE  e["id"] = Id(w) /\ Settled("id")' /\ e["crt"] \in CertsOf(w) \cup {Torn}
    BY <1>4, <1>7, <2>1, <2>4, <2>8, Zenon
  <2> QED BY <1>1, <1>2, <1>3, <1>5, <1>7, <2>2, <2>3, <2>5, <2>6, <2>7, <2>8, ZenonT(30) DEF IdentityInv
<1>8. CASE /\ o.op = "rename" /\ csJob' = Tail(csJob)
           /\ csDisk' = [csDisk EXCEPT ![o.to[1]] = csDisk[o.file], ![o.file] = Missing]
  <2>1. PICK g \in {"crt", "key"} :
          /\ o.to = <<g>> /\ o.file = IF g = "crt" THEN "legacyCrt" ELSE "legacyKey"
          /\ g = "crt" => d["legacyCrt"] \in CertsOf(csWho)
    BY <1>2, <1>8, Zenon DEF OwnOp
  <2>2. csDisk' = [csDisk EXCEPT ![g] = d[o.file], ![o.file] = Missing]
    BY <1>8, <2>1
  <2>3. /\ e = [f \in CsFiles |-> e[f]] /\ e["id"] = d["id"]
        /\ g = "crt" => e["crt"] = d["legacyCrt"] /\ e["legacyCrt"] = Missing
        /\ g = "key" => e["crt"] = d["crt"] /\ e["legacyCrt"] = d["legacyCrt"]
    BY <1>1, <2>1, <2>2, ZenonT(30) DEF CsFiles
  <2>4. ~Fills(o, "id") /\ (g = "key" => ~Fills(o, "crt"))
    BY <1>8, <2>1, SMTT(30) DEF Fills
  <2>5. CsTypes'
    BY <1>1, <1>2, <1>3, <1>8, <2>3, ZenonT(30) DEF IdentityInv, CsTypes
  <2>6. /\ Settled("id")' => e["id"] = Id(csWho')
        /\ Settled("crt")' => e["crt"] \in CertsOf(csWho')
    BY <1>1, <1>3, <1>4, <1>8, <2>1, <2>3, <2>4, ZenonT(30) DEF IdentityInv
  <2>7. e["crt"] \in {Missing, Torn} \cup UNION {CertsOf(i) : i \in CsIds}
    BY <1>2, <2>1, <2>3, ZenonT(30) DEF IdentityInv
  <2>8. ASSUME NEW w \in CsIds, csFirst = <<w>>, d["id"] = Id(w), Settled("id"),
               d["crt"] \in CertsOf(w) \cup {Torn}, csWho = w
        PROVE  e["id"] = Id(w) /\ Settled("id")' /\ e["crt"] \in CertsOf(w) \cup {Torn}
    BY <1>4, <1>8, <2>1, <2>3, <2>8, Zenon
  <2>9. /\ e["id"] \in {Missing, Torn} \cup {Id(i) : i \in CsIds}
        /\ e["legacyCrt"] \in {Missing} \cup UNION {CertsOf(i) : i \in CsIds}
    BY <2>1, <2>3, Zenon DEF IdentityInv
  <2> QED BY <1>1, <1>2, <1>3, <1>5, <1>8, <2>5, <2>6, <2>7, <2>8, <2>9, ZenonT(30) DEF IdentityInv
<1>9. CASE /\ o.op = "delete" /\ csJob' = Tail(csJob)
           /\ csDisk' = [csDisk EXCEPT ![o.file] = Missing]
  <2>1. /\ e = [f \in CsFiles |-> e[f]] /\ e["id"] = d["id"] /\ e["crt"] = d["crt"]
        /\ e["legacyCrt"] = d["legacyCrt"]
    BY <1>1, <1>2, <1>9, ZenonT(30) DEF OwnOp, CsFiles
  <2>2. \A f : ~Fills(o, f)
    BY <1>9, Zenon DEF Fills
  <2>3. \A f : Settled(f)' <=> Settled(f)
    BY <1>4, <1>9, <2>2, ZenonT(30)
  <2>4. CsTypes'
    BY <1>1, <1>2, <1>3, <1>9, <2>1, ZenonT(30) DEF IdentityInv, CsTypes
  <2> QED BY <1>1, <1>3, <1>5, <1>9, <2>1, <2>3, <2>4, ZenonT(30) DEF IdentityInv
<1> QED BY <1>2, <1>6, <1>7, <1>8, <1>9, Zenon DEF CsOperate

\* What a start reads from device_id and own.crt.
LEMMA StartReads ==
    ASSUME IdentityInv
    PROVE  /\ id_from_file # <<>> =>
                 \E i \in CsIds : id_from_file = <<i>> /\ csDisk["id"] = Id(i)
           /\ own_certificate_cn # <<>> =>
                 \E i \in CsIds : own_certificate_cn = <<i>> /\ csDisk["crt"] \in CertsOf(i)
           /\ \A w \in CsIds : csDisk["id"] = Id(w) => id_from_file = <<w>>
           /\ \A w \in CsIds : csDisk["crt"] \in CertsOf(w) =>
                 own_certificate_cn = <<w>> /\ Exists("crt")
           /\ csDisk["crt"] = Torn => own_certificate_cn = <<>> /\ Exists("crt")
<1>1. id_from_file # <<>> => \E i \in CsIds : id_from_file = <<i>> /\ csDisk["id"] = Id(i)
  BY Readable DEF IdentityInv, id_from_file, Whole
<1>2. own_certificate_cn # <<>> =>
                 \E i \in CsIds : own_certificate_cn = <<i>> /\ csDisk["crt"] \in CertsOf(i)
  <2> SUFFICES ASSUME own_certificate_cn # <<>>
               PROVE  \E i \in CsIds : own_certificate_cn = <<i>> /\ csDisk["crt"] \in CertsOf(i)
    BY Zenon
  <2>1. Whole("crt")
    BY Zenon DEF own_certificate_cn
  <2>2. PICK i \in CsIds : csDisk["crt"] \in CertsOf(i)
    BY <2>1, Zenon DEF IdentityInv, Whole
  <2> QED BY <2>1, <2>2, CertNames, Zenon DEF own_certificate_cn
<1>3. \A w \in CsIds : csDisk["id"] = Id(w) => id_from_file = <<w>>
  BY Readable, Zenon DEF id_from_file, Whole
<1>4. \A w \in CsIds : csDisk["crt"] \in CertsOf(w) =>
                 own_certificate_cn = <<w>> /\ Exists("crt")
  BY CertNames, Zenon DEF own_certificate_cn, Whole, Exists
<1>5. csDisk["crt"] = Torn => own_certificate_cn = <<>> /\ Exists("crt")
  BY Readable, ZenonT(30) DEF own_certificate_cn, Whole, Exists
<1> QED BY <1>1, <1>2, <1>3, <1>4, <1>5, Zenon

\* A start under w with job j, when the daemon has not run yet.
LEMMA FirstStart ==
    ASSUME IdentityInv, csFirst = <<>>, NEW w \in CsIds, NEW j \in Seq(CsOps), CsRun(w, j),
           UNCHANGED <<csDisk, csFirst>>, csMinted' \in 0..CsMints,
           \A n \in DOMAIN j : OwnOp(n, j[n], w, csDisk["legacyCrt"]),
           (\A n \in DOMAIN j : ~Fills(j[n], "id")) => csDisk["id"] = Id(w),
           (\A n \in DOMAIN j : ~Fills(j[n], "crt")) => csDisk["crt"] \in CertsOf(w)
    PROVE  IdentityInv'
<1>1. csJob' = j /\ csWho' = w /\ csPhase' = "starting"
  BY ZenonT(30) DEF CsRun
<1>2. CsTypes'
  BY <1>1, ZenonT(30) DEF IdentityInv, CsTypes
<1>3. /\ Settled("id")' => csDisk'["id"] = Id(w)
      /\ Settled("crt")' => csDisk'["crt"] \in CertsOf(w)
  BY <1>1, ZenonT(30) DEF Settled, Fills
<1> QED BY <1>1, <1>2, <1>3, ZenonT(30) DEF IdentityInv

\* A start keeps the identity.
LEMMA IdentityLoad ==
    ASSUME IdentityInv, load_or_create
    PROVE  IdentityInv'
<1> DEFINE id == id_from_file
           cn == own_certificate_cn
           adopted == adopt_legacy_own_certificate(id[1])
           job == IF adopted # <<>> THEN adopted ELSE ensure_own_certificate(id[1])
<1>1. /\ csPhase = "down" /\ csMinted < CsMints /\ csMinted \in 0..CsMints /\ csJob = <<>>
      /\ UNCHANGED <<csDisk, csFirst>>
  BY ZenonT(30) DEF load_or_create, IdentityInv, CsTypes
<1>2. csFirst # <<>> => \/ id = cn /\ id # <<>>
                        \/ csDisk["crt"] = Torn /\ cn = <<>> /\ id # <<>> /\ Exists("crt")
  <2>1. SUFFICES ASSUME csFirst # <<>>
                 PROVE  \/ id = cn /\ id # <<>>
                        \/ csDisk["crt"] = Torn /\ cn = <<>> /\ id # <<>> /\ Exists("crt")
    BY Zenon
  <2>2. PICK w \in CsIds : csDisk["id"] = Id(w) /\ csDisk["crt"] \in CertsOf(w) \cup {Torn}
    BY <2>1, ZenonT(30) DEF IdentityInv
  <2>3. id = <<w>>
    BY <2>2, StartReads, ZenonT(30)
  <2>4. CASE csDisk["crt"] \in CertsOf(w)
    <3>1. cn = <<w>>
      BY <2>4, StartReads, ZenonT(30)
    <3>2. <<w>> # <<>>
      BY Found, Zenon
    <3> QED BY <2>3, <3>1, <3>2, ZenonT(30)
  <2>5. CASE csDisk["crt"] = Torn
    BY <2>3, <2>5, StartReads, Found, ZenonT(30)
  <2> QED BY <2>2, <2>4, <2>5, ZenonT(30)
<1>3. \A job2 : CsMint(job2) => csMinted' \in 0..CsMints
  BY <1>1, CsAssumption DEF CsMint
<1>4. CASE csPhase' = "failed" /\ UNCHANGED <<csWho, csJob, csMinted>>
  <2>1. Settled("id")'
    BY <1>1, <1>4, SMTT(30) DEF Settled
  <2> QED BY <1>1, <1>4, <2>1, ZenonT(30) DEF IdentityInv, CsTypes
<1>5. CASE id # <<>> /\ id = cn /\ CsRun(id[1], <<>>) /\ UNCHANGED csMinted
  <2>1. PICK w \in CsIds : id = <<w>> /\ csDisk["id"] = Id(w) /\ csDisk["crt"] \in CertsOf(w)
    <3>1. PICK w \in CsIds : id = <<w>> /\ csDisk["id"] = Id(w)
      BY <1>5, StartReads, ZenonT(30)
    <3>2. PICK u \in CsIds : cn = <<u>> /\ csDisk["crt"] \in CertsOf(u)
      BY <1>5, StartReads, ZenonT(30)
    <3> QED BY <1>5, <3>1, <3>2, Found, ZenonT(30)
  <2>2. csJob' = <<>> /\ csWho' = w /\ csPhase' = "starting"
    BY <1>5, <2>1, SMTT(30) DEF CsRun
  <2>3. Settled("id")' /\ Settled("crt")'
    BY <2>2, SMTT(30) DEF Settled
  <2>4. CsTypes'
    BY <1>1, <1>5, <2>2, ZenonT(30) DEF IdentityInv, CsTypes
  <2>5. csFirst # <<>> => csFirst = <<w>>
    <3>1. SUFFICES ASSUME csFirst # <<>> PROVE csFirst = <<w>>
      BY Zenon
    <3>2. PICK v \in CsIds : csFirst = <<v>> /\ csDisk["id"] = Id(v)
      BY <3>1, ZenonT(30) DEF IdentityInv
    <3>3. Id(w)[2] = w /\ Id(v)[2] = v /\ Id(w) = Id(v)
      BY <2>1, <3>2, Readable, ZenonT(30)
    <3> QED BY <3>2, <3>3, ZenonT(30)
  <2> QED BY <1>1, <2>1, <2>2, <2>3, <2>4, <2>5 DEF IdentityInv
<1>6. CASE CsRegenerate /\ csFirst = <<>>
  <2>1. PICK w \in CsIds : CsRun(w, regenerate(w)) /\ CsMint(regenerate(w))
    BY <1>6, Zenon DEF CsRegenerate, CsUnused
  <2>2. PICK j : j = regenerate(w)
    BY Zenon
  <2>3. /\ j \in Seq(CsOps) /\ DOMAIN j = 1..3 /\ generate_certificate(w) \in CertsOf(w)
        /\ j[1] = Write("crt", generate_certificate(w))
        /\ j[2] = Write("key", Key(csMinted + 1))
        /\ j[3] = Write("id", Id(w))
    BY <1>1, <2>2, OwnJobs, CsAssumption, ZenonT(30)
  <2>4. \A n \in DOMAIN j : OwnOp(n, j[n], w, csDisk["legacyCrt"])
    BY <2>3, Operations DEF OwnOp
  <2>5. Fills(j[1], "crt") /\ Fills(j[3], "id") /\ 1 \in DOMAIN j /\ 3 \in DOMAIN j
    BY <2>3, Operations DEF Fills
  <2> QED BY <1>1, <1>3, <1>6, <2>1, <2>2, <2>3, <2>4, <2>5, FirstStart, ZenonT(30)
<1>7. CASE id # <<>> /\ ~Exists("crt") /\ CsRun(id[1], job) /\ CsMint(job)
  <2>1. PICK w \in CsIds : id = <<w>> /\ csDisk["id"] = Id(w)
    BY <1>7, StartReads, Zenon
  <2>2. id[1] = w
    BY <2>1, Zenon
  <2>3. csFirst = <<>>
    BY <1>2, <1>7, StartReads, Zenon
  <2>4. CASE adopted # <<>>
    <3>1. /\ adopted = <<Rename("legacyCrt", "crt"), Rename("legacyKey", "key")>>
          /\ Exists("legacyCrt") /\ csDisk["legacyCrt"][2] = w
      BY <2>2, <2>4, Zenon DEF adopt_legacy_own_certificate
    <3>2. csDisk["legacyCrt"] \in CertsOf(w)
      <4>1. PICK i \in CsIds : csDisk["legacyCrt"] \in CertsOf(i)
        BY <3>1, Zenon DEF IdentityInv, Exists
      <4> QED BY <3>1, <4>1, CertNames, Zenon
    <3>3. PICK j : j = adopted
      BY Zenon
    <3>4. Rename("legacyCrt", "crt") \in CsOps /\ Rename("legacyKey", "key") \in CsOps
      <4>1. <<"crt">> \in CsContents /\ <<"key">> \in CsContents
        BY Zenon DEF CsContents, CsFiles
      <4> QED BY <4>1, Zenon DEF Rename, CsOps, CsFiles
    <3>5. /\ j \in Seq(CsOps) /\ DOMAIN j = 1..2
          /\ j[1] = Rename("legacyCrt", "crt") /\ j[2] = Rename("legacyKey", "key")
      BY <3>1, <3>3, <3>4, SMTT(30)
    <3>6. \A n \in DOMAIN j : OwnOp(n, j[n], w, csDisk["legacyCrt"])
      BY <3>2, <3>5, Operations DEF OwnOp
    <3>7. Fills(j[1], "crt") /\ 1 \in DOMAIN j
      BY <3>5, Operations DEF Fills
    <3>8. CsRun(w, j) /\ CsMint(j)
      BY <1>7, <2>2, <2>4, <3>3, Zenon
    <3> QED BY <1>1, <1>3, <2>1, <2>3, <3>5, <3>6, <3>7, <3>8, FirstStart, Zenon
  <2>5. CASE adopted = <<>>
    <3>1. job = store_own_certificate(generate_certificate(w))
      BY <1>7, <2>2, <2>5, Zenon DEF ensure_own_certificate, has_own_certificate
    <3>2. PICK j : j = store_own_certificate(generate_certificate(w))
      BY Zenon
    <3>3. /\ j \in Seq(CsOps) /\ DOMAIN j = 1..2 /\ generate_certificate(w) \in CertsOf(w)
          /\ j[1] = Write("crt", generate_certificate(w))
          /\ j[2] = Write("key", Key(csMinted + 1))
      BY <1>1, <3>2, OwnJobs, CsAssumption, Zenon
    <3>4. \A n \in DOMAIN j : OwnOp(n, j[n], w, csDisk["legacyCrt"])
      BY <3>3, Operations DEF OwnOp
    <3>5. Fills(j[1], "crt") /\ 1 \in DOMAIN j
      BY <3>3, Operations DEF Fills
    <3>6. CsRun(w, j) /\ CsMint(j)
      BY <1>7, <2>2, <3>1, <3>2, Zenon
    <3> QED BY <1>1, <1>3, <2>1, <2>3, <3>3, <3>4, <3>5, <3>6, FirstStart, Zenon
  <2> QED BY <2>4, <2>5, Zenon
<1>8. CASE id = <<>> /\ cn # <<>> /\ CsRun(cn[1], write_id_file(cn[1])) /\ UNCHANGED csMinted
  <2>1. PICK w \in CsIds : cn = <<w>> /\ csDisk["crt"] \in CertsOf(w)
    BY <1>8, StartReads, Zenon
  <2>2. cn[1] = w
    BY <2>1, Zenon
  <2>3. PICK j : j = <<Write("id", Id(w))>>
    BY Zenon
  <2>4. j \in Seq(CsOps) /\ DOMAIN j = {1} /\ j[1] = Write("id", Id(w))
    <3>1. Id(w) \in CsContents
      BY Zenon DEF CsContents
    <3>2. Write("id", Id(w)) \in CsOps
      BY <3>1, Zenon DEF Write, CsOps, CsFiles
    <3> QED BY <2>3, <3>2
  <2>5. \A n \in DOMAIN j : OwnOp(n, j[n], w, csDisk["legacyCrt"])
    BY <2>4, Operations DEF OwnOp
  <2>6. Fills(j[1], "id") /\ 1 \in DOMAIN j
    BY <2>4, Operations DEF Fills
  <2>7. CsRun(w, j)
    BY <1>8, <2>2, <2>3, Zenon DEF write_id_file
  <2>8. csFirst = <<>>
    BY <1>2, <1>8, Zenon
  <2> QED BY <1>1, <1>8, <2>1, <2>4, <2>5, <2>6, <2>7, <2>8, FirstStart, Zenon
<1> QED BY <1>2, <1>4, <1>5, <1>6, <1>7, <1>8, ZenonT(30) DEF load_or_create

\* A daemon that has run keeps its certificate made out to its id, while a
\* call of its own is under way.
LEMMA IdentityRun ==
    ASSUME IdentityInv, csPhase = "running", csJob = <<>>, NEW j \in Seq(CsOps), csJob' = j,
           UNCHANGED <<csDisk, csPhase, csWho, csFirst>>, csMinted' \in 0..CsMints,
           \A n \in DOMAIN j : OwnOp(n, j[n], csWho, csDisk["legacyCrt"]) /\ ~Fills(j[n], "id")
    PROVE  IdentityInv'
<1>1. csDisk["crt"] \in CertsOf(csWho)
  BY DEF IdentityInv, Settled
<1>2. CsTypes'
  BY Zenon DEF IdentityInv, CsTypes
<1>3. Settled("id")'
  BY Zenon DEF Settled, Fills
<1> QED BY <1>1, <1>2, <1>3, Zenon DEF IdentityInv, Settled

\* Every step of the daemon keeps the identity.
LEMMA IdentityStep ==
    ASSUME IdentityInv, [CsNext]_csVars
    PROVE  IdentityInv'
<1>1. ASSUME CsStarted PROVE IdentityInv'
  <2>1. /\ csPhase = "starting" /\ csJob = <<>> /\ csPhase' = "running"
        /\ csFirst' = IF csFirst = <<>> THEN <<csWho>> ELSE csFirst
        /\ UNCHANGED <<csDisk, csWho, csJob, csMinted>>
    BY <1>1, Zenon DEF CsStarted
  <2>2. \A f : Settled(f) /\ Settled(f)'
    BY <2>1 DEF Settled
  <2>3. /\ csWho \in CsIds /\ csDisk["id"] = Id(csWho) /\ csDisk["crt"] \in CertsOf(csWho)
    BY <2>1, <2>2, Zenon DEF IdentityInv
  <2>4. csFirst # <<>> => csFirst = <<csWho>>
    BY <2>1, Zenon DEF IdentityInv
  <2>5. csFirst' = <<csWho>>
    BY <2>1, <2>4, Zenon
  <2>6. CsTypes'
    BY <2>1, Zenon DEF IdentityInv, CsTypes
  <2>7. csFirst' # <<>>
    BY <2>5, Found, Zenon
  <2> QED BY <2>1, <2>2, <2>3, <2>5, <2>6, <2>7, Zenon DEF IdentityInv
<1>2. ASSUME CsDial PROVE IdentityInv'
  <2>1. /\ csPhase = "running" /\ csJob = <<>> /\ csMinted < CsMints
        /\ csJob' = ensure_own_certificate(csWho) /\ CsMint(csJob')
        /\ UNCHANGED <<csDisk, csPhase, csWho, csFirst>>
    BY <1>2, Zenon DEF CsDial, CsDialAs
  <2>2. csMinted \in 0..CsMints /\ csWho \in CsIds
    BY <2>1, Zenon DEF IdentityInv, CsTypes
  <2>3. csMinted' \in 0..CsMints
    BY <2>1, <2>2, CsAssumption DEF CsMint
  <2>4. PICK j : j = csJob'
    BY Zenon
  <2>5. CASE j = <<>>
    <3>1. j \in Seq(CsOps) /\ DOMAIN j = {}
      BY <2>5
    <3> QED BY <2>1, <2>3, <2>4, <3>1, IdentityRun, Zenon
  <2>6. CASE j = store_own_certificate(generate_certificate(csWho))
    <3>1. /\ j \in Seq(CsOps) /\ DOMAIN j = 1..2
          /\ generate_certificate(csWho) \in CertsOf(csWho)
          /\ j[1] = Write("crt", generate_certificate(csWho))
          /\ j[2] = Write("key", Key(csMinted + 1))
      BY <2>1, <2>2, <2>6, OwnJobs, CsAssumption, Zenon
    <3>2. \A n \in DOMAIN j : /\ OwnOp(n, j[n], csWho, csDisk["legacyCrt"])
                              /\ ~Fills(j[n], "id")
      BY <3>1, Operations, SMTT(30) DEF OwnOp, Fills
    <3> QED BY <2>1, <2>3, <2>4, <3>1, <3>2, IdentityRun, Zenon
  <2> QED BY <2>1, <2>4, <2>5, <2>6, Zenon DEF ensure_own_certificate
<1>3. ASSUME NEW c \in CsPeers, CsPair(c) PROVE IdentityInv'
  <2>1. PICK j : j = csJob'
    BY Zenon
  <2>2. j \in Seq(CsOps) /\ \A n \in DOMAIN j : j[n].op = "write" /\ j[n].file \in {"pem", "pin"}
    BY <1>3, <2>1, PhoneJobs, Zenon DEF CsPair
  <2>3. \A n \in DOMAIN j : OwnOp(n, j[n], csWho, csDisk["legacyCrt"]) /\ ~Fills(j[n], "id")
    BY <2>2, Zenon DEF OwnOp, Fills
  <2>4. csMinted' \in 0..CsMints
    BY <1>3, Zenon DEF CsPair, IdentityInv, CsTypes
  <2> QED BY <1>3, <2>1, <2>2, <2>3, <2>4, IdentityRun, Zenon DEF CsPair
<1>4. ASSUME CsUnpair PROVE IdentityInv'
  <2>1. PICK j : j = csJob'
    BY Zenon
  <2>2. j \in Seq(CsOps) /\ \A n \in DOMAIN j : j[n].op = "delete" /\ j[n].file \in {"pem", "pin"}
    BY <1>4, <2>1, PhoneJobs, Zenon DEF CsUnpair
  <2>3. \A n \in DOMAIN j : OwnOp(n, j[n], csWho, csDisk["legacyCrt"]) /\ ~Fills(j[n], "id")
    BY <2>2, Zenon DEF OwnOp, Fills
  <2>4. csMinted' \in 0..CsMints
    BY <1>4, Zenon DEF CsUnpair, IdentityInv, CsTypes
  <2> QED BY <1>4, <2>1, <2>2, <2>3, <2>4, IdentityRun, Zenon DEF CsUnpair
<1>5. ASSUME CsCrash PROVE IdentityInv'
  <2>1. csJob' = <<>> /\ csPhase' = "down" /\ UNCHANGED <<csDisk, csWho, csFirst, csMinted>>
    BY <1>5, Zenon DEF CsCrash
  <2>2. Settled("id")'
    BY <2>1, SMTT(30) DEF Settled
  <2> QED BY <2>1, <2>2 DEF IdentityInv, CsTypes
<1>6. ASSUME CsExpire PROVE IdentityInv'
  <2>1. PICK w \in CsIds : csDisk["crt"] \in CertsOf(w)
    BY <1>6, Zenon DEF CsExpire, Whole, IdentityInv
  <2>2. /\ csDisk' = [csDisk EXCEPT !["crt"] = [csDisk["crt"] EXCEPT ![4] = "expired"]]
        /\ UNCHANGED <<csPhase, csWho, csFirst, csJob, csMinted>>
    BY <1>6, Zenon DEF CsExpire
  <2>3. PICK x : x = [csDisk["crt"] EXCEPT ![4] = "expired"]
    BY Zenon
  <2>4. \A v : csDisk["crt"] \in CertsOf(v) => x \in CertsOf(v)
    BY <2>3, CertNames, Zenon
  <2>5. /\ csDisk' = [f \in CsFiles |-> csDisk'[f]] /\ csDisk'["crt"] = x
        /\ csDisk'["id"] = csDisk["id"] /\ csDisk'["legacyCrt"] = csDisk["legacyCrt"]
    BY <2>2, <2>3, Zenon DEF IdentityInv, CsTypes, CsFiles
  <2>6. x \in UNION {CertsOf(i) : i \in CsIds} /\ csDisk["crt"] # Torn
    BY <2>1, <2>4, CertNames, ZenonT(30)
  <2>7. \A f : Settled(f)' <=> Settled(f)
    BY <2>2, Zenon DEF Settled, Fills
  <2>8. CsTypes'
    BY <2>2, <2>5, Zenon DEF IdentityInv, CsTypes
  <2> QED BY <2>2, <2>4, <2>5, <2>6, <2>7, <2>8, Zenon DEF IdentityInv
<1>7. CASE UNCHANGED csVars
  BY <1>7 DEF csVars, IdentityInv, CsTypes, Settled, Fills
<1> QED BY <1>1, <1>2, <1>3, <1>4, <1>5, <1>6, <1>7, IdentityLoad, IdentityOperate, Zenon DEF CsNext

\* The states a machine can start in.
LEMMA IdentityInit == CsInit => IdentityInv
<1> SUFFICES ASSUME CsInit PROVE IdentityInv
  BY Zenon
<1>1. csJob = <<>> /\ csPhase = "down" /\ csFirst = <<>> /\ csMinted = 0
  BY Zenon DEF CsInit
<1>2. CASE csDisk = CsEmpty
  <2>1. /\ csDisk = [f \in CsFiles |-> csDisk[f]] /\ csDisk["id"] = Missing
        /\ csDisk["crt"] = Missing /\ csDisk["legacyCrt"] = Missing
    BY <1>2, Zenon DEF CsEmpty, CsFiles
  <2> QED BY <1>1, <2>1, CsAssumption DEF IdentityInv, CsTypes
<1>3. ASSUME NEW i \in CsIds, NEW j \in CsIds,
             csDisk = [CsEmpty EXCEPT !["id"] = Id(i), !["legacyCrt"] = Cert(j, 0, "valid"),
                                      !["legacyKey"] = Key(0)]
      PROVE  IdentityInv
  <2>1. /\ csDisk = [f \in CsFiles |-> csDisk[f]] /\ csDisk["id"] = Id(i)
        /\ csDisk["crt"] = Missing /\ csDisk["legacyCrt"] = Cert(j, 0, "valid")
    BY <1>3, Zenon DEF CsEmpty, CsFiles
  <2>2. Cert(j, 0, "valid") \in CertsOf(j)
    BY CsAssumption, SMTT(30) DEF CertsOf
  <2> QED BY <1>1, <2>1, <2>2, CsAssumption DEF IdentityInv, CsTypes
<1> QED BY <1>2, <1>3 DEF CsInit

-----------------------------------------------------------------------------
\* What the phone's files are after a step that does not touch them.
LEMMA PhoneKept ==
    ASSUME PhoneInv, Writes("pem")' = {}, Writes("pin")' = {},
           csDisk'["pem"] \in {csDisk["pem"], Missing, Torn},
           csDisk'["pin"] \in {csDisk["pin"], Missing, Torn}
    PROVE  PhoneInv'
BY Readable, Zenon DEF PhoneInv, PemMatchesPin, Whole

\* A file operation keeps PEM and pin together.
LEMMA PhoneOperate ==
    ASSUME IdentityInv, PhoneInv, CsOperate
    PROVE  PhoneInv'
<1> DEFINE o == csJob[1]
           d == csDisk
           e == csDisk'
<1>1. /\ csJob # <<>> /\ csPhase \in {"starting", "running"} /\ csJob \in Seq(CsOps)
      /\ csDisk = [f \in CsFiles |-> csDisk[f]]
  BY Zenon DEF CsOperate, IdentityInv, CsTypes
<1>2. /\ OwnOp(1, o, csWho, csDisk["legacyCrt"]) /\ Head(csJob) = o
      /\ o.file \in CsFiles /\ o.op \in {"write", "rename", "delete"}
      /\ 1 \in DOMAIN csJob
  BY <1>1, JobTail, Zenon DEF IdentityInv, CsOps
<1>3. ASSUME csJob' = Tail(csJob), NEW f
      PROVE  /\ \A n \in Writes(f)' : n + 1 \in Writes(f) /\ n + 1 # 1 /\ csJob'[n] = csJob[n + 1]
             /\ \A n \in Writes(f) : n # 1 => n - 1 \in Writes(f)'
  BY <1>1, <1>3, JobTail, Zenon DEF Writes
<1>4. CASE Writes("pem") \cup Writes("pin") = {}
  <2>1. o.op = "write" => o.file \notin {"pem", "pin"}
    BY <1>2, <1>4, Zenon DEF Writes
  <2>2. e["pem"] \in {d["pem"], Missing} /\ e["pin"] \in {d["pin"], Missing}
    BY <1>1, <1>2, <2>1 DEF CsOperate, OwnOp, CsFiles
  <2>3. csJob' = csJob \/ csJob' = Tail(csJob)
    BY Zenon DEF CsOperate
  <2>4. Writes("pem")' = {} /\ Writes("pin")' = {}
    BY <1>3, <1>4, <2>3, Zenon DEF Writes
  <2> QED BY <2>2, <2>4, PhoneKept, Zenon
<1>5. CASE Writes("pem") \cup Writes("pin") # {}
  <2>1. PICK c \in CsPeers : PhoneOp(c)
    BY <1>5, Zenon DEF PhoneInv
  <2>2. o.op = "write"
    BY <1>2, <1>5, <2>1, Zenon DEF PhoneOp
  <2>3. /\ \A n \in Writes("pem") : n = 1 /\ csJob[n].to = Pem(c)
        /\ \A n \in Writes("pin") : n = Len(csJob) /\ csJob[n].to = Pin(c)
        /\ 1 \in Writes(o.file)
        /\ \A n \in DOMAIN csJob : csJob[n].op = "write"
    BY <1>2, <1>5, <2>1, <2>2, Zenon DEF PhoneOp, Writes
  <2>4. CASE csDisk' = [csDisk EXCEPT ![o.file] = Torn] /\ UNCHANGED csJob
    <3>1. \A f : Writes(f)' = Writes(f)
      BY <2>4, Zenon DEF Writes
    <3>2. CASE o.file = "pem"
      <4>1. e["pem"] = Torn /\ e["pin"] = d["pin"]
        BY <1>1, <2>4, <3>2, Zenon DEF CsFiles
      <4>2. PhoneOp(c)'
        BY <2>1, <2>3, <2>4, <3>1, <3>2, <4>1, Zenon DEF PhoneOp
      <4> QED BY <3>1, <4>1, <4>2, Zenon DEF PhoneInv, PemMatchesPin, Whole
    <3>3. CASE o.file = "pin"
      <4>1. e["pin"] = Torn /\ e["pem"] = d["pem"] /\ Writes("pem") = {}
        BY <1>1, <2>3, <2>4, <3>3, Zenon DEF CsFiles, Writes
      <4>2. PhoneOp(c)'
        BY <2>1, <2>3, <2>4, <3>1, <4>1, Zenon DEF PhoneOp
      <4> QED BY <3>1, <4>1, <4>2, Zenon DEF PhoneInv, PemMatchesPin, Whole
    <3>4. CASE o.file \notin {"pem", "pin"}
      <4>1. e["pin"] = d["pin"] /\ e["pem"] = d["pem"]
        BY <1>1, <2>4, <3>4, Zenon DEF CsFiles
      <4>2. PhoneOp(c)'
        BY <2>1, <2>4, <3>1, <4>1, Zenon DEF PhoneOp
      <4> QED BY <3>1, <4>1, <4>2, Zenon DEF PhoneInv, PemMatchesPin, Whole
    <3> QED BY <3>2, <3>3, <3>4, Zenon
  <2>5. CASE csDisk' = [csDisk EXCEPT ![o.file] = o.to] /\ csJob' = Tail(csJob)
    <3>1. Writes("pem")' = {}
      BY <1>3, <2>3, <2>5, Zenon
    <3>2. Len(csJob') = Len(csJob) - 1 /\ Len(csJob) \in Nat
      BY <1>1, <2>5, JobTail, Zenon
    <3>3. \A n \in Writes("pin")' : n = Len(csJob') /\ csJob'[n].to = Pin(c)
      <4> SUFFICES ASSUME NEW n \in Writes("pin")' PROVE n = Len(csJob') /\ csJob'[n].to = Pin(c)
        BY Zenon
      <4>1. n + 1 \in Writes("pin") /\ csJob'[n] = csJob[n + 1] /\ n \in DOMAIN csJob'
        <5>1. n \in DOMAIN csJob'
          BY Zenon DEF Writes
        <5> QED BY <1>3, <2>5, <5>1, Zenon
      <4>2. n \in Nat
        BY <1>1, <2>5, <4>1, JobTail
      <4> QED BY <2>3, <3>2, <4>1, <4>2
    <3>4. \A n \in DOMAIN csJob' : csJob'[n].op = "write"
      BY <1>1, <2>3, <2>5, JobTail
    <3>5. CASE o.file = "pem"
      <4>1. e["pem"] = Pem(c) /\ e["pin"] = d["pin"]
        BY <1>1, <2>3, <2>5, <3>5, Zenon DEF CsFiles
      <4>2. d["pin"] = IF Writes("pin") = {} THEN Pin(c) ELSE Missing
        BY <2>1, <2>3, <3>5, Zenon DEF PhoneOp
      <4>3. PhoneOp(c)'
        BY <3>1, <3>3, <3>4, <4>1, Zenon DEF PhoneOp
      <4>4. PemMatchesPin'
        BY <4>1, <4>2, Readable, SMTT(30) DEF PemMatchesPin, Whole
      <4> QED BY <4>1, <4>2, <4>3, <4>4, Zenon DEF PhoneInv
    <3>6. CASE o.file = "pin"
      <4>1. e["pin"] = Pin(c) /\ e["pem"] = d["pem"] /\ Writes("pem") = {} /\ Len(csJob) = 1
        BY <1>1, <2>3, <2>5, <3>6, ZenonT(30) DEF CsFiles, Writes
      <4>2. d["pem"] = Pem(c)
        BY <2>1, <2>3, <3>6, <4>1, Zenon DEF PhoneOp
      <4>3. Writes("pin")' = {}
        <5>1. DOMAIN csJob' = {}
          BY <1>1, <2>5, <4>1, JobTail, SMTT(30)
        <5> QED BY <5>1, Zenon DEF Writes
      <4>4. PemMatchesPin'
        BY <4>1, <4>2, Readable, SMTT(30) DEF PemMatchesPin, Whole
      <4> QED BY <3>1, <4>1, <4>2, <4>3, <4>4, Zenon DEF PhoneInv
    <3>7. CASE o.file \notin {"pem", "pin"}
      <4>1. e["pin"] = d["pin"] /\ e["pem"] = d["pem"] /\ Writes("pem") = {}
        BY <1>1, <2>3, <2>5, <3>7, Zenon DEF CsFiles, Writes
      <4>2. Writes("pin") # {} => d["pem"] = Pem(c)
        BY <2>1, <4>1, Zenon DEF PhoneOp
      <4>3. Writes("pin")' # {} => Writes("pin") # {}
        BY <1>3, <2>5, Zenon
      <4>4. PhoneOp(c)'
        BY <3>1, <3>3, <3>4, <4>1, <4>2, <4>3, Zenon DEF PhoneOp
      <4> QED BY <4>1, <4>4, Zenon DEF PhoneInv, PemMatchesPin, Whole
    <3> QED BY <3>5, <3>6, <3>7, Zenon
  <2> QED BY <1>2, <2>2, <2>4, <2>5, Zenon DEF CsOperate
<1> QED BY <1>4, <1>5, Zenon

\* The calls that see to our own identity leave the phone's files alone.
LEMMA OwnJobsSpare ==
    ASSUME NEW w, NEW j,
           j \in {<<>>, regenerate(w), adopt_legacy_own_certificate(w),
                  ensure_own_certificate(w), write_id_file(w)}
    PROVE  \A n \in DOMAIN j : j[n].op = "write" => j[n].file \notin {"pem", "pin"}
<1> DEFINE Spares(s) == \A n \in DOMAIN s : s[n].op = "write" => s[n].file \notin {"pem", "pin"}
<1>1. Spares(<<>>)
  BY SMTT(30)
<1>2. \A crt : Spares(store_own_certificate(crt))
  BY Operations, SMTT(30) DEF store_own_certificate
<1>3. Spares(write_id_file(w))
  BY Operations, SMTT(30) DEF write_id_file
<1>4. Spares(adopt_legacy_own_certificate(w))
  BY <1>1, Operations DEF adopt_legacy_own_certificate
<1>5. Spares(ensure_own_certificate(w))
  BY <1>1, <1>2, Zenon DEF ensure_own_certificate
<1>6. Spares(regenerate(w))
  <2>1. PICK crt : regenerate(w) = store_own_certificate(crt) \o write_id_file(w)
    BY Zenon DEF regenerate
  <2>2. PICK a, b, c : /\ a = Write("crt", crt) /\ b = Write("key", Key(crt[3]))
                       /\ c = Write("id", Id(w))
    BY Zenon
  <2>3. regenerate(w) = <<a, b>> \o <<c>>
    BY <2>1, <2>2, Zenon DEF store_own_certificate, write_id_file
  <2>4. \A x \in {a, b, c} : x.op = "write" => x.file \notin {"pem", "pin"}
    BY <2>2, Operations
  <2>5. <<a, b>> \in Seq({a, b, c}) /\ <<c>> \in Seq({a, b, c})
    OBVIOUS
  <2>6. <<a, b>> \o <<c>> \in Seq({a, b, c})
    BY <2>5
  <2>7. \A s \in Seq({a, b, c}) : \A n \in DOMAIN s : s[n] \in {a, b, c}
    OBVIOUS
  <2> QED BY <2>3, <2>4, <2>6, <2>7, Zenon
<1> QED BY <1>1, <1>3, <1>4, <1>5, <1>6, Zenon

\* Every step of the daemon keeps PEM and pin together.
LEMMA PhoneStep ==
    ASSUME IdentityInv, PhoneInv, [CsNext]_csVars
    PROVE  PhoneInv'
<1>1. ASSUME csJob' = <<>>, csDisk'["pem"] = csDisk["pem"], csDisk'["pin"] = csDisk["pin"]
      PROVE  PhoneInv'
  <2>1. Writes("pem")' = {} /\ Writes("pin")' = {}
    BY <1>1, SMTT(30) DEF Writes
  <2> QED BY <1>1, <2>1, PhoneKept, Zenon
<1>2. ASSUME UNCHANGED csJob, csDisk'["pem"] = csDisk["pem"], csDisk'["pin"] = csDisk["pin"]
      PROVE  PhoneInv'
  <2>1. UNCHANGED <<Writes("pem"), Writes("pin")>>
    BY <1>2, Zenon DEF Writes
  <2>2. ASSUME NEW c \in CsPeers, PhoneOp(c) PROVE PhoneOp(c)'
    BY <1>2, <2>1, <2>2, Zenon DEF PhoneOp
  <2> QED BY <1>2, <2>1, <2>2, Zenon DEF PhoneInv, PemMatchesPin, Whole
<1>3. ASSUME UNCHANGED csDisk, NEW j, csJob' = j,
             \A n \in DOMAIN j : j[n].op = "write" => j[n].file \notin {"pem", "pin"}
      PROVE  PhoneInv'
  <2>1. Writes("pem")' = {} /\ Writes("pin")' = {}
    BY <1>3, Zenon DEF Writes
  <2> QED BY <1>3, <2>1, PhoneKept, Zenon
<1>4. ASSUME load_or_create PROVE PhoneInv'
  <2>1. UNCHANGED csDisk
    BY <1>4, Zenon DEF load_or_create
  <2>2. CASE UNCHANGED csJob
    BY <1>2, <2>1, <2>2, Zenon
  <2>3. CASE \E w : csJob' \in {<<>>, regenerate(w), adopt_legacy_own_certificate(w),
                                ensure_own_certificate(w), write_id_file(w)}
    <3>1. PICK w, j : /\ csJob' = j
                      /\ j \in {<<>>, regenerate(w), adopt_legacy_own_certificate(w),
                                ensure_own_certificate(w), write_id_file(w)}
      BY <2>3, Zenon
    <3> QED BY <1>3, <2>1, <3>1, OwnJobsSpare, Zenon
  <2> QED BY <1>4, <2>2, <2>3, Zenon DEF load_or_create, CsRegenerate, CsRun
<1>5. ASSUME CsDial PROVE PhoneInv'
  <2>1. PICK j : csJob' = j /\ j = ensure_own_certificate(csWho) /\ UNCHANGED csDisk
    BY <1>5, Zenon DEF CsDial, CsDialAs
  <2> QED BY <1>3, <2>1, OwnJobsSpare, Zenon
<1>6. ASSUME CsUnpair PROVE PhoneInv'
  BY <1>3, <1>6, PhoneJobs, Zenon DEF CsUnpair
<1>7. ASSUME NEW c \in CsPeers, CsPair(c) PROVE PhoneInv'
  <2>1. csJob' = store_peer_certificate(c) /\ UNCHANGED csDisk
    BY <1>7, Zenon DEF CsPair
  <2>2. CASE csJob' = <<Write("pem", Pem(c)), Write("pin", Pin(c))>> /\ ~Exists("pin")
    <3>1. /\ DOMAIN csJob' = 1..2 /\ Len(csJob') = 2
          /\ csJob'[1] = Write("pem", Pem(c)) /\ csJob'[2] = Write("pin", Pin(c))
      BY <2>2
    <3>2. Writes("pem")' = {1} /\ Writes("pin")' = {2}
      BY <3>1, Operations, SMTT(30) DEF Writes
    <3>3. PhoneOp(c)'
      <4>1. csJob'[1].op = "write" /\ csJob'[1].to = Pem(c) /\ csJob'[2].op = "write" /\ csJob'[2].to = Pin(c)
        BY <3>1, Operations, SMTT(30)
      <4>2. csDisk'["pin"] = Missing
        BY <2>1, <2>2, Zenon DEF Exists
      <4>3. \A n \in DOMAIN csJob' : csJob'[n].op = "write"
        BY <3>1, <4>1
      <4>4. 1 # 2
        OBVIOUS
      <4> QED BY <3>1, <3>2, <4>1, <4>2, <4>3, <4>4, Zenon DEF PhoneOp
    <3> QED BY <2>1, <3>3, Zenon DEF PhoneInv, PemMatchesPin, Whole
  <2>3. CASE csJob' = <<Write("pem", Pem(c))>> /\ csDisk["pin"] = Pin(c)
    <3>1. DOMAIN csJob' = {1} /\ csJob'[1] = Write("pem", Pem(c))
      BY <2>3, SMTT(30)
    <3>2. Writes("pem")' = {1} /\ Writes("pin")' = {}
      BY <3>1, Operations, SMTT(30) DEF Writes
    <3>3. PhoneOp(c)'
      <4>1. csJob'[1].op = "write" /\ csJob'[1].to = Pem(c)
        BY <3>1, Operations, SMTT(30)
      <4> QED BY <2>1, <2>3, <3>1, <3>2, <4>1, Zenon DEF PhoneOp
    <3> QED BY <2>1, <3>3, Zenon DEF PhoneInv, PemMatchesPin, Whole
  <2>4. CASE csJob' = <<>>
    BY <1>1, <2>1, <2>4, Zenon
  <2> QED BY <2>1, <2>2, <2>3, <2>4, Zenon DEF store_peer_certificate
<1>8. ASSUME CsExpire PROVE PhoneInv'
  <2>1. csDisk'["pem"] = csDisk["pem"] /\ csDisk'["pin"] = csDisk["pin"] /\ UNCHANGED csJob
    BY <1>8, Zenon DEF CsExpire, IdentityInv, CsTypes, CsFiles
  <2> QED BY <1>2, <2>1, Zenon
<1>9. CASE CsStarted \/ UNCHANGED csVars
  BY <1>2, <1>9, Zenon DEF CsStarted, csVars
<1>10. CASE CsCrash
  BY <1>1, <1>10, Zenon DEF CsCrash
<1> QED BY <1>4, <1>5, <1>6, <1>7, <1>8, <1>9, <1>10, PhoneOperate, Zenon DEF CsNext

\* The machine starts without files of the phone.
LEMMA PhoneInit == CsInit => PhoneInv
<1> SUFFICES ASSUME CsInit PROVE PhoneInv
  BY Zenon
<1>1. csJob = <<>> /\ csDisk["pem"] = Missing /\ csDisk["pin"] = Missing
  BY DEF CsInit, CsEmpty, CsFiles
<1>2. Writes("pem") = {} /\ Writes("pin") = {}
  BY <1>1 DEF Writes
<1> QED BY <1>1, <1>2, Zenon DEF PhoneInv, PemMatchesPin, Whole


\* The machine keeps its id through every crash.
THEOREM IdentityStays == CsSpec => []IdentityKept
<1>1. IdentityInv => IdentityKept
  BY Zenon DEF IdentityInv, IdentityKept
<1> QED BY <1>1, IdentityInit, IdentityStep, PTL DEF CsSpec

\* The stored PEM is the one of the pin.
THEOREM PinsFit == CsSpec => []PemMatchesPin
<1>1. PhoneInv => PemMatchesPin
  BY Zenon DEF PhoneInv
<1>2. IdentityInv /\ PhoneInv /\ [CsNext]_csVars => IdentityInv' /\ PhoneInv'
  BY IdentityStep, PhoneStep, Zenon
<1> QED BY <1>1, <1>2, IdentityInit, PhoneInit, PTL DEF CsSpec
=============================================================================
