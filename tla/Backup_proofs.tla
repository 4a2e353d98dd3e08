---------------------------- MODULE Backup_proofs ----------------------------
(***************************************************************************)
(* Proofs about Backup for every chain, day, number of backup() goroutines *)
(* and of crashes, with or without failing file operations.                *)
(***************************************************************************)
EXTENDS Backup, TLAPS

\* A goroutine past the test of establishing_backup, and one that has a copy.
Active == {"copying", "copied", "renamed", "compacting", "cleanup", "finish"}
Copied == {"copied", "renamed", "compacting"}

\* The flag lets one goroutine through at a time.
OneBackup ==
    /\ \A g \in Goroutines : bpc[g] \in Active => establishing_backup
    /\ \A g, h \in Goroutines : bpc[g] \in Active /\ bpc[h] \in Active => g = h

\* What was found or handed over is indexed unless it is still on its way.
GivenInv == given \subseteq main.items \cup queued \cup held

\* What a backup is to save is in the database when it starts, in the snapshot
\* while it works, and in .bak when it is through.
WantInv ==
    \A g \in Goroutines :
        /\ want[g] \subseteq main.items
        /\ bpc[g] \in {"copying"} \cup Copied => want[g] \subseteq snapshot.items
        /\ bpc[g] \in {"cleanup", "finish"} => spoiled \/ want[g] \subseteq bak.items

\* The database is readable, and a copy that no write overlapped is too.
SoundInv ==
    /\ main.sound
    /\ \A g \in Goroutines :
         /\ bpc[g] = "copying" => snapshot.sound
         /\ bpc[g] \in Copied => spoiled \/ snapshot.sound

\* Where the sound backup is: under .bak outside the window between rename and
\* compact, under .bak.tmp within it and after the first crash in it.
CopyInv ==
    had /\ ~ spoiled =>
        /\ cuts = 0 /\ ~ InWindow => bak.sound
        /\ cuts = 0 /\ InWindow => tmp.sound
        /\ cuts = 1 /\ ~ InWindow => tmp.sound

\* A backup that has compacted without an error starts the count anew.
CutsInv ==
    \A g \in Goroutines :
        bpc[g] \in {"cleanup", "finish"} /\ ~ spoiled => had /\ cuts = 0

IndInv ==
    /\ TypeOK
    /\ OneBackup
    /\ GivenInv
    /\ WantInv
    /\ SoundInv
    /\ CopyInv
    /\ CutsInv
    /\ BackupCovers

-----------------------------------------------------------------------------
\* What the operations on files yield.
LEMMA FileFacts ==
    ASSUME NEW f \in FileType
    PROVE  /\ Empty \in FileType
           /\ f.items \subseteq Txs /\ f.height \in 0 .. MaxTopo /\ f.sound \in BOOLEAN
           /\ [f EXCEPT !.sound = FALSE] \in FileType
           /\ \A h \in 0 .. MaxTopo : [f EXCEPT !.height = h] \in FileType
           /\ \A t \in Txs, h \in 0 .. MaxTopo :
                [f EXCEPT !.items = @ \cup {t}, !.height = h] \in FileType
<1>1. Empty \in FileType
  BY BackupAssumption DEF FileType, Empty
<1>2. f.items \subseteq Txs /\ f.height \in 0 .. MaxTopo /\ f.sound \in BOOLEAN
  BY DEF FileType
<1>3. [f EXCEPT !.sound = FALSE] \in FileType
  BY DEF FileType
<1>4. ASSUME NEW h \in 0 .. MaxTopo PROVE [f EXCEPT !.height = h] \in FileType
  BY DEF FileType
<1>5. ASSUME NEW t \in Txs, NEW h \in 0 .. MaxTopo
      PROVE  [f EXCEPT !.items = @ \cup {t}, !.height = h] \in FileType
  <2>1. f.items \cup {t} \in SUBSET Txs
    BY <1>2
  <2>2. QED
    BY <2>1 DEF FileType
<1>6. QED
  BY <1>1, <1>2, <1>3, <1>4, <1>5

\* backup_database stays a file when it is written to.
LEMMA WriteLiveType ==
    ASSUME TypeOK, NEW f \in FileType, WriteLive(f)
    PROVE  {bak', tmp', gone'} \subseteq FileType /\ handle' \in {"bak", "tmp", "gone"}
  BY DEF TypeOK, WriteLive

\* What backup_database has open is a file.
LEMMA LiveType == TypeOK => Live \in FileType
  BY DEF TypeOK, Live

\* The invariant holds initially.
LEMMA InitIndInv == Init => IndInv
<1> SUFFICES ASSUME Init PROVE IndInv
  OBVIOUS
<1>1. topo \in 1 .. MaxTopo /\ Empty \in FileType
  BY BackupAssumption DEF Init, FileType, Empty
<1>2. /\ main \in FileType /\ bak \in FileType /\ lowest_height \in 0 .. topo
      /\ main.sound /\ main.items \subseteq Txs
      /\ had \in BOOLEAN /\ (had => bak.sound)
  <2>1. PICK h \in 0 .. topo :
          /\ main = [items |-> Below(0, h), height |-> h, sound |-> TRUE]
          /\ lowest_height = h
          /\ bak = IF h = 0 THEN Empty ELSE main
          /\ had = bak.sound
    BY DEF Init
  <2>2. Below(0, h) \subseteq Txs /\ h \in 0 .. MaxTopo
    BY <1>1, BackupAssumption DEF Below
  <2>3. main \in FileType /\ main.sound /\ main.items \subseteq Txs
    BY <2>1, <2>2 DEF FileType
  <2>4. bak \in FileType /\ bak.sound \in BOOLEAN
    BY <1>1, <2>1, <2>3, FileFacts
  <2>5. QED
    BY <2>1, <2>3, <2>4
<1>3. TypeOK
  <2>1. {main, bak, tmp, gone, snapshot} \subseteq FileType
    BY <1>1, <1>2 DEF Init
  <2>2. {committed, establishing_backup, established_backup, had, spoiled} \subseteq BOOLEAN
    BY <1>2 DEF Init
  <2>3. /\ bpc \in [Goroutines -> Steps] /\ want \in [Goroutines -> SUBSET Txs]
        /\ handle \in {"bak", "tmp", "gone"} /\ hpc \in {"head", "achieve", "decide", "wait"}
    BY DEF Init, Steps
  <2>4. cuts \in Nat /\ crashes \in 0 .. MaxCrashes /\ achieved_current_height \in 0 .. topo
    BY <1>1, BackupAssumption DEF Init
  <2>5. /\ queued \subseteq Txs /\ held \subseteq Txs /\ incremental \subseteq Txs
        /\ reported \subseteq Txs /\ given \subseteq Txs /\ promised \subseteq Txs
    BY <1>2 DEF Init
  <2>6. QED
    BY <1>1, <1>2, <2>1, <2>2, <2>3, <2>4, <2>5 DEF TypeOK
<1>4. OneBackup /\ GivenInv /\ WantInv /\ SoundInv /\ CutsInv
  BY <1>2 DEF Init, OneBackup, GivenInv, WantInv, SoundInv, CutsInv, Active, Copied
<1>5. CopyInv /\ BackupCovers
  BY <1>2 DEF Init, CopyInv, BackupCovers, InWindow
<1>6. QED
  BY <1>3, <1>4, <1>5 DEF IndInv

\* Every step keeps it.
LEMMA NextIndInv == IndInv /\ [Next]_vars => IndInv'
<1> SUFFICES ASSUME IndInv, [Next]_vars PROVE IndInv'
  OBVIOUS
<1> USE BackupAssumption DEF IndInv, pass, work, files, flags, history, Go
<1>1. CASE Pass
  <2>1. TypeOK'
    <3>1. {main', bak', tmp', gone', snapshot'} \subseteq FileType
      <4>1. achieved_current_height \in 0 .. MaxTopo /\ Live \in FileType /\ main \in FileType
        BY LiveType DEF TypeOK
      <4>2. /\ [main EXCEPT !.height = achieved_current_height] \in FileType
            /\ [Live EXCEPT !.height = achieved_current_height] \in FileType
        BY <4>1, FileFacts
      <4>3. {bak', tmp', gone'} \subseteq FileType
        BY <1>1, <4>2, WriteLiveType DEF Pass, TypeOK
      <4>4. QED
        BY <1>1, <4>1, <4>2, <4>3 DEF Pass, TypeOK
    <3>2. QED
      <4>1. topo \in 0 .. topo /\ Below(lowest_height, topo) \subseteq Txs
        BY DEF TypeOK, Below
      <4>2. QED
        BY <1>1, <3>1, <4>1 DEF Pass, TypeOK, WriteLive
  <2>2. OneBackup'
    BY <1>1 DEF Pass, OneBackup, Active, TypeOK
  <2>3. GivenInv'
    BY <1>1 DEF Pass, GivenInv, Below, FileType, TypeOK
  <2>4. WantInv'
    BY <1>1 DEF Pass, WantInv, Copied, TypeOK, WriteLive, Live, FileType
  <2>5. SoundInv'
    BY <1>1 DEF Pass, SoundInv, Copied, TypeOK, FileType
  <2>6. CopyInv'
    BY <1>1 DEF Pass, CopyInv, InWindow, TypeOK, WriteLive, Live, FileType
  <2>7. CutsInv'
    BY <1>1 DEF Pass, CutsInv, TypeOK, WriteLive, Live
  <2>8. BackupCovers'
    BY <1>1 DEF Pass, BackupCovers, WriteLive, Live, FileType, TypeOK
  <2>9. QED
    BY <2>1, <2>2, <2>3, <2>4, <2>5, <2>6, <2>7, <2>8
<1>2. CASE Achieve
  <2>1. TypeOK'
    <3>1. {main', bak', tmp', gone', snapshot'} \subseteq FileType
      BY <1>2, FileFacts DEF Achieve, TypeOK
    <3>2. QED
      BY <1>2, <3>1 DEF Achieve, TypeOK, Steps
  <2>2. /\ OneBackup' /\ GivenInv' /\ WantInv' /\ SoundInv'
        /\ CopyInv' /\ CutsInv' /\ BackupCovers'
    BY <1>2 DEF Achieve, OneBackup, GivenInv, WantInv, SoundInv, CopyInv, CutsInv,
       BackupCovers, InWindow
  <2>3. QED
    BY <2>1, <2>2
<1>3. CASE Decide
  <2>1. TypeOK'
    <3>1. {main', bak', tmp', gone', snapshot'} \subseteq FileType
      BY <1>3, FileFacts DEF Decide, TypeOK
    <3>2. QED
      BY <1>3, <3>1 DEF Decide, TypeOK, Steps
  <2>2. /\ OneBackup' /\ GivenInv' /\ WantInv' /\ SoundInv'
        /\ CopyInv' /\ CutsInv' /\ BackupCovers'
    BY <1>3 DEF Decide, OneBackup, GivenInv, WantInv, SoundInv, CopyInv, CutsInv,
       BackupCovers, InWindow
  <2>3. QED
    BY <2>1, <2>2
<1>4. CASE Launch
  <2>1. TypeOK'
    <3>1. {main', bak', tmp', gone', snapshot'} \subseteq FileType
      BY <1>4, FileFacts DEF Launch, TypeOK
    <3>2. QED
      BY <1>4, <3>1 DEF Launch, TypeOK, Steps
  <2>2. OneBackup'
    BY <1>4 DEF Launch, OneBackup, Active, TypeOK
  <2>3. GivenInv'
    BY <1>4 DEF Launch, GivenInv
  <2>4. WantInv'
    BY <1>4 DEF Launch, WantInv, Copied, TypeOK, GivenInv
  <2>5. SoundInv'
    BY <1>4 DEF Launch, SoundInv, Copied, TypeOK
  <2>6. CopyInv'
    BY <1>4 DEF Launch, CopyInv, InWindow, TypeOK
  <2>7. CutsInv'
    BY <1>4 DEF Launch, CutsInv, TypeOK
  <2>8. BackupCovers'
    BY <1>4 DEF Launch, BackupCovers
  <2>9. QED
    BY <2>1, <2>2, <2>3, <2>4, <2>5, <2>6, <2>7, <2>8
<1>5. CASE NewBlock
  <2>1. TypeOK'
    <3>1. {main', bak', tmp', gone', snapshot'} \subseteq FileType
      BY <1>5, FileFacts DEF NewBlock, TypeOK
    <3>2. QED
      BY <1>5, <3>1 DEF NewBlock, TypeOK, Steps
  <2>2. /\ OneBackup' /\ GivenInv' /\ WantInv' /\ SoundInv'
        /\ CopyInv' /\ CutsInv' /\ BackupCovers'
    BY <1>5 DEF NewBlock, OneBackup, GivenInv, WantInv, SoundInv, CopyInv, CutsInv,
       BackupCovers, InWindow
  <2>3. QED
    BY <2>1, <2>2
<1>6. ASSUME ProcessEnds,
              UNCHANGED <<tmp, spoiled>> \/ (tmp' = Empty /\ spoiled' = TRUE)
      PROVE  IndInv'
  <2>1. TypeOK'
    <3>1. {main', bak', tmp', gone', snapshot'} \subseteq FileType
      BY <1>6, FileFacts DEF ProcessEnds, TypeOK
    <3>2. QED
      <4>1. main \in FileType /\ topo \in 1 .. MaxTopo
        BY DEF TypeOK
      <4>2. main.items \subseteq Txs /\ main.height \in 0 .. MaxTopo
        BY <4>1, FileFacts
      <4>3. main.items \subseteq Txs /\ Lesser(topo, main.height) \in 0 .. topo
        BY <4>1, <4>2 DEF Lesser
      <4>4. cuts' \in Nat /\ crashes' \in 0 .. MaxCrashes
        BY <1>6 DEF ProcessEnds, TypeOK
      <4>5. /\ bpc' \in [Goroutines -> Steps] /\ want' \in [Goroutines -> SUBSET Txs]
            /\ hpc' = "head" /\ handle' = "bak" /\ topo' = topo
            /\ lowest_height' \in 0 .. topo /\ achieved_current_height' \in 0 .. topo
        BY <1>6, <4>1, <4>3 DEF ProcessEnds, Steps
      <4>6. /\ queued' \subseteq Txs /\ held' \subseteq Txs /\ incremental' \subseteq Txs
            /\ reported' \subseteq Txs /\ given' \subseteq Txs /\ promised' \subseteq Txs
        BY <1>6, <4>3 DEF ProcessEnds
      <4>7. {committed', establishing_backup', established_backup', had', spoiled'} \subseteq BOOLEAN
        BY <1>6 DEF ProcessEnds, TypeOK
      <4>8. QED
        BY <3>1, <4>1, <4>4, <4>5, <4>6, <4>7 DEF TypeOK
  <2>2. OneBackup'
    BY <1>6 DEF ProcessEnds, OneBackup, Active, TypeOK
  <2>3. GivenInv'
    BY <1>6 DEF ProcessEnds, GivenInv
  <2>4. WantInv'
    BY <1>6 DEF ProcessEnds, WantInv, Copied, TypeOK
  <2>5. SoundInv'
    BY <1>6 DEF ProcessEnds, SoundInv, Copied, TypeOK
  <2>6. CopyInv'
    BY <1>6 DEF ProcessEnds, CopyInv, InWindow, TypeOK
  <2>7. CutsInv'
    BY <1>6 DEF ProcessEnds, CutsInv, TypeOK
  <2>8. BackupCovers'
    BY <1>6 DEF ProcessEnds, BackupCovers
  <2>9. QED
    BY <2>1, <2>2, <2>3, <2>4, <2>5, <2>6, <2>7, <2>8
<1>7. ASSUME NEW t \in Txs, Take(t) PROVE IndInv'
  <2>1. TypeOK'
    <3>1. {main', bak', tmp', gone', snapshot'} \subseteq FileType
      BY <1>7, FileFacts DEF Take, TypeOK
    <3>2. QED
      BY <1>7, <3>1 DEF Take, TypeOK, Steps
  <2>2. OneBackup'
    BY <1>7 DEF Take, OneBackup, Active, TypeOK
  <2>3. GivenInv'
    BY <1>7 DEF Take, GivenInv
  <2>4. WantInv'
    BY <1>7 DEF Take, WantInv, Copied, TypeOK
  <2>5. SoundInv'
    BY <1>7 DEF Take, SoundInv, Copied, TypeOK
  <2>6. CopyInv'
    BY <1>7 DEF Take, CopyInv, InWindow, TypeOK
  <2>7. CutsInv'
    BY <1>7 DEF Take, CutsInv, TypeOK
  <2>8. BackupCovers'
    BY <1>7 DEF Take, BackupCovers
  <2>9. QED
    BY <2>1, <2>2, <2>3, <2>4, <2>5, <2>6, <2>7, <2>8
<1>8. ASSUME NEW t \in Txs, Write(t) PROVE IndInv'
  <2>1. TypeOK'
    <3>1. {main', bak', tmp', gone', snapshot'} \subseteq FileType
      <4>1. t \in 0 .. MaxTopo /\ main \in FileType
        BY DEF TypeOK
      <4>2. [main EXCEPT !.items = @ \cup {t}, !.height = t] \in FileType
        BY <4>1, FileFacts
      <4>3. QED
        BY <1>8, <4>2 DEF Write, TypeOK
    <3>2. QED
      BY <1>8, <3>1, FileFacts DEF Write, TypeOK, Steps
  <2>2. OneBackup'
    BY <1>8 DEF Write, OneBackup, Active, TypeOK
  <2>3. GivenInv'
    BY <1>8 DEF Write, GivenInv, FileType, TypeOK
  <2>4. WantInv'
    BY <1>8 DEF Write, WantInv, Copied, TypeOK, FileType
  <2>5. SoundInv'
    BY <1>8 DEF Write, SoundInv, Copied, TypeOK, FileType
  <2>6. CopyInv'
    BY <1>8 DEF Write, CopyInv, InWindow, TypeOK, FileType
  <2>7. CutsInv'
    BY <1>8 DEF Write, CutsInv, TypeOK
  <2>8. BackupCovers'
    BY <1>8 DEF Write, BackupCovers, FileType, TypeOK
  <2>9. QED
    BY <2>1, <2>2, <2>3, <2>4, <2>5, <2>6, <2>7, <2>8
<1>9. ASSUME NEW t \in Txs, Incremental(t) PROVE IndInv'
  <2>1. TypeOK'
    <3>1. {main', bak', tmp', gone', snapshot'} \subseteq FileType
      <4>1. t \in 0 .. MaxTopo /\ Live \in FileType
        BY LiveType DEF TypeOK
      <4>2. [Live EXCEPT !.items = @ \cup {t}, !.height = t] \in FileType
        BY <4>1, FileFacts
      <4>3. QED
        BY <1>9, <4>2, WriteLiveType DEF Incremental, TypeOK
    <3>2. QED
      BY <1>9, <3>1 DEF Incremental, TypeOK, Steps, WriteLive
  <2>2. OneBackup'
    BY <1>9 DEF Incremental, OneBackup, Active, TypeOK
  <2>3. GivenInv'
    BY <1>9 DEF Incremental, GivenInv, FileType, TypeOK
  <2>4. WantInv'
    BY <1>9 DEF Incremental, WantInv, Copied, TypeOK, WriteLive, Live, FileType
  <2>5. SoundInv'
    BY <1>9 DEF Incremental, SoundInv, Copied, TypeOK, FileType
  <2>6. CopyInv'
    BY <1>9 DEF Incremental, CopyInv, InWindow, TypeOK, WriteLive, Live, FileType
  <2>7. CutsInv'
    BY <1>9 DEF Incremental, CutsInv, TypeOK, WriteLive, Live
  <2>8. BackupCovers'
    BY <1>9 DEF Incremental, BackupCovers, WriteLive, Live, FileType, TypeOK
  <2>9. QED
    BY <2>1, <2>2, <2>3, <2>4, <2>5, <2>6, <2>7, <2>8
<1>10. ASSUME NEW g \in Goroutines, Begin(g) PROVE IndInv'
  <2>1. TypeOK'
    <3>1. {main', bak', tmp', gone', snapshot'} \subseteq FileType
      BY <1>10, FileFacts DEF Begin, TypeOK
    <3>2. QED
      BY <1>10, <3>1 DEF Begin, TypeOK, Steps
  <2>2. OneBackup'
    BY <1>10 DEF Begin, OneBackup, Active, TypeOK
  <2>3. GivenInv'
    BY <1>10 DEF Begin, GivenInv
  <2>4. WantInv'
    BY <1>10 DEF Begin, WantInv, Copied, TypeOK, OneBackup, Active
  <2>5. SoundInv'
    BY <1>10 DEF Begin, SoundInv, Copied, TypeOK, OneBackup, Active
  <2>6. CopyInv'
    BY <1>10 DEF Begin, CopyInv, InWindow, TypeOK, OneBackup, Active, SoundInv,
       CutsInv, Copied
  <2>7. CutsInv'
    BY <1>10 DEF Begin, CutsInv, TypeOK, OneBackup, Active, SoundInv, Copied
  <2>8. BackupCovers'
    BY <1>10 DEF Begin, BackupCovers, OneBackup, Active, WantInv, TypeOK
  <2>9. QED
    BY <2>1, <2>2, <2>3, <2>4, <2>5, <2>6, <2>7, <2>8
<1>11. ASSUME NEW g \in Goroutines, CopyEnd(g) PROVE IndInv'
  <2>1. TypeOK'
    <3>1. {main', bak', tmp', gone', snapshot'} \subseteq FileType
      BY <1>11, FileFacts DEF CopyEnd, TypeOK
    <3>2. QED
      BY <1>11, <3>1 DEF CopyEnd, TypeOK, Steps
  <2>2. OneBackup'
    BY <1>11 DEF CopyEnd, OneBackup, Active, TypeOK
  <2>3. GivenInv'
    BY <1>11 DEF CopyEnd, GivenInv, FileType, TypeOK
  <2>4. WantInv'
    BY <1>11 DEF CopyEnd, WantInv, Copied, TypeOK, OneBackup, Active, FileType
  <2>5. SoundInv'
    BY <1>11 DEF CopyEnd, SoundInv, Copied, TypeOK, OneBackup, Active, FileType
  <2>6. CopyInv'
    BY <1>11 DEF CopyEnd, CopyInv, InWindow, TypeOK, OneBackup, Active, SoundInv,
       CutsInv, Copied, FileType
  <2>7. CutsInv'
    BY <1>11 DEF CopyEnd, CutsInv, TypeOK, OneBackup, Active, SoundInv, Copied
  <2>8. BackupCovers'
    BY <1>11 DEF CopyEnd, BackupCovers, OneBackup, Active, WantInv, TypeOK, FileType
  <2>9. QED
    BY <2>1, <2>2, <2>3, <2>4, <2>5, <2>6, <2>7, <2>8
<1>12. ASSUME NEW g \in Goroutines, Rename(g) PROVE IndInv'
  <2>1. TypeOK'
    <3>1. {main', bak', tmp', gone', snapshot'} \subseteq FileType
      BY <1>12, FileFacts DEF Rename, TypeOK
    <3>2. QED
      BY <1>12, <3>1 DEF Rename, TypeOK, Steps
  <2>2. OneBackup'
    BY <1>12 DEF Rename, OneBackup, Active, TypeOK
  <2>3. GivenInv'
    BY <1>12 DEF Rename, GivenInv
  <2>4. WantInv'
    BY <1>12 DEF Rename, WantInv, Copied, TypeOK, OneBackup, Active
  <2>5. SoundInv'
    BY <1>12 DEF Rename, SoundInv, Copied, TypeOK, OneBackup, Active
  <2>6. CopyInv'
    BY <1>12 DEF Rename, CopyInv, InWindow, TypeOK, OneBackup, Active, SoundInv,
       CutsInv, Copied
  <2>7. CutsInv'
    BY <1>12 DEF Rename, CutsInv, TypeOK, OneBackup, Active, SoundInv, Copied
  <2>8. BackupCovers'
    BY <1>12 DEF Rename, BackupCovers, OneBackup, Active, WantInv, TypeOK
  <2>9. QED
    BY <2>1, <2>2, <2>3, <2>4, <2>5, <2>6, <2>7, <2>8
<1>13. ASSUME NEW g \in Goroutines, CompactBegin(g) PROVE IndInv'
  <2>1. TypeOK'
    <3>1. {main', bak', tmp', gone', snapshot'} \subseteq FileType
      BY <1>13, FileFacts DEF CompactBegin, TypeOK
    <3>2. QED
      BY <1>13, <3>1 DEF CompactBegin, TypeOK, Steps
  <2>2. OneBackup'
    BY <1>13 DEF CompactBegin, OneBackup, Active, TypeOK
  <2>3. GivenInv'
    BY <1>13 DEF CompactBegin, GivenInv, FileType, TypeOK
  <2>4. WantInv'
    BY <1>13 DEF CompactBegin, WantInv, Copied, TypeOK, OneBackup, Active, FileType
  <2>5. SoundInv'
    BY <1>13 DEF CompactBegin, SoundInv, Copied, TypeOK, OneBackup, Active, FileType
  <2>6. CopyInv'
    BY <1>13 DEF CompactBegin, CopyInv, InWindow, TypeOK, OneBackup, Active, SoundInv,
       CutsInv, Copied, FileType
  <2>7. CutsInv'
    BY <1>13 DEF CompactBegin, CutsInv, TypeOK, OneBackup, Active, SoundInv, Copied
  <2>8. BackupCovers'
    BY <1>13 DEF CompactBegin, BackupCovers, OneBackup, Active, WantInv, TypeOK,
       FileType
  <2>9. QED
    BY <2>1, <2>2, <2>3, <2>4, <2>5, <2>6, <2>7, <2>8
<1>14. ASSUME NEW g \in Goroutines, CompactEnd(g) PROVE IndInv'
  <2>1. TypeOK'
    <3>1. {main', bak', tmp', gone', snapshot'} \subseteq FileType
      BY <1>14, FileFacts DEF CompactEnd, TypeOK
    <3>2. QED
      BY <1>14, <3>1 DEF CompactEnd, TypeOK, Steps
  <2>2. OneBackup'
    BY <1>14 DEF CompactEnd, OneBackup, Active, TypeOK
  <2>3. GivenInv'
    BY <1>14 DEF CompactEnd, GivenInv
  <2>4. WantInv'
    BY <1>14 DEF CompactEnd, WantInv, Copied, TypeOK, OneBackup, Active
  <2>5. SoundInv'
    BY <1>14 DEF CompactEnd, SoundInv, Copied, TypeOK, OneBackup, Active
  <2>6. CopyInv'
    BY <1>14 DEF CompactEnd, CopyInv, InWindow, TypeOK, OneBackup, Active, SoundInv,
       CutsInv, Copied
  <2>7. CutsInv'
    BY <1>14 DEF CompactEnd, CutsInv, TypeOK, OneBackup, Active, SoundInv, Copied
  <2>8. BackupCovers'
    BY <1>14 DEF CompactEnd, BackupCovers, OneBackup, Active, WantInv, TypeOK
  <2>9. QED
    BY <2>1, <2>2, <2>3, <2>4, <2>5, <2>6, <2>7, <2>8
<1>15. ASSUME NEW g \in Goroutines, Fail(g) PROVE IndInv'
  <2>1. TypeOK'
    <3>1. {main', bak', tmp', gone', snapshot'} \subseteq FileType
      BY <1>15, FileFacts DEF Fail, Failing, TypeOK
    <3>2. QED
      BY <1>15, <3>1 DEF Fail, Failing, TypeOK, Steps
  <2>2. OneBackup'
    BY <1>15 DEF Fail, Failing, OneBackup, Active, TypeOK
  <2>3. GivenInv'
    BY <1>15 DEF Fail, Failing, GivenInv
  <2>4. WantInv'
    BY <1>15 DEF Fail, Failing, WantInv, Copied, TypeOK, OneBackup, Active
  <2>5. SoundInv'
    BY <1>15 DEF Fail, Failing, SoundInv, Copied, TypeOK, OneBackup, Active
  <2>6. CopyInv'
    BY <1>15 DEF Fail, Failing, CopyInv, InWindow, TypeOK, OneBackup, Active, SoundInv,
       CutsInv, Copied
  <2>7. CutsInv'
    BY <1>15 DEF Fail, Failing, CutsInv, TypeOK, OneBackup, Active, SoundInv, Copied
  <2>8. BackupCovers'
    BY <1>15 DEF Fail, Failing, BackupCovers, OneBackup, Active, WantInv, TypeOK
  <2>9. QED
    BY <2>1, <2>2, <2>3, <2>4, <2>5, <2>6, <2>7, <2>8
<1>16. ASSUME NEW g \in Goroutines, Cleanup(g) PROVE IndInv'
  <2>1. TypeOK'
    <3>1. {main', bak', tmp', gone', snapshot'} \subseteq FileType
      BY <1>16, FileFacts DEF Cleanup, TypeOK
    <3>2. QED
      BY <1>16, <3>1 DEF Cleanup, TypeOK, Steps
  <2>2. OneBackup'
    BY <1>16 DEF Cleanup, OneBackup, Active, TypeOK
  <2>3. GivenInv'
    BY <1>16 DEF Cleanup, GivenInv
  <2>4. WantInv'
    BY <1>16 DEF Cleanup, WantInv, Copied, TypeOK, OneBackup, Active
  <2>5. SoundInv'
    BY <1>16 DEF Cleanup, SoundInv, Copied, TypeOK, OneBackup, Active
  <2>6. CopyInv'
    BY <1>16 DEF Cleanup, CopyInv, InWindow, TypeOK, OneBackup, Active, SoundInv,
       CutsInv, Copied
  <2>7. CutsInv'
    BY <1>16 DEF Cleanup, CutsInv, TypeOK, OneBackup, Active, SoundInv, Copied
  <2>8. BackupCovers'
    BY <1>16 DEF Cleanup, BackupCovers, OneBackup, Active, WantInv, TypeOK
  <2>9. QED
    BY <2>1, <2>2, <2>3, <2>4, <2>5, <2>6, <2>7, <2>8
<1>17. ASSUME NEW g \in Goroutines, Finish(g) PROVE IndInv'
  <2>1. TypeOK'
    <3>1. {main', bak', tmp', gone', snapshot'} \subseteq FileType
      BY <1>17, FileFacts DEF Finish, TypeOK
    <3>2. QED
      BY <1>17, <3>1 DEF Finish, TypeOK, Steps
  <2>2. OneBackup'
    BY <1>17 DEF Finish, OneBackup, Active, TypeOK
  <2>3. GivenInv'
    BY <1>17 DEF Finish, GivenInv
  <2>4. WantInv'
    BY <1>17 DEF Finish, WantInv, Copied, TypeOK, OneBackup, Active
  <2>5. SoundInv'
    BY <1>17 DEF Finish, SoundInv, Copied, TypeOK, OneBackup, Active
  <2>6. CopyInv'
    BY <1>17 DEF Finish, CopyInv, InWindow, TypeOK, OneBackup, Active, SoundInv,
       CutsInv, Copied
  <2>7. CutsInv'
    BY <1>17 DEF Finish, CutsInv, TypeOK, OneBackup, Active, SoundInv, Copied
  <2>8. BackupCovers'
    BY <1>17 DEF Finish, BackupCovers, OneBackup, Active, WantInv, TypeOK
  <2>9. QED
    BY <2>1, <2>2, <2>3, <2>4, <2>5, <2>6, <2>7, <2>8
<1>18. CASE UNCHANGED vars
  BY <1>18 DEF vars, TypeOK, OneBackup, GivenInv, WantInv, SoundInv, CopyInv, CutsInv,
     BackupCovers, InWindow
<1>19. QED
    BY <1>1, <1>2, <1>3, <1>4, <1>5, <1>6, <1>7, <1>8, <1>9, <1>10, <1>11, <1>12, <1>13,
     <1>14, <1>15, <1>16, <1>17, <1>18 DEF Next, HeightStep, BackupStep, Crash, Panic

\* The invariant holds in every reachable state.
THEOREM Invariance == Spec => []IndInv
<1>1. Init => IndInv
  BY InitIndInv
<1>2. IndInv /\ [Next]_vars => IndInv'
  BY NextIndInv
<1>3. QED
  BY <1>1, <1>2, PTL DEF Spec

-----------------------------------------------------------------------------
\* The variables keep their types, the files their form.
THEOREM TypeCorrect == Spec => []TypeOK
<1>1. IndInv => TypeOK
  BY DEF IndInv
<1>2. QED
  BY <1>1, Invariance, PTL

\* Whatever runs between the launch of a backup and the moment it reports
\* success, what it was launched to save is in .bak; for any number of
\* backup() goroutines and of restarts.
THEOREM BackupCoversHolds == Spec => []BackupCovers
<1>1. IndInv => BackupCovers
  BY DEF IndInv
<1>2. QED
  BY <1>1, Invariance, PTL

\* A first crash anywhere in a backup leaves a sound copy under .bak or
\* .bak.tmp.
THEOREM ProtectedCopyHolds == Spec => []ProtectedCopy
<1>1. IndInv => ProtectedCopy
  BY DEF IndInv, CopyInv, ProtectedCopy
<1>2. QED
  BY <1>1, Invariance, PTL
=============================================================================
