----------------------------- MODULE FatFsProofs -----------------------------
(***************************************************************************)
(* Proofs about FatFs, for every layout of the card, every path, every     *)
(* number of calls and every fault: the types, which say what each area of *)
(* the card may hold, and the count of free clusters.                      *)
(*                                                                         *)
(* A call of FatFs is a chain of functions on records; the proof follows   *)
(* it function by function, from disk_write up to the calls.  Of each      *)
(* function a lemma says how the state it returns is related to the one it *)
(* got: Works when it works on the volume alone, Goes when it may set the  *)
(* file object as well, Runs for a whole call.  A loop with a bound is     *)
(* Repeat; LoopIn makes its states a function, and StaysIn is the          *)
(* induction over its turns.                                               *)
(***************************************************************************)
EXTENDS FatFs, Integers, FiniteSetTheorems, WellFoundedInduction, TLAPS

-----------------------------------------------------------------------------
(* What the objects hold, what holds of them, and where the sectors are. *)

(* What a function of FatFs returns, and how it goes on inside one. *)
Results == {"FR_OK", "FR_DISK_ERR", "FR_INT_ERR", "FR_NOT_READY", "FR_NO_FILE", "FR_NO_PATH",
            "FR_INVALID_NAME", "FR_DENIED", "FR_EXIST", "FR_INVALID_OBJECT",
            "FR_NO_FILESYSTEM", "full", "more"}

(* The FIL object. *)
Objects == [open : BOOLEAN, flag : SUBSET Flags, err : Results, sclust : {0} \cup Clusters,
            objsize : Nat, fptr : Nat, clust : Nat, sect : Nat, dir_sect : Nat,
            dir_ptr : 0 .. DirPerSector - 1, buf : [Units -> Nat]]

(* The DIR objects, of f_readdir and of the call that runs. *)
Dirs == [open : BOOLEAN, sclust : {0} \cup Clusters, dptr : Nat, clust : Nat, sect : Nat,
         fn : Names, attr : Attributes, last : BOOLEAN, noname : BOOLEAN]

(* The FATFS object. *)
Volumes == [fs_type : Nat, win : Blocks, winsect : Nat, wflag : BOOLEAN,
            free_clst : FreeCounts, last_clst : LastClusters, fsi_flag : Nat]

(* The window holds a block that its sector may hold; what is pending in   *)
(* it belongs to the first FAT or to the data area of a mounted volume; a  *)
(* sector of the FAT that is not pending is the card's.                    *)
WindowOK(d, f) ==
  /\ MayHold(f.winsect, f.win)
  /\ f.wflag => f.fs_type # 0 /\ f.winsect \in Fat1 \cup DataArea
  /\ ~f.wflag /\ f.winsect \in Fat1 => f.win = d[f.winsect]

(* The entry of the cluster c in the FAT as FatFs sees it: through the     *)
(* window.                                                                 *)
ValueOf(d, f, c) == IF f.winsect = FatSect(c) THEN f.win.d[c % FatPerSector] ELSE FatEntry(d, c)

(* The free clusters, as FatFs sees them. *)
FreeSet(d, f) == {c \in Clusters : ValueOf(d, f, c) = 0}

(* Without faults: the FATs of the card agree, a window on the FSINFO      *)
(* sector is the card's, and before a mount FSINFO's count is right or     *)
(* absent.                                                                 *)
NeatOK(d, f) ==
  /\ Mirrored(d)
  /\ f.winsect = Volbase + 1 => f.win = d[Volbase + 1]
  /\ f.fs_type = 0 => InfoRight(d)

(* The count of free clusters, when the mounted volume has one, is the     *)
(* number of them.                                                         *)
CountRight(d, f) ==
  f.fs_type # 0 /\ f.free_clst # Ones => f.free_clst = Cardinality(FreeSet(d, f))

(* The file object: its pointer is within the file and its buffer's sector *)
(* in the data area when the pointer is inside a sector; a sector that is  *)
(* to be written back, and that of its entry, are in the data area.        *)
FileOK(f) ==
  /\ f.err = "FR_OK" => f.fptr <= f.objsize /\ (f.fptr % SS # 0 => f.sect \in DataArea)
  /\ "dirty" \in f.flag => f.sect \in DataArea
  /\ f.open => f.dir_sect \in DataArea

(* The cards: each sector holds what may be in its area. *)
Cards == {d \in [0 .. LastSector -> Blocks] : \A s \in 0 .. LastSector : MayHold(s, d[s])}

(* The faults that a call may meet, and none. *)
FaultKinds == [at : Nat, all : BOOLEAN, lands : BOOLEAN]

(* What a call returns beside its result. *)
Outs == Seq(Nat) \cup Names \cup Nat \cup Entries

(* The states a call of FatFs goes through. *)
States == [disk : Cards, fs : Volumes, fp : Objects, dj : Dirs, dp : Dirs, calls : Nat,
           fault : FaultKinds, split : BOOLEAN, cut : BOOLEAN, risk : BOOLEAN,
           res : Results, val : Nat, out : Outs]

(* A state whose window is in order. *)
Good(t) == t \in States /\ WindowOK(t.disk, t.fs)

(* A state of a call that meets no fault, with the FATs in agreement. *)
Neat(t) == t.fault = NoFault /\ NeatOK(t.disk, t.fs)

(* A neat state with the right count of free clusters. *)
Exact(t) == Neat(t) /\ CountRight(t.disk, t.fs)

(* u is a state that work on the volume alone leads to from t. *)
Works(t, u) ==
  /\ Good(u)
  /\ u.fault = t.fault
  /\ Neat(t) => Neat(u)
  /\ Exact(t) => Exact(u)
  /\ u.fp = t.fp /\ u.dj = t.dj /\ u.out = t.out
  /\ u.fs.fs_type = t.fs.fs_type

(* Works is transitive. *)
LEMMA WorksTrans ==
  ASSUME NEW t, NEW u, NEW v, Works(t, u), Works(u, v)
  PROVE Works(t, v)
  BY DEF Works

(* The layout of the card in numbers, from GeometryAssumption. *)
LEMMA Sectors ==
  /\ {Volbase, Fsize, FatPerSector, DirPerSector, SS, Csize, NFatent} \subseteq Nat
  /\ Volbase > 0 /\ Fsize > 0 /\ FatPerSector > 0 /\ DirPerSector > 1 /\ SS > 0 /\ Csize > 0
  /\ NFatent > 3 /\ NFatent <= EOC
  /\ Fatbase = Volbase + 2 /\ Database = Fatbase + 2 * Fsize
  /\ LastSector \in Nat /\ LastSector >= Database
  /\ NoSector = LastSector + 2
<1>1. Csize * (NFatent - 2) > 0 /\ Csize * (NFatent - 2) \in Nat
  <2>1. \A a, b \in Nat : a > 0 /\ b > 0 => a * b > 0 /\ a * b \in Nat
    OBVIOUS
  <2> QED BY <2>1, GeometryAssumption DEF EOC
<1> QED
  BY <1>1, GeometryAssumption DEF Fatbase, Nrsv, NFats, Database, LastSector, NoSector, EOC

(* Quotient and remainder. *)
LEMMA DivMod ==
  ASSUME NEW a \in Nat, NEW b \in Nat, b > 0
  PROVE  /\ a \div b \in Nat /\ a % b \in 0 .. b - 1
         /\ a = b * (a \div b) + (a % b)
  BY Z3

(* A quotient is below c when the dividend is below b * c. *)
LEMMA DivBound ==
  ASSUME NEW a \in Nat, NEW b \in Nat, NEW c \in Nat, b > 0, a < b * c
  PROVE  a \div b < c
<1>1. a \div b \in Nat /\ a >= b * (a \div b)
  BY DivMod
<1>2. ASSUME a \div b >= c PROVE FALSE
  <2>1. \A x \in Nat : x >= c => b * x >= b * c
    BY Z3
  <2> QED BY <1>1, <1>2, <2>1
<1> QED BY <1>1, <1>2

(* The entry of a cluster is at an index of a sector of the first FAT. *)
LEMMA FatSectors ==
  ASSUME NEW c \in 0 .. NFatent - 1
  PROVE  /\ FatSect(c) \in Fat1 /\ c % FatPerSector \in 0 .. FatPerSector - 1
         /\ FatSect(c) \in Nat
<1>1. c < FatPerSector * Fsize
  BY Sectors, GeometryAssumption
<1>2. c \div FatPerSector < Fsize /\ c \div FatPerSector \in Nat
  BY <1>1, DivBound, DivMod, Sectors
<1> QED BY <1>2, DivMod, Sectors DEF FatSect, Fat1

(* Two clusters with their entries in one sector have different indices    *)
(* there.                                                                  *)
LEMMA FatIndex ==
  ASSUME NEW c \in 0 .. NFatent - 1, NEW e \in 0 .. NFatent - 1, c # e,
         FatSect(c) = FatSect(e)
  PROVE  c % FatPerSector # e % FatPerSector
<1>1. c \div FatPerSector = e \div FatPerSector
  BY DivMod, Sectors DEF FatSect
<1> QED BY <1>1, DivMod, Sectors

(* The sectors of a cluster are in the data area. *)
LEMMA ClusterSectors ==
  ASSUME NEW c \in Clusters, NEW o \in 0 .. Csize - 1
  PROVE  clst2sect(c) + o \in DataArea /\ clst2sect(c) \in Nat /\ clst2sect(c) # 0
<1>1. /\ Csize * (c - 2) \in Nat
      /\ Csize * (c - 2) + Csize <= Csize * (NFatent - 2)
  <2>1. \A a, b, x \in Nat : b < x => a * b + a <= a * x /\ a * b \in Nat
    BY Z3
  <2>2. c - 2 \in Nat /\ NFatent - 2 \in Nat /\ c - 2 < NFatent - 2
    BY Sectors DEF Clusters
  <2> QED BY <2>1, <2>2, Sectors
<1> QED BY <1>1, Sectors DEF clst2sect, DataArea, LastSector

(* clst2sect returns 0 for what is not a cluster. *)
LEMMA NoCluster ==
  ASSUME NEW c, clst2sect(c) # 0
  PROVE  c \in Clusters
  BY DEF clst2sect

(* The areas of the card are apart: the two FATs, the data area and FSINFO. *)
LEMMA Areas ==
  /\ Fat1 \subseteq 0 .. LastSector /\ DataArea \subseteq 0 .. LastSector
  /\ Fat1 \cap DataArea = {}
  /\ \A s \in Fat1 : s + Fsize \in 0 .. LastSector /\ s + Fsize \notin Fat1 \cup DataArea
  /\ \A s \in Fat1 \cup DataArea : s > Volbase + 1
  /\ Volbase + 1 \in 0 .. LastSector
  /\ NoSector \in Nat /\ NoSector > LastSector
  BY Sectors DEF Fat1, DataArea

-----------------------------------------------------------------------------
(* disk_read and disk_write. *)

(* What disk_read leaves alone: everything but the result. *)
LEMMA ReadFields ==
  ASSUME NEW t \in States
  PROVE  LET u == disk_read(t)
         IN /\ u \in States /\ u.dp = t.dp /\ u.val = t.val /\ u.disk = t.disk /\ u.fs = t.fs
            /\ u.fp = t.fp /\ u.dj = t.dj /\ u.out = t.out /\ u.fault = t.fault
            /\ u.res = IF Fails(t) THEN "FR_DISK_ERR" ELSE "FR_OK"
            /\ t.fault = NoFault => u.res = "FR_OK"
<1> DEFINE u == disk_read(t)
<1>1. u \in States /\ u.dp = t.dp /\ u.val = t.val /\ u.disk = t.disk /\ u.fs = t.fs
      /\ u.fp = t.fp /\ u.dj = t.dj /\ u.out = t.out /\ u.fault = t.fault
      /\ u.res = IF Fails(t) THEN "FR_DISK_ERR" ELSE "FR_OK"
  <2> DEFINE r == IF Fails(t) THEN "FR_DISK_ERR" ELSE "FR_OK"
             k == t.risk \/ (Fails(t) /\ t.split)
             n == t.calls + 1
  <2>1. r \in Results /\ k \in BOOLEAN /\ n \in Nat
    BY DEF Results, States
  <2>2. u = [t EXCEPT !.calls = n, !.res = r, !.risk = k]
    BY DEF disk_read
  <2> HIDE DEF r, k, n, u
  <2>3. u \in States /\ u.dp = t.dp /\ u.val = t.val /\ u.disk = t.disk /\ u.fs = t.fs
      /\ u.fp = t.fp /\ u.dj = t.dj /\ u.out = t.out /\ u.fault = t.fault
      /\ u.res = r
    BY <2>1, <2>2 DEF States
  <2> QED BY <2>3 DEF r
<1>2. t.fault = NoFault => ~Fails(t)
  BY DEF Fails, NoFault, States
<1> QED BY <1>1, <1>2

(* disk_read works on the volume alone, and succeeds when nothing fails. *)
LEMMA DiskRead ==
  ASSUME NEW t, Good(t)
  PROVE  LET u == disk_read(t)
         IN /\ Works(t, u) /\ u.dp = t.dp /\ u.val = t.val
            /\ u.disk = t.disk /\ u.fs = t.fs
            /\ u.res \in {"FR_OK", "FR_DISK_ERR"}
            /\ t.fault = NoFault => u.res = "FR_OK"
<1>1. t \in States
  BY DEF Good
<1> QED BY <1>1, ReadFields DEF Works, Good, Neat, Exact

(* disk_write sets the sectors from sect on when it succeeds, may set them *)
(* when it does not, and leaves the others alone.                          *)
LEMMA DiskWrite ==
  ASSUME NEW t \in States, NEW sect, NEW data,
         \A s \in 0 .. LastSector :
           s - sect \in DOMAIN data => data[s - sect] \in Blocks /\ MayHold(s, data[s - sect])
  PROVE  LET u == disk_write(t, sect, data)
         IN /\ u \in States
            /\ u.fs = t.fs /\ u.fp = t.fp /\ u.dj = t.dj /\ u.dp = t.dp /\ u.fault = t.fault
            /\ u.val = t.val /\ u.out = t.out
            /\ u.res \in {"FR_OK", "FR_DISK_ERR"}
            /\ t.fault = NoFault => u.res = "FR_OK"
            /\ \A s \in 0 .. LastSector :
                 IF s - sect \in DOMAIN data
                 THEN u.res = "FR_OK" => u.disk[s] = data[s - sect]
                 ELSE u.disk[s] = t.disk[s]
<1> DEFINE u == disk_write(t, sect, data)
           put == [s \in 0 .. LastSector |->
                     IF s - sect \in DOMAIN data THEN data[s - sect] ELSE t.disk[s]]
           r == disk_read(t)
           lands == ~Fails(t) \/ (t.fault.lands /\ t.calls + 1 = t.fault.at)
<1>1. r \in States /\ r.dp = t.dp /\ r.val = t.val /\ r.disk = t.disk /\ r.fs = t.fs
      /\ r.fp = t.fp /\ r.dj = t.dj /\ r.out = t.out /\ r.fault = t.fault
      /\ r.res = (IF Fails(t) THEN "FR_DISK_ERR" ELSE "FR_OK")
      /\ (t.fault = NoFault => r.res = "FR_OK")
  BY ReadFields
<1>2. t.disk \in Cards /\ DOMAIN t.disk = 0 .. LastSector
  BY DEF States, Cards
<1>3. put \in Cards
  <2>1. ASSUME NEW s \in 0 .. LastSector
        PROVE  put[s] \in Blocks /\ MayHold(s, put[s])
    BY <1>2 DEF Cards
  <2>2. put = [s \in 0 .. LastSector |-> put[s]]
    OBVIOUS
  <2> HIDE DEF put
  <2> QED BY <2>1, <2>2 DEF Cards
<1> HIDE DEF put, r
<1>4. disk_write(t, sect, data) = [r EXCEPT !.disk = IF lands THEN put ELSE t.disk]
  BY <1>1, <1>2 DEF disk_write, r, put
<1>5. u \in States /\ u.disk = (IF lands THEN put ELSE t.disk) /\ u.res = r.res
      /\ u.fs = r.fs /\ u.fp = r.fp /\ u.dj = r.dj /\ u.dp = r.dp /\ u.fault = r.fault
      /\ u.val = r.val /\ u.out = r.out
  BY <1>1, <1>2, <1>3, <1>4 DEF States
<1>6. \A s \in 0 .. LastSector :
        IF s - sect \in DOMAIN data
        THEN u.res = "FR_OK" => u.disk[s] = data[s - sect]
        ELSE u.disk[s] = t.disk[s]
  <2>1. u.res = "FR_OK" => lands
    BY <1>1, <1>5
  <2> HIDE DEF u, lands
  <2> QED BY <1>5, <2>1 DEF put
<1> QED BY <1>1, <1>5, <1>6

(* disk_write of one sector. *)
LEMMA WriteOne ==
  ASSUME NEW t \in States, NEW s \in 0 .. LastSector, NEW b \in Blocks, MayHold(s, b)
  PROVE  LET u == disk_write(t, s, One(b))
         IN /\ u \in States
            /\ u.fs = t.fs /\ u.fp = t.fp /\ u.dj = t.dj /\ u.dp = t.dp /\ u.fault = t.fault
            /\ u.val = t.val /\ u.out = t.out
            /\ u.res \in {"FR_OK", "FR_DISK_ERR"}
            /\ t.fault = NoFault => u.res = "FR_OK"
            /\ u.res = "FR_OK" => u.disk[s] = b
            /\ \A n \in 0 .. LastSector : n # s => u.disk[n] = t.disk[n]
<1> DEFINE d == One(b)
           u == disk_write(t, s, d)
<1>1. \A n \in 0 .. LastSector : (n - s \in DOMAIN d <=> n = s) /\ (n = s => d[n - s] = b)
  BY Sectors DEF One
<1> HIDE DEF d
<1>2. /\ u \in States
      /\ u.fs = t.fs /\ u.fp = t.fp /\ u.dj = t.dj /\ u.dp = t.dp /\ u.fault = t.fault
      /\ u.val = t.val /\ u.out = t.out
      /\ u.res \in {"FR_OK", "FR_DISK_ERR"}
      /\ t.fault = NoFault => u.res = "FR_OK"
      /\ \A n \in 0 .. LastSector :
           IF n - s \in DOMAIN d
           THEN u.res = "FR_OK" => u.disk[n] = d[n - s]
           ELSE u.disk[n] = t.disk[n]
  BY <1>1, DiskWrite
<1> HIDE DEF u
<1>3. /\ u.res = "FR_OK" => u.disk[s] = b
      /\ \A n \in 0 .. LastSector : n # s => u.disk[n] = t.disk[n]
  BY <1>1, <1>2
<1> QED BY <1>2, <1>3 DEF u, d

-----------------------------------------------------------------------------
(* Steps that leave the card and the FAT alone. *)

(* The FAT entries of clusters, with the window, are the same in t and u. *)
SameFat(t, u) ==
  \A c \in 0 .. NFatent - 1 : ValueOf(u.disk, u.fs, c) = ValueOf(t.disk, t.fs, c)

(* A result is set. *)
LEMMA SetRes ==
  ASSUME NEW t \in States, NEW r \in Results
  PROVE  LET u == Ret(t, r)
         IN /\ u \in States /\ u.disk = t.disk /\ u.fs = t.fs /\ u.fp = t.fp /\ u.dj = t.dj
            /\ u.dp = t.dp /\ u.fault = t.fault /\ u.val = t.val /\ u.out = t.out
            /\ u.res = r
  BY DEF Ret, States

(* A value is set. *)
LEMMA SetVal ==
  ASSUME NEW t \in States, NEW x \in Nat
  PROVE  LET u == Val(t, x)
         IN /\ u \in States /\ u.disk = t.disk /\ u.fs = t.fs /\ u.fp = t.fp /\ u.dj = t.dj
            /\ u.dp = t.dp /\ u.fault = t.fault /\ u.val = x /\ u.out = t.out
            /\ u.res = t.res
  BY DEF Val, States

(* The FATFS object is set. *)
LEMMA SetFs ==
  ASSUME NEW t \in States, NEW f \in Volumes
  PROVE  LET u == [t EXCEPT !.fs = f]
         IN /\ u \in States /\ u.disk = t.disk /\ u.fs = f /\ u.fp = t.fp /\ u.dj = t.dj
            /\ u.dp = t.dp /\ u.fault = t.fault /\ u.val = t.val /\ u.out = t.out
            /\ u.res = t.res
  BY DEF States

(* The DIR object of the call is set. *)
LEMMA SetDp ==
  ASSUME NEW t \in States, NEW d \in Dirs
  PROVE  LET u == [t EXCEPT !.dp = d]
         IN /\ u \in States /\ u.disk = t.disk /\ u.fs = t.fs /\ u.fp = t.fp /\ u.dj = t.dj
            /\ u.dp = d /\ u.fault = t.fault /\ u.val = t.val /\ u.out = t.out
            /\ u.res = t.res
  BY DEF States

(* The mark of a write that was split is set. *)
LEMMA SetSplit ==
  ASSUME NEW t \in States, NEW b \in BOOLEAN
  PROVE  LET u == [t EXCEPT !.split = b]
         IN /\ u \in States /\ u.disk = t.disk /\ u.fs = t.fs /\ u.fp = t.fp /\ u.dj = t.dj
            /\ u.dp = t.dp /\ u.fault = t.fault /\ u.val = t.val /\ u.out = t.out
            /\ u.res = t.res
  BY DEF States

(* Setting the result leaves the volume as it is. *)
LEMMA RetWorks ==
  ASSUME NEW t, Good(t), NEW r \in Results
  PROVE  LET u == Ret(t, r)
         IN /\ Works(t, u) /\ SameFat(t, u) /\ u.disk = t.disk /\ u.fs = t.fs
            /\ u.dp = t.dp /\ u.val = t.val /\ u.res = r
  BY SetRes DEF Works, Good, Neat, Exact, SameFat

(* Setting the value leaves the volume as it is. *)
LEMMA ValWorks ==
  ASSUME NEW t, Good(t), NEW x \in Nat
  PROVE  LET u == Val(t, x)
         IN /\ Works(t, u) /\ SameFat(t, u) /\ u.disk = t.disk /\ u.fs = t.fs
            /\ u.dp = t.dp /\ u.val = x /\ u.res = t.res
  BY SetVal DEF Works, Good, Neat, Exact, SameFat

(* Marking a split write leaves the volume as it is. *)
LEMMA SplitWorks ==
  ASSUME NEW t, Good(t), NEW b \in BOOLEAN
  PROVE  LET u == [t EXCEPT !.split = b]
         IN /\ Works(t, u) /\ SameFat(t, u) /\ u.disk = t.disk /\ u.fs = t.fs
            /\ u.dp = t.dp /\ u.val = t.val /\ u.res = t.res
  BY SetSplit DEF Works, Good, Neat, Exact, SameFat

(* Doing nothing leaves the volume as it is. *)
LEMMA SelfWorks ==
  ASSUME NEW t, Good(t)
  PROVE  Works(t, t) /\ SameFat(t, t)
  BY DEF Works, SameFat

(* SameFat is transitive. *)
LEMMA SameFatTrans ==
  ASSUME NEW t, NEW u, NEW v, SameFat(t, u), SameFat(u, v)
  PROVE  SameFat(t, v)
  BY DEF SameFat

(* The parts of a state have their types. *)
LEMMA FsTypes ==
  ASSUME NEW t \in States
  PROVE  /\ t.disk \in Cards /\ t.fs \in Volumes /\ t.fp \in Objects /\ t.dp \in Dirs
         /\ DOMAIN t.disk = 0 .. LastSector
         /\ \A s \in 0 .. LastSector : t.disk[s] \in Blocks /\ MayHold(s, t.disk[s])
         /\ t.fs.win \in Blocks /\ t.fs.winsect \in Nat /\ t.fs.wflag \in BOOLEAN
         /\ t.fs.free_clst \in FreeCounts /\ t.fs.last_clst \in LastClusters
         /\ t.fs.fsi_flag \in Nat /\ t.fs.fs_type \in Nat
         /\ t.res \in Results /\ t.val \in Nat
<1>1. t.disk \in Cards /\ t.fs \in Volumes /\ t.fp \in Objects /\ t.dp \in Dirs
      /\ t.res \in Results /\ t.val \in Nat
  BY DEF States
<1>2. /\ DOMAIN t.disk = 0 .. LastSector
      /\ \A s \in 0 .. LastSector : t.disk[s] \in Blocks /\ MayHold(s, t.disk[s])
  BY <1>1 DEF Cards
<1> QED BY <1>1, <1>2 DEF Volumes

(* Two states with the same counters and entries agree on the counts. *)
LEMMA CountsKept ==
  ASSUME NEW t, NEW u, Neat(t), u.fault = t.fault, SameFat(t, u), Mirrored(u.disk),
         u.fs.winsect = Volbase + 1 => u.fs.win = u.disk[Volbase + 1],
         u.fs.fs_type = t.fs.fs_type, t.fs.fs_type # 0 \/ u.disk = t.disk,
         u.fs.free_clst = t.fs.free_clst
  PROVE  Neat(u) /\ (Exact(t) => Exact(u))
<1>1. FreeSet(u.disk, u.fs) = FreeSet(t.disk, t.fs)
  BY Sectors DEF FreeSet, SameFat, Clusters
<1> QED BY <1>1 DEF Neat, Exact, NeatOK, CountRight

-----------------------------------------------------------------------------
(* sync_window. *)

(* A second copy of what may be in a sector of the FAT may be in the other FAT. *)
LEMMA MirrorHolds ==
  ASSUME NEW s \in Fat1, NEW b, MayHold(s, b)
  PROVE  MayHold(s + Fsize, b)
<1>1. \A c \in {0, 1} : FatSect(c) \in Fat1
  BY FatSectors, Sectors
<1>2. s + Fsize > Volbase + 1 /\ s + Fsize \in Fatbase .. Database - 1 /\ s + Fsize \notin Fat1
      /\ s + Fsize \notin DataArea /\ b \in FatBlocks
  BY Areas, Sectors DEF Fat1, DataArea, MayHold
<1>3. ASSUME NEW c \in {0, 1}, s + Fsize \in {FatSect(c), FatSect(c) + Fsize}
      PROVE  s \in {FatSect(c), FatSect(c) + Fsize}
  BY <1>1, <1>2, <1>3, Sectors DEF Fat1
<1> QED BY <1>2, <1>3, Sectors DEF MayHold

(* What sync_window does: the pending sector goes to the card, and the FAT *)
(* that FatFs sees stays.                                                  *)
SyncDone(t, u) ==
  /\ Works(t, u) /\ SameFat(t, u) /\ u.dp = t.dp /\ u.val = t.val
  /\ u.fs.win = t.fs.win /\ u.fs.winsect = t.fs.winsect
  /\ u.fs.free_clst = t.fs.free_clst /\ u.fs.last_clst = t.fs.last_clst
  /\ u.fs.fsi_flag = t.fs.fsi_flag
  /\ u.res = "FR_OK" => ~u.fs.wflag
  /\ u.res \in {"FR_OK", "FR_DISK_ERR"}
  /\ t.fault = NoFault => u.res = "FR_OK"

(* sync_window writes a pending sector, and its copy to the second FAT,    *)
(* and changes nothing else.                                               *)
LEMMA SyncWindow ==
  ASSUME NEW t, Good(t)
  PROVE  SyncDone(t, sync_window(t))
<1>1. CASE ~t.fs.wflag
  <2>1. sync_window(t) = Ret(t, "FR_OK")
    BY <1>1 DEF sync_window
  <2> QED BY <1>1, <2>1, RetWorks DEF SyncDone, Results
<1>2. CASE t.fs.wflag
  <2> DEFINE s == t.fs.winsect
             w == disk_write(t, s, One(t.fs.win))
             c == [w EXCEPT !.fs = [w.fs EXCEPT !.wflag = FALSE]]
             f == disk_write(c, s + Fsize, One(t.fs.win))
  <2>1. /\ t \in States /\ t.fs.winsect \in 0 .. LastSector /\ MayHold(t.fs.winsect, t.fs.win)
        /\ t.fs.winsect \in Fat1 \cup DataArea /\ t.fs.fs_type # 0 /\ t.fs.winsect # Volbase + 1
        /\ t.fs.win \in Blocks /\ t.fs \in Volumes
    BY <1>2, FsTypes, Areas DEF Good, WindowOK
  <2>2. /\ w \in States /\ w.dp = t.dp /\ w.val = t.val /\ w.fs = t.fs
        /\ w.fp = t.fp /\ w.dj = t.dj /\ w.out = t.out /\ w.fault = t.fault
        /\ w.res \in {"FR_OK", "FR_DISK_ERR"}
        /\ t.fault = NoFault => w.res = "FR_OK"
        /\ w.res = "FR_OK" => w.disk[t.fs.winsect] = t.fs.win
        /\ \A n \in 0 .. LastSector : n # t.fs.winsect => w.disk[n] = t.disk[n]
    BY <2>1, WriteOne
  <2>3. [t.fs EXCEPT !.wflag = FALSE] \in Volumes
    BY <2>1 DEF Volumes
  <2>4. /\ c \in States /\ c.disk = w.disk /\ c.fs = [t.fs EXCEPT !.wflag = FALSE]
        /\ c.fp = t.fp /\ c.dj = t.dj /\ c.dp = t.dp /\ c.fault = t.fault /\ c.val = t.val
        /\ c.out = t.out /\ c.res = w.res
    <3> HIDE DEF w
    <3>1. c = [w EXCEPT !.fs = [t.fs EXCEPT !.wflag = FALSE]]
      BY <2>2
    <3> HIDE DEF c
    <3> QED BY <2>2, <2>3, <3>1, SetFs
  <2>5. c.fs.winsect = s /\ c.fs.win = t.fs.win /\ ~c.fs.wflag /\ c.fs.fs_type = t.fs.fs_type
        /\ c.fs.free_clst = t.fs.free_clst /\ c.fs.last_clst = t.fs.last_clst
        /\ c.fs.fsi_flag = t.fs.fsi_flag
    BY <2>1, <2>4 DEF Volumes
  <2> HIDE DEF w, c
  <2>6. sync_window(t) =
          IF w.res = "FR_OK" THEN IF s \in Fat1 THEN Ret(f, "FR_OK") ELSE c ELSE w
    BY <1>2, <2>2, <2>5 DEF sync_window, Then, w, c, NFats
  <2>7. CASE w.res # "FR_OK"
    <3>1. Good(w)
      BY <1>2, <2>2, <2>1 DEF Good, WindowOK
    <3>2. SameFat(t, w)
      <4>1. \A x \in 0 .. NFatent - 1 : FatSect(x) \in 0 .. LastSector
        BY FatSectors, Areas
      <4> QED BY <2>2, <4>1 DEF SameFat, ValueOf, FatEntry
    <3>3. ~Neat(t) /\ ~Exact(t)
      BY <2>2, <2>7 DEF Neat, Exact
    <3> QED BY <2>2, <2>6, <2>7, <3>1, <3>2, <3>3 DEF SyncDone, Works
  <2>8. CASE w.res = "FR_OK" /\ s \notin Fat1
    <3>1. Good(c)
      BY <2>1, <2>2, <2>4, <2>5, <2>8 DEF Good, WindowOK
    <3>2. SameFat(t, c)
      <4>1. \A x \in 0 .. NFatent - 1 : FatSect(x) \in 0 .. LastSector
        BY FatSectors, Areas
      <4> QED BY <2>2, <2>4, <2>5, <4>1 DEF SameFat, ValueOf, FatEntry
    <3>3. (Neat(t) => Neat(c)) /\ (Exact(t) => Exact(c))
      <4>1. ASSUME Neat(t) PROVE Mirrored(c.disk)
        <5>1. \A n \in Fat1 : n \in 0 .. LastSector /\ n + Fsize \in 0 .. LastSector
                              /\ n # s /\ n + Fsize # s
          BY <2>1, <2>8, Areas
        <5>2. Mirrored(t.disk)
          BY <4>1 DEF Neat, NeatOK
        <5> QED BY <2>2, <2>4, <5>1, <5>2 DEF Mirrored
      <4> QED BY <4>1, <3>2, <2>1, <2>4, <2>5, CountsKept DEF Exact
    <3> QED BY <2>4, <2>5, <2>6, <2>8, <3>1, <3>2, <3>3, <2>2 DEF SyncDone, Works
  <2>9. CASE w.res = "FR_OK" /\ s \in Fat1
    <3> DEFINE r == Ret(f, "FR_OK")
    <3>1. s + Fsize \in 0 .. LastSector /\ MayHold(s + Fsize, t.fs.win)
      BY <2>1, <2>9, Areas, MirrorHolds
    <3>3. /\ f \in States
          /\ f.fs = c.fs /\ f.fp = c.fp /\ f.dj = c.dj /\ f.dp = c.dp /\ f.fault = c.fault
          /\ f.val = c.val /\ f.out = c.out
          /\ c.fault = NoFault => f.res = "FR_OK"
          /\ f.res = "FR_OK" => f.disk[s + Fsize] = t.fs.win
          /\ \A n \in 0 .. LastSector : n # s + Fsize => f.disk[n] = c.disk[n]
      <4> HIDE DEF s
      <4> QED BY <2>1, <2>4, <3>1, WriteOne
    <3> HIDE DEF f
    <3>4. r \in States /\ r.disk = f.disk /\ r.fs = c.fs /\ r.fp = t.fp /\ r.dj = t.dj
          /\ r.dp = t.dp /\ r.fault = t.fault /\ r.val = t.val /\ r.out = t.out /\ r.res = "FR_OK"
      BY <2>4, <3>3, SetRes DEF Results
    <3> HIDE DEF r
    <3>5. \A n \in Fat1 : n \in 0 .. LastSector /\ n # s + Fsize
      BY <2>9, Areas
    <3>6. Good(r)
      BY <2>1, <2>2, <2>4, <2>5, <2>9, <3>3, <3>4, <3>5 DEF Good, WindowOK
    <3>7. SameFat(t, r)
      <4>1. \A x \in 0 .. NFatent - 1 : FatSect(x) \in Fat1
        BY FatSectors
      <4> QED BY <2>2, <2>4, <2>5, <3>3, <3>4, <3>5, <4>1 DEF SameFat, ValueOf, FatEntry
    <3>8. (Neat(t) => Neat(r)) /\ (Exact(t) => Exact(r))
      <4>1. ASSUME Neat(t) PROVE Mirrored(r.disk)
        <5>1. \A n \in Fat1 : n + Fsize \in 0 .. LastSector /\ (n + Fsize = s + Fsize => n = s)
                              /\ n + Fsize # s
          BY <2>1, <2>9, Areas, Sectors DEF Fat1
        <5>2. Mirrored(t.disk) /\ f.res = "FR_OK"
          BY <4>1, <2>4, <3>3 DEF Neat, NeatOK
        <5>3. ASSUME NEW n \in Fat1 PROVE r.disk[n] = r.disk[n + Fsize]
          <6>1. CASE n = s
            BY <2>2, <2>4, <2>9, <3>3, <3>4, <3>5, <5>2, <6>1
          <6>2. CASE n # s
            <7>1. r.disk[n] = t.disk[n]
              BY <2>2, <2>4, <3>3, <3>4, <3>5, <6>2
            <7>2. r.disk[n + Fsize] = t.disk[n + Fsize]
              BY <2>2, <2>4, <3>3, <3>4, <5>1, <6>2
            <7> QED BY <5>2, <7>1, <7>2 DEF Mirrored
          <6> QED BY <6>1, <6>2
        <5> QED BY <5>3 DEF Mirrored
      <4>2. r.fs.winsect # Volbase + 1
        BY <2>1, <2>5, <3>4
      <4> QED BY <4>1, <4>2, <3>7, <2>1, <2>5, <3>4, CountsKept DEF Exact
    <3>9. sync_window(t) = r
      BY <2>6, <2>9 DEF r
    <3> QED BY <2>4, <2>5, <3>4, <3>6, <3>7, <3>8, <3>9 DEF SyncDone, Works
  <2> QED BY <2>7, <2>8, <2>9
<1>3. t.fs.wflag \in BOOLEAN
  BY FsTypes DEF Good
<1> QED BY <1>1, <1>2, <1>3

-----------------------------------------------------------------------------
(* move_window. *)

(* The empty entry and the table of empty entries have their types. *)
LEMMA Blank == NoEntry \in Entries /\ ZeroDir \in DirBlocks /\ ZeroDir \in Blocks
  BY NamesAssumption, Sectors DEF NoEntry, ZeroDir, DirSector, DirBlocks, Entries, Blocks, Attributes

(* Beyond the card any block may be in the window. *)
LEMMA OutsideHolds ==
  ASSUME NEW s \in Nat, s > LastSector, NEW b
  PROVE  MayHold(s, b)
<1>1. \A c \in {0, 1} : FatSect(c) \in Fat1
  BY FatSectors, Sectors
<1>2. ASSUME NEW c \in {0, 1} PROVE s # FatSect(c) /\ s # FatSect(c) + Fsize
  <2>1. FatSect(c) \in 0 .. LastSector /\ FatSect(c) + Fsize \in 0 .. LastSector
    BY <1>1, Areas
  <2> QED BY <2>1, Sectors
<1>3. s > Volbase + 1 /\ s \notin Fatbase .. Database - 1 /\ s \notin DataArea
  BY Sectors DEF DataArea
<1> QED BY <1>2, <1>3, Sectors DEF MayHold

(* With nothing pending in the window the entries are those on the card. *)
LEMMA CleanWindow ==
  ASSUME NEW t, Good(t), ~t.fs.wflag
  PROVE  \A c \in 0 .. NFatent - 1 : ValueOf(t.disk, t.fs, c) = FatEntry(t.disk, c)
  BY FatSectors DEF Good, WindowOK, ValueOf, FatEntry

(* What move_window does: the window comes to the sector, after the        *)
(* pending one was written.                                                *)
MoveDone(t, u, sect) ==
  /\ Works(t, u) /\ SameFat(t, u) /\ u.dp = t.dp /\ u.val = t.val
  /\ u.fs.free_clst = t.fs.free_clst /\ u.fs.last_clst = t.fs.last_clst
  /\ u.fs.fsi_flag = t.fs.fsi_flag
  /\ u.res = "FR_OK" => u.fs.winsect = sect
  /\ u.res \in {"FR_OK", "FR_DISK_ERR"}
  /\ t.fault = NoFault => u.res = "FR_OK"

(* The window comes to the sector read. *)
Moved(t, b, sect) == [t EXCEPT !.fs = [t.fs EXCEPT !.win = b, !.winsect = sect]]

(* A window with nothing pending comes to a sector as it is on the card,   *)
(* or to none.                                                             *)
LEMMA WindowMoved ==
  ASSUME NEW t, Good(t), ~t.fs.wflag, NEW sect \in Nat, NEW b \in Blocks,
         \/ sect = NoSector
         \/ b = Sector(t.disk, sect)
  PROVE  LET u == Moved(t, b, sect) IN
         /\ Works(t, u) /\ SameFat(t, u) /\ u.dp = t.dp /\ u.val = t.val /\ u.res = t.res
         /\ u.fs.free_clst = t.fs.free_clst /\ u.fs.last_clst = t.fs.last_clst
         /\ u.fs.fsi_flag = t.fs.fsi_flag /\ u.fs.winsect = sect /\ u.fs.win = b
         /\ u.disk = t.disk
<1> DEFINE f == [t.fs EXCEPT !.win = b, !.winsect = sect]
           u == Moved(t, b, sect)
<1>1. t \in States /\ t.fs \in Volumes /\ DOMAIN t.disk = 0 .. LastSector
      /\ \A s \in 0 .. LastSector : MayHold(s, t.disk[s])
  BY FsTypes DEF Good
<1>2. f \in Volumes /\ f.winsect = sect /\ f.win = b /\ ~f.wflag /\ f.fs_type = t.fs.fs_type
      /\ f.free_clst = t.fs.free_clst /\ f.last_clst = t.fs.last_clst
      /\ f.fsi_flag = t.fs.fsi_flag
  BY <1>1 DEF Volumes
<1>3. u \in States /\ u.disk = t.disk /\ u.fs = f /\ u.fp = t.fp /\ u.dj = t.dj
      /\ u.dp = t.dp /\ u.fault = t.fault /\ u.val = t.val /\ u.out = t.out /\ u.res = t.res
  <2>1. u = [t EXCEPT !.fs = f]
    BY DEF Moved
  <2> HIDE DEF f, u
  <2> QED BY <1>1, <1>2, <2>1, SetFs
<1> HIDE DEF f, u
<1>4. /\ sect \in 0 .. LastSector => b = t.disk[sect]
      /\ sect \notin 0 .. LastSector => sect > LastSector
  BY <1>1, Areas, Sectors DEF Sector
<1>5. MayHold(sect, b)
  BY <1>1, <1>4, OutsideHolds
<1>6. Good(u)
  BY <1>2, <1>3, <1>4, <1>5, Areas DEF Good, WindowOK
<1>7. SameFat(t, u)
  BY <1>2, <1>3, <1>6, CleanWindow DEF SameFat
<1>8. sect = Volbase + 1 => b = t.disk[Volbase + 1]
  BY <1>4, Areas
<1>9. (Neat(t) => Neat(u)) /\ (Exact(t) => Exact(u))
  <2>1. Neat(t) => Mirrored(u.disk)
    BY <1>3 DEF Neat, NeatOK
  <2> QED BY <2>1, <1>2, <1>3, <1>7, <1>8, CountsKept DEF Exact
<1> QED BY <1>2, <1>3, <1>6, <1>7, <1>9 DEF Works, u

(* What is read from the card is a block. *)
LEMMA SectorBlock ==
  ASSUME NEW t, Good(t), NEW s
  PROVE  Sector(t.disk, s) \in Blocks
  BY FsTypes, Blank DEF Good, Sector

(* move_window brings the window to a sector, or fails, and the FAT that   *)
(* FatFs sees stays.                                                       *)
LEMMA MoveWindow ==
  ASSUME NEW t, Good(t), NEW sect \in Nat
  PROVE  MoveDone(t, move_window(t, sect), sect)
<1>1. CASE sect = t.fs.winsect
  <2>1. move_window(t, sect) = Ret(t, "FR_OK")
    BY <1>1 DEF move_window
  <2> QED BY <1>1, <2>1, RetWorks DEF MoveDone, Results
<1>2. CASE sect # t.fs.winsect
  <2> DEFINE w == sync_window(t)
             r == disk_read(w)
             a == Moved(r, Sector(r.disk, sect), sect)
             e == Moved(r, r.fs.win, NoSector)
  <2>1. SyncDone(t, w)
    BY SyncWindow
  <2> HIDE DEF w
  <2>2. CASE w.res # "FR_OK"
    <3>1. move_window(t, sect) = w
      BY <1>2, <2>2 DEF move_window, Then, w
    <3> QED BY <2>1, <2>2, <3>1 DEF MoveDone, SyncDone
  <2>3. CASE w.res = "FR_OK"
    <3>1. Good(w) /\ ~w.fs.wflag
      BY <2>1, <2>3 DEF SyncDone, Works
    <3>2. /\ Works(w, r) /\ r.dp = w.dp /\ r.val = w.val /\ r.disk = w.disk /\ r.fs = w.fs
          /\ r.res \in {"FR_OK", "FR_DISK_ERR"}
          /\ w.fault = NoFault => r.res = "FR_OK"
      BY <3>1, DiskRead
    <3> HIDE DEF r
    <3>3. r \in States /\ r.fs \in Volumes /\ r.fs.win \in Blocks /\ ~r.fs.wflag /\ Good(r)
      BY <3>1, <3>2, FsTypes DEF Works, Good
    <3>4. move_window(t, sect) = IF r.res = "FR_OK" THEN a ELSE e
      <4>1. e = [r EXCEPT !.fs.winsect = NoSector]
        <5>1. [r.fs EXCEPT !.win = r.fs.win, !.winsect = NoSector] = [r.fs EXCEPT !.winsect = NoSector]
          BY <3>3 DEF Volumes
        <5> QED BY <5>1, Zenon DEF Moved
      <4>2. a = [r EXCEPT !.fs.win = Sector(r.disk, sect), !.fs.winsect = sect]
        BY <3>3 DEF States, Moved
      <4> HIDE DEF a, e
      <4> QED BY <1>2, <2>3, <4>1, <4>2 DEF move_window, Then, Upon, w, r
    <3>5. CASE r.res = "FR_OK"
      <4>1. Sector(r.disk, sect) \in Blocks
        BY <3>3, SectorBlock
      <4>2. /\ Works(r, a) /\ SameFat(r, a) /\ a.dp = r.dp /\ a.val = r.val /\ a.res = r.res
            /\ a.fs.free_clst = r.fs.free_clst /\ a.fs.last_clst = r.fs.last_clst
            /\ a.fs.fsi_flag = r.fs.fsi_flag /\ a.fs.winsect = sect
        BY <3>3, <4>1, WindowMoved
      <4> HIDE DEF a
      <4>3. Works(t, a) /\ SameFat(t, a)
        BY <2>1, <3>2, <4>2, WorksTrans DEF SyncDone, SameFat
      <4> QED BY <2>1, <3>2, <3>4, <3>5, <4>2, <4>3 DEF MoveDone, SyncDone, Works
    <3>6. CASE r.res # "FR_OK"
      <4>1. NoSector \in Nat
        BY Areas
      <4>2. /\ Works(r, e) /\ SameFat(r, e) /\ e.dp = r.dp /\ e.val = r.val /\ e.res = r.res
            /\ e.fs.free_clst = r.fs.free_clst /\ e.fs.last_clst = r.fs.last_clst
            /\ e.fs.fsi_flag = r.fs.fsi_flag
        BY <3>3, <4>1, WindowMoved
      <4> HIDE DEF e
      <4>3. Works(t, e) /\ SameFat(t, e)
        BY <2>1, <3>2, <4>2, WorksTrans DEF SyncDone, SameFat
      <4> QED BY <2>1, <3>2, <3>4, <3>6, <4>2, <4>3 DEF MoveDone, SyncDone, Works
    <3> QED BY <3>5, <3>6
  <2> QED BY <2>2, <2>3
<1> QED BY <1>1, <1>2

-----------------------------------------------------------------------------
(* get_fat and put_fat. *)

(* The entry of the cluster c in the state t. *)
Value(t, c) == ValueOf(t.disk, t.fs, c)

(* The number of free clusters in the state t. *)
NFree(t) == Cardinality(FreeSet(t.disk, t.fs))

(* The counters of the FATFS object are the same. *)
SameCounts(t, u) ==
  /\ u.fs.free_clst = t.fs.free_clst /\ u.fs.last_clst = t.fs.last_clst
  /\ u.fs.fsi_flag = t.fs.fsi_flag

(* A step in the middle of a change of the FAT. *)
Alters(t, u) ==
  /\ Good(u)
  /\ u.fault = t.fault
  /\ Neat(t) => Neat(u)
  /\ u.fp = t.fp /\ u.dj = t.dj /\ u.out = t.out /\ u.dp = t.dp
  /\ u.fs.fs_type = t.fs.fs_type

(* An entry of the FAT is a cluster or a mark; those of 0 and 1 are never  *)
(* free.                                                                   *)
LEMMA FatValue ==
  ASSUME NEW t, Good(t), NEW c \in 0 .. NFatent - 1
  PROVE  Value(t, c) \in 0 .. EOC /\ (c < 2 => Value(t, c) # 0)
<1>1. FatSect(c) \in Fat1 /\ c % FatPerSector \in 0 .. FatPerSector - 1 /\ FatSect(c) \in 0 .. LastSector
      /\ FatSect(c) \in Fatbase .. Database - 1
  BY FatSectors, Areas, Sectors DEF Fat1
<1>2. ASSUME NEW b, MayHold(FatSect(c), b)
      PROVE  b.d[c % FatPerSector] \in 0 .. EOC /\ (c < 2 => b.d[c % FatPerSector] # 0)
  <2>1. b \in FatBlocks
    BY <1>1, <1>2 DEF MayHold
  <2>2. c < 2 => c \in {0, 1}
    OBVIOUS
  <2> QED BY <1>1, <1>2, <2>1, <2>2 DEF MayHold, FatBlocks
<1>3. MayHold(FatSect(c), t.disk[FatSect(c)])
  BY <1>1, FsTypes DEF Good
<1>4. t.fs.winsect = FatSect(c) => MayHold(FatSect(c), t.fs.win)
  BY DEF Good, WindowOK
<1> QED BY <1>2, <1>3, <1>4 DEF Value, ValueOf, FatEntry

(* What get_fat does. *)
GetDone(t, u, c) ==
  /\ Works(t, u) /\ SameFat(t, u) /\ u.dp = t.dp /\ SameCounts(t, u)
  /\ c \notin Clusters => u.val = IntErr /\ u.res = t.res /\ u.fs = t.fs /\ u.disk = t.disk
  /\ c \in Clusters =>
       /\ u.res = "FR_OK" => u.val = Value(t, c) /\ u.val \in 0 .. EOC
       /\ u.res # "FR_OK" => u.val = Ones /\ u.res = "FR_DISK_ERR"
       /\ t.fault = NoFault => u.res = "FR_OK"
  /\ u.val \in Nat

(* get_fat returns the entry of a cluster, 1 for what is no cluster and    *)
(* 0xFFFFFFFF when the card fails.                                         *)
LEMMA GetFat ==
  ASSUME NEW t, Good(t), NEW c
  PROVE  GetDone(t, get_fat(t, c), c)
<1>1. CASE c \notin Clusters
  <2>1. get_fat(t, c) = Val(t, IntErr)
    BY <1>1 DEF get_fat
  <2>2. IntErr \in Nat
    BY DEF IntErr
  <2> QED BY <1>1, <2>1, <2>2, ValWorks DEF GetDone, SameCounts
<1>2. CASE c \in Clusters
  <2> DEFINE w == move_window(t, FatSect(c))
             x == IF w.res = "FR_OK" THEN w.fs.win.d[c % FatPerSector] ELSE Ones
  <2>1. c \in 0 .. NFatent - 1 /\ FatSect(c) \in Nat
    BY <1>2, FatSectors, Sectors DEF Clusters
  <2>2. MoveDone(t, w, FatSect(c))
    BY <2>1, MoveWindow
  <2>3. get_fat(t, c) = Val(w, x)
    BY <1>2 DEF get_fat, Upon
  <2> HIDE DEF w
  <2>4. w.res = "FR_OK" => x = Value(t, c) /\ x \in 0 .. EOC
    <3>1. ASSUME w.res = "FR_OK" PROVE w.fs.winsect = FatSect(c) /\ x = Value(w, c)
      BY <2>2, <3>1 DEF MoveDone, Value, ValueOf
    <3>2. Value(w, c) = Value(t, c) /\ Good(w)
      BY <2>1, <2>2 DEF MoveDone, SameFat, Value, Works
    <3> QED BY <2>1, <3>1, <3>2, FatValue
  <2>5. x \in Nat /\ (w.res # "FR_OK" => x = Ones)
    <3>1. w.res # "FR_OK" => x = 2000
      BY DEF Ones
    <3>2. w.res = "FR_OK" => x \in 0 .. 1000
      BY <2>4 DEF EOC
    <3> HIDE DEF x
    <3> QED BY <3>1, <3>2 DEF Ones
  <2> HIDE DEF x
  <2>6. /\ Works(w, Val(w, x)) /\ SameFat(w, Val(w, x)) /\ Val(w, x).fs = w.fs
        /\ Val(w, x).dp = w.dp /\ Val(w, x).val = x /\ Val(w, x).res = w.res
    BY <2>2, <2>5, ValWorks DEF MoveDone, Works
  <2>7. Works(t, Val(w, x)) /\ SameFat(t, Val(w, x))
    BY <2>2, <2>6, WorksTrans, SameFatTrans DEF MoveDone
  <2> QED BY <1>2, <2>2, <2>3, <2>4, <2>5, <2>6, <2>7 DEF GetDone, MoveDone, SameCounts
<1> QED BY <1>1, <1>2

(* What put_fat does. *)
PutDone(t, u, c, x) ==
  /\ Alters(t, u) /\ SameCounts(t, u) /\ u.val = t.val
  /\ u.res \in {"FR_OK", "FR_DISK_ERR"}
  /\ t.fault = NoFault => u.res = "FR_OK"
  /\ u.res # "FR_OK" => Works(t, u) /\ SameFat(t, u)
  /\ u.res = "FR_OK" => \A e \in 0 .. NFatent - 1 :
                          Value(u, e) = IF e = c THEN x ELSE Value(t, e)

(* A window on the FAT with one entry set. *)
LEMMA EntrySet ==
  ASSUME NEW w, Good(w), w.fs.fs_type # 0, NEW c \in Clusters, w.fs.winsect = FatSect(c),
         NEW x \in 0 .. EOC
  PROVE  LET u == [w EXCEPT !.fs.win.d[c % FatPerSector] = x, !.fs.wflag = TRUE]
         IN /\ Alters(w, u) /\ SameCounts(w, u) /\ u.val = w.val /\ u.res = w.res
            /\ \A e \in 0 .. NFatent - 1 : Value(u, e) = IF e = c THEN x ELSE Value(w, e)
<1> DEFINE i == c % FatPerSector
           b == [w.fs.win EXCEPT !.d = [w.fs.win.d EXCEPT ![i] = x]]
           f == [w.fs EXCEPT !.win = b, !.wflag = TRUE]
           u == [w EXCEPT !.fs = f]
<1>1. c \in 0 .. NFatent - 1 /\ FatSect(c) \in Fat1 /\ i \in 0 .. FatPerSector - 1
      /\ FatSect(c) \in Fatbase .. Database - 1 /\ FatSect(c) # Volbase + 1
      /\ FatSect(c) > Volbase + 1 /\ FatSect(c) \notin DataArea
  BY FatSectors, Areas, Sectors DEF Clusters, Fat1
<1>2. w \in States /\ w.fs \in Volumes /\ MayHold(FatSect(c), w.fs.win)
  BY FsTypes DEF Good, WindowOK
<1>3. w.fs.win \in FatBlocks
  BY <1>1, <1>2 DEF MayHold
<1>4. b \in FatBlocks /\ b.d = [w.fs.win.d EXCEPT ![i] = x]
  BY <1>1, <1>3 DEF FatBlocks
<1>5. /\ b.d[i] = x
      /\ \A j \in 0 .. FatPerSector - 1 : j # i => b.d[j] = w.fs.win.d[j]
  BY <1>1, <1>3, <1>4 DEF FatBlocks
<1>6. ASSUME NEW e \in 0 .. NFatent - 1, FatSect(e) = FatSect(c)
      PROVE  b.d[e % FatPerSector] = IF e = c THEN x ELSE w.fs.win.d[e % FatPerSector]
  <2>1. e # c => e % FatPerSector # i
    BY <1>1, <1>6, FatIndex
  <2>2. e % FatPerSector \in 0 .. FatPerSector - 1
    BY FatSectors
  <2> HIDE DEF b
  <2> QED BY <1>5, <2>1, <2>2
<1> HIDE DEF b
<1>7. MayHold(FatSect(c), b)
  <2>1. ASSUME NEW e \in {0, 1}, FatSect(c) \in {FatSect(e), FatSect(e) + Fsize}
        PROVE  b.d[e % FatPerSector] # 0
    <3>1. e \in 0 .. NFatent - 1 /\ e # c /\ FatSect(e) \in Fat1
      BY FatSectors, Sectors DEF Clusters
    <3>2. FatSect(e) = FatSect(c)
      BY <1>1, <2>1, <3>1, Areas
    <3>3. w.fs.win.d[e % FatPerSector] # 0
      BY <1>2, <2>1 DEF MayHold
    <3> QED BY <1>6, <3>1, <3>2, <3>3
  <2> QED BY <1>1, <1>4, <2>1, Sectors DEF MayHold
<1>8. f \in Volumes /\ f.winsect = FatSect(c) /\ f.win = b /\ f.wflag = TRUE
      /\ f.fs_type = w.fs.fs_type /\ f.free_clst = w.fs.free_clst
      /\ f.last_clst = w.fs.last_clst /\ f.fsi_flag = w.fs.fsi_flag
  BY <1>2, <1>4 DEF Volumes, Blocks
<1> HIDE DEF f
<1>9. u \in States /\ u.disk = w.disk /\ u.fs = f /\ u.fp = w.fp /\ u.dj = w.dj
      /\ u.dp = w.dp /\ u.fault = w.fault /\ u.val = w.val /\ u.out = w.out /\ u.res = w.res
  BY <1>2, <1>8, SetFs
<1>10. u = [w EXCEPT !.fs.win.d[c % FatPerSector] = x, !.fs.wflag = TRUE]
  BY <1>2 DEF States, u, f, b
<1> HIDE DEF u
<1>11. Good(u)
  BY <1>1, <1>7, <1>8, <1>9 DEF Good, WindowOK
<1>12. Neat(w) => Neat(u)
  BY <1>1, <1>8, <1>9 DEF Neat, NeatOK
<1>13. \A e \in 0 .. NFatent - 1 : Value(u, e) = IF e = c THEN x ELSE Value(w, e)
  BY <1>6, <1>8, <1>9 DEF Value, ValueOf
<1> QED BY <1>8, <1>9, <1>10, <1>11, <1>12, <1>13 DEF Alters, SameCounts

(* put_fat sets the entry of one cluster in the window, marks it pending,  *)
(* and leaves the other entries alone.                                     *)
LEMMA PutFat ==
  ASSUME NEW t, Good(t), t.fs.fs_type # 0, NEW c \in Clusters, NEW x \in 0 .. EOC
  PROVE  PutDone(t, put_fat(t, c, x), c, x)
<1> DEFINE w == move_window(t, FatSect(c))
           u == [w EXCEPT !.fs.win.d[c % FatPerSector] = x, !.fs.wflag = TRUE]
<1>1. c \in 0 .. NFatent - 1 /\ FatSect(c) \in Nat
  BY FatSectors, Sectors DEF Clusters
<1>2. MoveDone(t, w, FatSect(c))
  BY <1>1, MoveWindow
<1>3. put_fat(t, c, x) = IF w.res = "FR_OK" THEN u ELSE w
  BY DEF put_fat, Then
<1> HIDE DEF w
<1>4. CASE w.res # "FR_OK"
  BY <1>2, <1>3, <1>4 DEF MoveDone, PutDone, Alters, SameCounts, Works
<1>5. CASE w.res = "FR_OK"
  <2>1. Good(w) /\ w.fs.winsect = FatSect(c) /\ w.fs.fs_type # 0
    BY <1>2, <1>5 DEF MoveDone, Works
  <2>2. /\ Alters(w, u) /\ SameCounts(w, u) /\ u.val = w.val /\ u.res = w.res
        /\ \A e \in 0 .. NFatent - 1 : Value(u, e) = IF e = c THEN x ELSE Value(w, e)
    BY <2>1, EntrySet
  <2> HIDE DEF u
  <2>3. \A e \in 0 .. NFatent - 1 : Value(w, e) = Value(t, e)
    BY <1>2 DEF MoveDone, SameFat, Value
  <2>4. Alters(t, u) /\ SameCounts(t, u) /\ u.val = t.val
    BY <1>2, <2>2 DEF MoveDone, Alters, SameCounts, Works
  <2> QED BY <1>3, <1>5, <2>2, <2>3, <2>4 DEF PutDone
<1> QED BY <1>4, <1>5

-----------------------------------------------------------------------------
(* Loops with a bound, and sync_fs. *)

(* Induction over the natural numbers, for a set. *)
LEMMA NatInd ==
  ASSUME NEW S, 0 \in S, \A n \in Nat : n \in S => n + 1 \in S
  PROVE Nat \subseteq S
<1>1. PICK R : R = OpToRel(<, Nat)
  OBVIOUS
<1>2. IsWellFoundedOn(R, Nat)
  BY <1>1, NatLessThanWellFounded
<1>3. \A x, y \in Nat : x < y => <<x, y>> \in R
  BY <1>1 DEF OpToRel
<1> DEFINE T == Nat \ S
<1>4. SUFFICES ASSUME T # {} PROVE FALSE
  OBVIOUS
<1>5. PICK x \in T : \A y \in T : ~(<<y, x>> \in R)
  <2> HIDE DEF T
  <2>1. T \subseteq Nat
    BY DEF T
  <2> QED BY <1>2, <1>4, <2>1, WFMin
<1>6. x # 0 /\ x - 1 \in Nat /\ x - 1 < x /\ x - 1 + 1 = x
  BY <1>5
<1>7. x - 1 \in S
  BY <1>3, <1>5, <1>6
<1> QED BY <1>5, <1>6, <1>7

(* g[i], in S[i], is the state after i of n turns F of a loop that starts at x. *)
LoopedIn(S, F, x, n, g) ==
  /\ g = [i \in 0 .. n |-> g[i]]
  /\ \A i \in 0 .. n : /\ g[i] \in S[i]
                       /\ i # 0 => g[i - 1] \in S[i - 1]
                       /\ g[i] = IF i = 0 THEN x ELSE F[<<g[i - 1], i>>]

(* A loop of n turns, each of which leads from S[i - 1] to S[i], is a      *)
(* function with its values in these sets.                                 *)
LEMMA LoopIn ==
  ASSUME NEW S, NEW F, NEW n \in Nat, NEW x, x \in S[0],
         \A i \in 1 .. n : \A s \in S[i - 1] : F[<<s, i>>] \in S[i]
  PROVE  \E g : LoopedIn(S, F, x, n, g)
<1> DEFINE T == {k \in Nat : k <= n => \E g : LoopedIn(S, F, x, k, g)}
<1>1. 0 \in T
  <2> DEFINE g == [i \in 0 .. 0 |-> x]
  <2>1. g = [i \in 0 .. 0 |-> g[i]] /\ \A i \in 0 .. 0 : i = 0 /\ g[i] = x
    OBVIOUS
  <2> HIDE DEF g
  <2>2. LoopedIn(S, F, x, 0, g)
    BY <2>1 DEF LoopedIn
  <2> QED BY <2>2
<1>2. ASSUME NEW k \in Nat, k \in T PROVE k + 1 \in T
  <2>1. SUFFICES ASSUME k + 1 <= n PROVE \E g : LoopedIn(S, F, x, k + 1, g)
    OBVIOUS
  <2>2. PICK h : LoopedIn(S, F, x, k, h)
    BY <1>2, <2>1
  <2> DEFINE y == F[<<h[k], k + 1>>]
             g == [i \in 0 .. k + 1 |-> IF i = k + 1 THEN y ELSE h[i]]
  <2>3. h[k] \in S[k] /\ y \in S[k + 1]
    <3>1. k \in 0 .. k /\ k + 1 \in 1 .. n /\ k + 1 - 1 = k
      BY <2>1
    <3>2. h[k] \in S[k]
      BY <2>2, <3>1 DEF LoopedIn
    <3>3. h[k] \in S[k + 1 - 1]
      BY <3>1, <3>2
    <3> QED BY <3>1, <3>2, <3>3
  <2> HIDE DEF y
  <2>4. g = [i \in 0 .. k + 1 |-> g[i]] /\ g[k + 1] = y /\ \A i \in 0 .. k : g[i] = h[i]
    OBVIOUS
  <2> HIDE DEF g
  <2>5. ASSUME NEW i \in 0 .. k + 1
        PROVE  /\ g[i] \in S[i]
               /\ i # 0 => g[i - 1] \in S[i - 1]
               /\ g[i] = IF i = 0 THEN x ELSE F[<<g[i - 1], i>>]
    <3>1. CASE i = k + 1
      <4>1. i # 0 /\ i - 1 = k /\ k \in 0 .. k
        BY <3>1
      <4> QED BY <2>3, <2>4, <3>1, <4>1 DEF y
    <3>2. CASE i # k + 1
      <4>1. i \in 0 .. k /\ (i # 0 => i - 1 \in 0 .. k)
        BY <3>2
      <4> QED BY <2>2, <2>4, <4>1 DEF LoopedIn
    <3> QED BY <3>1, <3>2
  <2>6. LoopedIn(S, F, x, k + 1, g)
    BY <2>4, <2>5 DEF LoopedIn
  <2> QED BY <2>6
<1> HIDE DEF T
<1>3. Nat \subseteq T
  BY <1>1, <1>2, NatInd
<1> QED BY <1>3 DEF T

(* g[i], in S, is the state after i of n turns F of a loop that starts at x. *)
Looped(S, F, x, n, g) ==
  /\ g = [i \in 0 .. n |-> g[i]]
  /\ \A i \in 0 .. n : /\ g[i] \in S
                       /\ i # 0 => g[i - 1] \in S
                       /\ g[i] = IF i = 0 THEN x ELSE F[<<g[i - 1], i>>]

(* A loop of n turns, each of which stays in S, is a function with its     *)
(* values in S.                                                            *)
LEMMA Loop ==
  ASSUME NEW S, NEW x \in S, NEW F, NEW n \in Nat, \A i \in 1 .. n : \A s \in S : F[<<s, i>>] \in S
  PROVE  \E g : Looped(S, F, x, n, g)
<1> DEFINE R == [i \in Nat |-> S]
<1>1. \A i \in 0 .. n : R[i] = S /\ (i # 0 => R[i - 1] = S)
  OBVIOUS
<1> HIDE DEF R
<1>2. x \in R[0] /\ \A i \in 1 .. n : \A s \in R[i - 1] : F[<<s, i>>] \in R[i]
  BY <1>1
<1>3. PICK g : LoopedIn(R, F, x, n, g)
  BY <1>2, LoopIn
<1>4. Looped(S, F, x, n, g)
  BY <1>1, <1>3 DEF Looped, LoopedIn
<1> QED BY <1>4

(* What holds at the start and is kept by each turn holds after every turn. *)
LEMMA StaysIn ==
  ASSUME NEW S, NEW at, NEW n \in Nat, at[0] \in S[0],
         \A i \in 1 .. n : at[i - 1] \in S[i - 1] => at[i] \in S[i]
  PROVE  \A i \in 0 .. n : at[i] \in S[i]
<1> DEFINE T == {i \in Nat : i <= n => at[i] \in S[i]}
<1>1. 0 \in T
  OBVIOUS
<1>2. \A i \in Nat : i \in T => i + 1 \in T
  <2> TAKE i \in Nat
  <2>1. i + 1 \in Nat /\ i + 1 - 1 = i /\ (i + 1 <= n => i + 1 \in 1 .. n)
    OBVIOUS
  <2>2. i + 1 <= n /\ at[i + 1 - 1] \in S[i + 1 - 1] => at[i + 1] \in S[i + 1]
    BY <2>1
  <2> QED BY <2>1, <2>2
<1> HIDE DEF T
<1>3. Nat \subseteq T
  BY <1>1, <1>2, NatInd
<1> QED BY <1>3 DEF T

(* What holds at the start and is kept by each turn holds at the end. *)
LEMMA Stays ==
  ASSUME NEW S, NEW at, NEW n \in Nat, at[0] \in S, \A i \in 1 .. n : at[i - 1] \in S => at[i] \in S
  PROVE  at[n] \in S
<1> DEFINE R == [i \in Nat |-> S]
<1>1. \A i \in 0 .. n : R[i] = S /\ (i # 0 => R[i - 1] = S)
  OBVIOUS
<1> HIDE DEF R
<1>2. \A i \in 0 .. n : at[i] \in R[i]
  BY <1>1, StaysIn
<1> QED BY <1>1, <1>2

(* What sync_fs does. *)
SyncFsDone(t, u) ==
  /\ Works(t, u) /\ SameFat(t, u) /\ u.dp = t.dp /\ u.val = t.val
  /\ u.res \in {"FR_OK", "FR_DISK_ERR"}

(* sync_fs writes what is pending, and FSINFO when it changed: with the    *)
(* counters the volume has.                                                *)
LEMMA SyncFs ==
  ASSUME NEW t, Good(t), t.fs.fs_type # 0
  PROVE  SyncFsDone(t, sync_fs(t))
<1> DEFINE w == sync_window(t)
           info == FsInfo(w.fs.free_clst, w.fs.last_clst)
           f == [w.fs EXCEPT !.win = info, !.winsect = Volbase + 1, !.fsi_flag = 0]
           c == [w EXCEPT !.fs = f]
           d == disk_write(c, Volbase + 1, One(info))
           u == Ret(d, "FR_OK")
<1>1. SyncDone(t, w)
  BY SyncWindow
<1> HIDE DEF w
<1>2. w \in States /\ w.fs \in Volumes /\ Good(w)
  BY <1>1, FsTypes DEF SyncDone, Works, Good
<1>3. sync_fs(t) = IF w.res = "FR_OK" /\ w.fs.fsi_flag = 1 THEN u ELSE w
  <2>1. c = [w EXCEPT !.fs.win = info, !.fs.winsect = Volbase + 1, !.fs.fsi_flag = 0]
    BY <1>2 DEF States
  <2> HIDE DEF c
  <2> QED BY <2>1 DEF sync_fs, Then, w
<1>4. CASE ~(w.res = "FR_OK" /\ w.fs.fsi_flag = 1)
  BY <1>1, <1>3, <1>4 DEF SyncDone, SyncFsDone
<1>5. CASE w.res = "FR_OK" /\ w.fs.fsi_flag = 1
  <2>1. info \in InfoBlocks /\ info \in Blocks
    BY <1>2, FsTypes DEF FsInfo, InfoBlocks, Blocks
  <2>2. Volbase + 1 \in 0 .. LastSector /\ Volbase + 1 \notin Fat1 \cup DataArea
    BY Areas
  <2>3. MayHold(Volbase + 1, info)
    <3>1. \A e \in {0, 1} : FatSect(e) \in Fat1
      BY FatSectors, Sectors
    <3>2. \A e \in {0, 1} : Volbase + 1 \notin {FatSect(e), FatSect(e) + Fsize}
      BY <3>1, <2>2, Sectors DEF Fat1
    <3> QED BY <2>1, <2>2, <3>2, Sectors DEF MayHold
  <2>4. f \in Volumes /\ f.win = info /\ f.winsect = Volbase + 1 /\ ~f.wflag
        /\ f.fs_type = t.fs.fs_type /\ f.free_clst = t.fs.free_clst
    <3>1. ~w.fs.wflag /\ w.fs.fs_type = t.fs.fs_type /\ w.fs.free_clst = t.fs.free_clst
      BY <1>1, <1>5 DEF SyncDone, Works
    <3> HIDE DEF info
    <3>2. Volbase + 1 \in Nat
      BY Sectors
    <3> QED BY <1>2, <2>1, <3>1, <3>2 DEF Volumes
  <2> HIDE DEF f
  <2>5. c \in States /\ c.disk = w.disk /\ c.fs = f /\ c.fp = w.fp /\ c.dj = w.dj
        /\ c.dp = w.dp /\ c.fault = w.fault /\ c.val = w.val /\ c.out = w.out
    BY <1>2, <2>4, SetFs
  <2> HIDE DEF c
  <2>6. /\ d \in States
        /\ d.fs = f /\ d.fp = w.fp /\ d.dj = w.dj /\ d.dp = w.dp /\ d.fault = w.fault
        /\ d.val = w.val /\ d.out = w.out
        /\ w.fault = NoFault => d.res = "FR_OK"
        /\ d.res = "FR_OK" => d.disk[Volbase + 1] = info
        /\ \A n \in 0 .. LastSector : n # Volbase + 1 => d.disk[n] = w.disk[n]
    <3> HIDE DEF info
    <3> QED BY <2>1, <2>2, <2>3, <2>5, WriteOne
  <2> HIDE DEF d
  <2>7. u \in States /\ u.disk = d.disk /\ u.fs = f /\ u.fp = w.fp /\ u.dj = w.dj
        /\ u.dp = w.dp /\ u.fault = w.fault /\ u.val = w.val /\ u.out = w.out /\ u.res = "FR_OK"
    BY <2>6, SetRes DEF Results
  <2> HIDE DEF u, info
  <2>8. Good(u)
    BY <2>2, <2>3, <2>4, <2>7 DEF Good, WindowOK
  <2>9. SameFat(w, u)
    <3>1. \A e \in 0 .. NFatent - 1 : FatSect(e) \in Fat1 /\ FatSect(e) \in 0 .. LastSector
                                      /\ FatSect(e) # Volbase + 1
      BY FatSectors, Areas
    <3>2. \A e \in 0 .. NFatent - 1 : FatEntry(u.disk, e) = FatEntry(w.disk, e)
      BY <2>6, <2>7, <3>1 DEF FatEntry
    <3>3. ~w.fs.wflag /\ ~u.fs.wflag
      BY <1>1, <1>5, <2>4, <2>7 DEF SyncDone
    <3> QED BY <1>2, <2>8, <3>2, <3>3, CleanWindow DEF SameFat
  <2>10. Neat(w) => Mirrored(u.disk)
    <3>1. \A s \in Fat1 : s \in 0 .. LastSector /\ s + Fsize \in 0 .. LastSector
                          /\ s # Volbase + 1 /\ s + Fsize # Volbase + 1
      BY Areas, Sectors DEF Fat1
    <3> QED BY <2>6, <2>7, <3>1 DEF Neat, NeatOK, Mirrored
  <2>11. Neat(w) => u.fs.win = u.disk[Volbase + 1]
    BY <2>4, <2>6, <2>7 DEF Neat
  <2>12. u.fs.fs_type = w.fs.fs_type /\ u.fs.free_clst = w.fs.free_clst /\ w.fs.fs_type # 0
    BY <1>1, <2>4, <2>7 DEF SyncDone, Works
  <2>13. (Neat(w) => Neat(u)) /\ (Exact(w) => Exact(u))
    BY <2>7, <2>9, <2>10, <2>11, <2>12, CountsKept DEF Exact
  <2> QED BY <1>1, <1>3, <1>5, <2>7, <2>8, <2>9, <2>12, <2>13, SameFatTrans, WorksTrans
          DEF SyncDone, SyncFsDone, Works
<1> QED BY <1>4, <1>5

-----------------------------------------------------------------------------
(* The number of free clusters, and a cluster that is freed. *)

(* The free clusters are finitely many, at most NFatent - 2. *)
LEMMA FreeFinite ==
  ASSUME NEW t
  PROVE  /\ IsFiniteSet(FreeSet(t.disk, t.fs))
         /\ NFree(t) \in 0 .. NFatent - 2
<1>1. IsFiniteSet(Clusters) /\ Cardinality(Clusters) = NFatent - 2
  <2>1. 2 \in Int /\ NFatent - 1 \in Int /\ ~(2 > NFatent - 1) /\ NFatent - 1 - 2 + 1 = NFatent - 2
    BY Sectors
  <2> QED BY <2>1, FS_Interval DEF Clusters
<1>2. FreeSet(t.disk, t.fs) \subseteq Clusters
  BY DEF FreeSet
<1> QED BY <1>1, <1>2, FS_Subset, FS_CardinalityType, Sectors DEF NFree

(* There is one free cluster more when one entry in use becomes 0. *)
LEMMA FreeMore ==
  ASSUME NEW t, NEW u, NEW c \in Clusters, Value(t, c) # 0, Value(u, c) = 0,
         \A e \in Clusters : e # c => Value(u, e) = Value(t, e)
  PROVE  NFree(u) = NFree(t) + 1 /\ NFree(t) < NFatent - 2
<1>1. FreeSet(u.disk, u.fs) = FreeSet(t.disk, t.fs) \cup {c} /\ c \notin FreeSet(t.disk, t.fs)
  BY DEF FreeSet, Value
<1>2. NFree(u) = NFree(t) + 1
  BY <1>1, FreeFinite, FS_AddElement DEF NFree
<1> QED BY <1>2, FreeFinite, Sectors

(* The number of free clusters stays when the same entries are 0. *)
LEMMA FreeSame ==
  ASSUME NEW t, NEW u, \A e \in Clusters : (Value(u, e) = 0 <=> Value(t, e) = 0)
  PROVE  NFree(u) = NFree(t) /\ FreeSet(u.disk, u.fs) = FreeSet(t.disk, t.fs)
  BY DEF FreeSet, Value, NFree

(* A cluster is an index of the FAT and none of the marks. *)
LEMMA InFat ==
  ASSUME NEW c \in Clusters
  PROVE  c \in 0 .. NFatent - 1 /\ c \in Nat /\ c >= 2 /\ c # Ones /\ c # IntErr /\ c # 0
  BY Sectors DEF Clusters, Ones, IntErr, EOC

(* The counters of the volume are set. *)
Counted(p, n, l, g) ==
  [p EXCEPT !.fs = [p.fs EXCEPT !.free_clst = n, !.last_clst = l, !.fsi_flag = g]]

(* Setting the counters leaves the FAT as it is. *)
LEMMA CountsSet ==
  ASSUME NEW p, Good(p), NEW n \in FreeCounts, NEW l \in LastClusters, NEW g \in Nat
  PROVE  LET u == Counted(p, n, l, g) IN
         /\ Alters(p, u) /\ u.val = p.val /\ u.res = p.res /\ u.fs.free_clst = n
         /\ \A e : Value(u, e) = Value(p, e)
<1> DEFINE f == [p.fs EXCEPT !.free_clst = n, !.last_clst = l, !.fsi_flag = g]
           u == [p EXCEPT !.fs = f]
<1>1. p \in States /\ p.fs \in Volumes
  BY FsTypes DEF Good
<1>2. f \in Volumes /\ f.win = p.fs.win /\ f.winsect = p.fs.winsect /\ f.wflag = p.fs.wflag
      /\ f.fs_type = p.fs.fs_type /\ f.free_clst = n
  BY <1>1 DEF Volumes
<1> HIDE DEF f
<1>3. u \in States /\ u.disk = p.disk /\ u.fs = f /\ u.fp = p.fp /\ u.dj = p.dj
      /\ u.dp = p.dp /\ u.fault = p.fault /\ u.val = p.val /\ u.out = p.out /\ u.res = p.res
  BY <1>1, <1>2, SetFs
<1>4. u = Counted(p, n, l, g)
  BY DEF Counted, f
<1> HIDE DEF u
<1>5. Good(u) /\ (Neat(p) => Neat(u)) /\ \A e : Value(u, e) = Value(p, e)
  BY <1>2, <1>3 DEF Good, WindowOK, Neat, NeatOK, Value, ValueOf
<1> QED BY <1>2, <1>3, <1>4, <1>5 DEF Alters

(* The flags of FSINFO stay numbers. *)
LEMMA Flag ==
  ASSUME NEW x PROVE InfoChanged(x) \in Nat
  BY DEF InfoChanged

(* An entry in use gets another value: the count of free clusters stands. *)
LEMMA PutUsed ==
  ASSUME NEW t, Good(t), t.fs.fs_type # 0, NEW c \in Clusters, Value(t, c) # 0,
         NEW x \in 0 .. EOC, x # 0
  PROVE  LET u == put_fat(t, c, x) IN
         /\ Works(t, u) /\ u.dp = t.dp /\ u.val = t.val /\ SameCounts(t, u)
         /\ u.res \in {"FR_OK", "FR_DISK_ERR"}
         /\ t.fault = NoFault => u.res = "FR_OK"
<1> DEFINE u == put_fat(t, c, x)
<1>1. PutDone(t, u, c, x)
  BY PutFat
<1> HIDE DEF u
<1>2. CASE u.res = "FR_OK"
  <2>1. \A e \in Clusters : Value(u, e) = IF e = c THEN x ELSE Value(t, e)
    BY <1>1, <1>2, InFat DEF PutDone
  <2>2. FreeSet(u.disk, u.fs) = FreeSet(t.disk, t.fs)
    BY <2>1, FreeSame
  <2> QED BY <1>1, <2>2 DEF PutDone, Alters, Works, SameCounts, Exact, CountRight, u
<1>3. CASE u.res # "FR_OK"
  BY <1>1, <1>3 DEF PutDone, Alters, u
<1> QED BY <1>2, <1>3

(* free_link frees the cluster t.val and counts it: the count stays right. *)
LEMMA FreeLink ==
  ASSUME NEW t, Good(t), t.fs.fs_type # 0
  PROVE  Works(t, free_link(t)) /\ free_link(t).dp = t.dp
<1> DEFINE g == get_fat(t, t.val)
           p == put_fat(g, t.val, 0)
           k == count_freed(p)
<1>1. GetDone(t, g, t.val)
  BY GetFat
<1>2. free_link(t) =
        CASE g.val = 0 -> Ret(g, "FR_OK")
          [] g.val \in {IntErr, Ones} -> Ret(g, ClusterError(g.val))
          [] OTHER -> IF p.res = "FR_OK" THEN IF g.val < NFatent THEN More(k) ELSE k ELSE p
  BY DEF free_link, Upon, Then
<1> HIDE DEF g
<1>3. Good(g) /\ Works(t, g) /\ g.dp = t.dp /\ g.fs.fs_type # 0
  BY <1>1 DEF GetDone, Works
<1>4. \A r \in Results : Works(t, Ret(g, r)) /\ Ret(g, r).dp = t.dp
  BY <1>3, RetWorks, WorksTrans
<1>5. CASE g.val \in {0, IntErr, Ones}
  <2>1. "FR_OK" \in Results /\ ClusterError(IntErr) \in Results /\ ClusterError(Ones) \in Results
    BY DEF ClusterError, Results, IntErr, Ones
  <2> QED BY <1>2, <1>4, <1>5, <2>1 DEF IntErr, Ones
<1>6. CASE g.val \notin {0, IntErr, Ones}
  <2>1. t.val \in Clusters /\ g.res = "FR_OK" /\ Value(t, t.val) # 0 /\ Value(g, t.val) # 0
    <3>1. t.val \in Clusters /\ g.res = "FR_OK" /\ Value(t, t.val) # 0
      BY <1>1, <1>6 DEF GetDone
    <3> QED BY <1>1, <3>1, InFat DEF GetDone, SameFat, Value
  <2>2. 0 \in 0 .. EOC
    BY DEF EOC
  <2>3. PutDone(g, p, t.val, 0)
    BY <1>3, <2>1, <2>2, PutFat
  <2> HIDE DEF p
  <2>4. CASE p.res # "FR_OK"
    BY <1>2, <1>3, <1>6, <2>3, <2>4, WorksTrans DEF PutDone, Alters
  <2>5. CASE p.res = "FR_OK"
    <3>1. \A e \in Clusters : Value(p, e) = IF e = t.val THEN 0 ELSE Value(g, e)
      BY <2>3, <2>5, InFat DEF PutDone
    <3>2. NFree(p) = NFree(g) + 1 /\ NFree(g) < NFatent - 2
      BY <2>1, <3>1, FreeMore
    <3>3. Good(p) /\ p.fs.free_clst = g.fs.free_clst /\ p.fs.fs_type = g.fs.fs_type
          /\ p.fs.free_clst \in FreeCounts /\ p.fs.last_clst \in LastClusters
          /\ p \in States /\ p.fs \in Volumes
      BY <2>3, FsTypes DEF PutDone, Alters, SameCounts, Good
    <3>4. Exact(g) => p.fs.free_clst \in {Ones, NFree(g)} /\ Neat(p)
      BY <1>3, <2>3, <3>3 DEF Exact, CountRight, NFree, PutDone, Alters
    <3>5. Works(g, k) /\ k.dp = g.dp
      <4>1. CASE p.fs.free_clst < NFatent - 2
        <5> DEFINE n == p.fs.free_clst + 1
                   l == p.fs.last_clst
                   b == InfoChanged(p.fs.fsi_flag)
        <5>1. n \in FreeCounts /\ l \in LastClusters /\ b \in Nat
          BY <3>3, <4>1, Sectors, Flag DEF FreeCounts, Ones, EOC
        <5>2. k = Counted(p, n, l, b)
          <6>1. k = [p EXCEPT !.fs.free_clst = n, !.fs.fsi_flag = b]
            BY <4>1 DEF count_freed
          <6>2. [p.fs EXCEPT !.free_clst = n, !.last_clst = l, !.fsi_flag = b]
                = [p.fs EXCEPT !.free_clst = n, !.fsi_flag = b]
            BY <3>3 DEF Volumes
          <6>3. k = [p EXCEPT !.fs = [p.fs EXCEPT !.free_clst = n, !.fsi_flag = b]]
            <7> HIDE DEF n, b, k
            <7> QED BY <6>1, <3>3 DEF States
          <6> HIDE DEF n, l, b, k
          <6> QED BY <6>2, <6>3, Zenon DEF Counted
        <5> HIDE DEF n, l, b, k
        <5>3. Alters(p, k) /\ k.fs.free_clst = n /\ \A e : Value(k, e) = Value(p, e)
          BY <3>3, <5>1, <5>2, CountsSet
        <5>4. NFree(k) = NFree(p)
          <6>1. \A e \in Clusters : (Value(k, e) = 0 <=> Value(p, e) = 0)
            BY <5>3
          <6> QED BY <6>1, FreeSame
        <5>5. Exact(g) => Neat(k) /\ k.fs.free_clst = NFree(k)
          BY <3>2, <3>4, <4>1, <5>3, <5>4, Sectors DEF n, Alters, Ones, EOC
        <5>6. Exact(g) => Exact(k)
          BY <5>5 DEF Exact, CountRight, NFree
        <5> QED BY <2>3, <5>3, <5>6 DEF Works, Alters, PutDone
      <4>2. CASE ~(p.fs.free_clst < NFatent - 2)
        <5>1. k = p
          BY <4>2 DEF count_freed
        <5>2. Exact(g) => p.fs.free_clst = Ones
          BY <3>2, <3>4, <4>2
        <5>3. Exact(g) => Exact(p)
          BY <3>4, <5>2 DEF Exact, CountRight
        <5> QED BY <2>3, <5>1, <5>3 DEF Works, Alters, PutDone
      <4> QED BY <4>1, <4>2
    <3> HIDE DEF k
    <3>6. Works(t, k) /\ k.dp = t.dp /\ Good(k)
      BY <1>3, <3>5, WorksTrans DEF Works
    <3>7. Works(t, More(k)) /\ More(k).dp = t.dp
      BY <3>6, RetWorks, WorksTrans DEF More, Results
    <3> QED BY <1>2, <1>6, <2>5, <3>6, <3>7 DEF IntErr, Ones
  <2> QED BY <2>4, <2>5
<1> QED BY <1>5, <1>6

-----------------------------------------------------------------------------
(* remove_chain, and the search for a free cluster. *)

(* free_links frees a chain, cluster by cluster, with a right count after  *)
(* each.                                                                   *)
LEMMA FreeLinks ==
  ASSUME NEW t, Good(t), t.fs.fs_type # 0, NEW c \in Nat
  PROVE  LET u == free_links(t, c) IN Works(t, u) /\ u.dp = t.dp
<1> DEFINE S == {s \in States : Works(t, s) /\ s.dp = t.dp}
           x == More(Val(t, c))
           Turn(s) == IF s.res = "more" THEN free_link(Ret(s, "FR_OK")) ELSE s
           F == [p \in S \X Nat |-> Turn(p[1])]
           Is(g) == g = [i \in 0 .. NFatent |-> IF i = 0 THEN x ELSE Turn(g[i - 1])]
           at == CHOOSE g : Is(g)
<1>0. NFatent \in Nat
  BY Sectors
<1>1. x \in S
  <2>1. Good(Val(t, c)) /\ Works(t, Val(t, c)) /\ Val(t, c).dp = t.dp
    BY ValWorks DEF Works
  <2>2. Works(t, x) /\ x.dp = t.dp /\ x \in States
    BY <2>1, RetWorks, WorksTrans DEF More, Results, Works, Good
  <2> QED BY <2>2
<1>2. ASSUME NEW s \in S PROVE Turn(s) \in S
  <2>1. Good(s) /\ Works(t, s) /\ s.dp = t.dp /\ s.fs.fs_type # 0
    BY DEF Works
  <2> DEFINE r == Ret(s, "FR_OK")
  <2>2. Good(r) /\ Works(s, r) /\ r.dp = t.dp /\ r.fs.fs_type # 0
    BY <2>1, RetWorks DEF Results, Works
  <2> HIDE DEF r
  <2>3. Works(r, free_link(r)) /\ free_link(r).dp = t.dp
    BY <2>2, FreeLink
  <2>4. Works(t, free_link(r)) /\ free_link(r).dp = t.dp /\ free_link(r) \in States
    BY <2>1, <2>2, <2>3, WorksTrans DEF Works, Good
  <2> QED BY <2>4 DEF r
<1> HIDE DEF x, Turn, S
<1>3. \A i \in 1 .. NFatent : \A s \in S : F[<<s, i>>] = Turn(s) /\ F[<<s, i>>] \in S
  BY <1>2
<1> HIDE DEF F
<1>4. PICK g : Looped(S, F, x, NFatent, g)
  BY <1>0, <1>1, <1>3, Loop
<1>5. Is(g)
  <2>1. /\ g = [i \in 0 .. NFatent |-> g[i]]
        /\ \A i \in 0 .. NFatent : g[i] = IF i = 0 THEN x ELSE Turn(g[i - 1])
    <3>1. \A i \in 0 .. NFatent : i # 0 => i \in 1 .. NFatent
      BY <1>0
    <3>2. \A i \in 0 .. NFatent : i # 0 => F[<<g[i - 1], i>>] = Turn(g[i - 1])
      BY <1>3, <1>4, <3>1 DEF Looped
    <3> QED BY <1>4, <3>2 DEF Looped
  <2>2. g = [i \in 0 .. NFatent |-> IF i = 0 THEN x ELSE Turn(g[i - 1])]
    BY <2>1
  <2> QED BY <2>2
<1>6. Is(at)
  BY <1>5
<1>7. at[NFatent] \in S
  <2> HIDE DEF at
  <2>1. \A i \in 0 .. NFatent : at[i] = IF i = 0 THEN x ELSE Turn(at[i - 1])
    BY <1>6
  <2>2. at[0] \in S
    BY <1>0, <1>1, <2>1
  <2>3. ASSUME NEW i \in 1 .. NFatent, at[i - 1] \in S PROVE at[i] \in S
    <3>1. i \in 0 .. NFatent /\ i # 0
      BY <1>0
    <3>2. at[i] = Turn(at[i - 1])
      BY <2>1, <3>1
    <3> QED BY <1>2, <2>3, <3>2
  <2> QED BY <1>0, <2>2, <2>3, Stays
<1>8. free_links(t, c) = at[NFatent]
  BY DEF free_links, Repeat, x, Turn
<1> QED BY <1>7, <1>8 DEF S

(* remove_chain, which may first end the chain at pclst, leaves the count  *)
(* right.                                                                  *)
LEMMA RemoveChain ==
  ASSUME NEW t, Good(t), t.fs.fs_type # 0, NEW c \in Nat, NEW pclst \in Nat,
         c \in Clusters /\ pclst \in Clusters => Value(t, pclst) # 0
  PROVE  LET u == remove_chain(t, c, pclst) IN Works(t, u) /\ u.dp = t.dp
<1> DEFINE p == IF pclst # 0 THEN put_fat(t, pclst, EOC) ELSE Ret(t, "FR_OK")
<1>1. CASE c \notin Clusters
  BY <1>1, RetWorks DEF remove_chain, Results
<1>2. CASE c \in Clusters
  <2>1. Works(t, p) /\ p.dp = t.dp
    <3>1. CASE pclst = 0
      BY <3>1, RetWorks DEF Results
    <3>2. CASE pclst # 0 /\ pclst \notin Clusters
      BY <3>2, RetWorks DEF put_fat, Results
    <3>3. CASE pclst \in Clusters
      <4>1. EOC \in 0 .. EOC /\ EOC # 0
        BY DEF EOC
      <4>2. pclst # 0 /\ Value(t, pclst) # 0
        BY <1>2, <3>3, InFat
      <4> QED BY <3>3, <4>1, <4>2, PutUsed
    <3> QED BY <3>1, <3>2, <3>3
  <2>2. remove_chain(t, c, pclst) = IF p.res = "FR_OK" THEN free_links(p, c) ELSE p
    BY <1>2 DEF remove_chain, Then
  <2> HIDE DEF p
  <2>3. Good(p) /\ p.fs.fs_type # 0
    BY <2>1 DEF Works
  <2>4. Works(t, free_links(p, c)) /\ free_links(p, c).dp = t.dp
    BY <2>1, <2>3, FreeLinks, WorksTrans
  <2> QED BY <2>1, <2>2, <2>4
<1> QED BY <1>1, <1>2

(* The search leaves the FAT and the counters alone. *)
Search(t, s) ==
  /\ Works(t, s) /\ SameFat(t, s) /\ SameCounts(t, s) /\ s.dp = t.dp

(* Search is transitive. *)
LEMMA SearchTrans ==
  ASSUME NEW t, NEW u, NEW v, Search(t, u), Search(u, v)
  PROVE  Search(t, v)
  BY WorksTrans, SameFatTrans DEF Search, SameCounts

(* Setting the result is part of a search. *)
LEMMA SearchRet ==
  ASSUME NEW t, Good(t), NEW r \in Results
  PROVE  Search(t, Ret(t, r)) /\ Ret(t, r).val = t.val /\ Ret(t, r).res = r
  BY RetWorks DEF Search, SameCounts

(* Setting the value is part of a search. *)
LEMMA SearchVal ==
  ASSUME NEW t, Good(t), NEW x \in Nat
  PROVE  Search(t, Val(t, x)) /\ Val(t, x).val = x /\ Val(t, x).res = t.res
  BY ValWorks DEF Search, SameCounts

(* A search that goes on is at a cluster; one that found a cluster found a *)
(* free one.                                                               *)
Found(t, s) ==
  /\ s.val \in {0, IntErr, Ones} \cup Clusters
  /\ s.res = "more" => s.val \in 1 .. NFatent - 1
  /\ s.res = "FR_OK" /\ s.val \in Clusters => Value(t, s.val) = 0

(* try_cluster goes to the next cluster and looks whether it is free. *)
LEMMA TryCluster ==
  ASSUME NEW t, Good(t), NEW scl, t.val \in 1 .. NFatent - 1, t.res = "FR_OK"
  PROVE  LET u == try_cluster(t, scl) IN Search(t, u) /\ Found(t, u)
<1> DEFINE n == IF t.val + 1 >= NFatent THEN 2 ELSE t.val + 1
           g == get_fat(t, n)
<1>1. n \in Clusters
  BY Sectors DEF Clusters
<1> HIDE DEF n
<1>2. n \in Nat /\ n # 0 /\ n \in 1 .. NFatent - 1 /\ n \notin {0, IntErr, Ones}
  BY <1>1, InFat, Sectors DEF Clusters
<1>3. \/ try_cluster(t, scl) = Val(t, 0)
      \/ try_cluster(t, scl) = IF g.val = 0 THEN Val(g, n)
                               ELSE IF g.val \in {IntErr, Ones} THEN g
                               ELSE IF n = scl THEN Val(g, 0) ELSE More(Val(g, n))
  BY DEF try_cluster, Upon, n
<1>4. GetDone(t, g, n)
  BY GetFat
<1> HIDE DEF g
<1>5. Good(g) /\ Search(t, g)
  BY <1>4 DEF GetDone, Search, Works
<1>6. \A y \in Nat : Search(t, Val(g, y)) /\ Val(g, y).val = y /\ Val(g, y).res = g.res
                     /\ Good(Val(g, y))
  BY <1>5, SearchVal, SearchTrans DEF Search, Works
<1>7. Search(t, Val(t, 0)) /\ Val(t, 0).val = 0 /\ Val(t, 0).res = "FR_OK"
  BY SearchVal
<1>8. g.res \in {"FR_OK", "FR_DISK_ERR"}
      /\ (g.res = "FR_OK" => g.val = Value(t, n))
      /\ (g.res # "FR_OK" => g.val = Ones)
  BY <1>1, <1>4 DEF GetDone
<1>9. Search(t, More(Val(g, n))) /\ More(Val(g, n)).val = n /\ More(Val(g, n)).res = "more"
  BY <1>2, <1>6, SearchRet, SearchTrans DEF More, Results
<1>10. CASE try_cluster(t, scl) = Val(t, 0)
  <2>1. 0 \notin Clusters
    BY InFat
  <2> QED BY <1>7, <1>10, <2>1 DEF Found
<1>11. CASE g.val = 0 /\ try_cluster(t, scl) = Val(g, n)
  BY <1>1, <1>2, <1>6, <1>8, <1>11 DEF Found, Ones
<1>12. CASE g.val \in {IntErr, Ones} /\ try_cluster(t, scl) = g
  <2>1. g.val \notin Clusters
    BY <1>12, InFat
  <2> QED BY <1>5, <1>8, <1>12, <2>1 DEF Found
<1>13. CASE try_cluster(t, scl) = Val(g, 0)
  <2>1. 0 \notin Clusters
    BY InFat
  <2> QED BY <1>6, <1>8, <1>13, <2>1 DEF Found
<1>14. CASE try_cluster(t, scl) = More(Val(g, n))
  BY <1>1, <1>2, <1>9, <1>14 DEF Found
<1> QED BY <1>3, <1>10, <1>11, <1>12, <1>13, <1>14

(* find_free returns a free cluster, none, or an error. *)
LEMMA FindFree ==
  ASSUME NEW t, Good(t), NEW scl \in 1 .. NFatent - 1
  PROVE  LET u == find_free(t, scl) IN Search(t, u) /\ Found(t, u)
<1> DEFINE S == {s \in States : Search(t, s) /\ Found(t, s)}
           x == More(Val(t, scl))
           Turn(s) == IF s.res = "more" THEN try_cluster(Ret(s, "FR_OK"), scl) ELSE s
           F == [p \in S \X Nat |-> Turn(p[1])]
           Is(g) == g = [i \in 0 .. NFatent |-> IF i = 0 THEN x ELSE Turn(g[i - 1])]
           at == CHOOSE g : Is(g)
<1>0. NFatent \in Nat
  BY Sectors
<1>1. x \in S
  <2>1. scl \in Nat /\ scl \in {0, IntErr, Ones} \cup Clusters
    BY Sectors DEF Clusters, IntErr
  <2>2. Search(t, Val(t, scl)) /\ Val(t, scl).val = scl /\ Good(Val(t, scl))
    BY <2>1, SearchVal DEF Search, Works
  <2>3. Search(t, x) /\ x.val = scl /\ x.res = "more" /\ x \in States
    BY <2>2, SearchRet, SearchTrans DEF More, Results, Search, Works, Good
  <2> HIDE DEF x
  <2> QED BY <2>1, <2>3 DEF Found
<1>2. ASSUME NEW s \in S PROVE Turn(s) \in S
  <2>1. CASE s.res # "more"
    BY <2>1
  <2>2. CASE s.res = "more"
    <3> DEFINE r == Ret(s, "FR_OK")
    <3>1. Good(s) /\ Search(t, s) /\ Found(t, s)
      BY DEF Search, Works
    <3>2. Good(r) /\ Search(t, r) /\ r.val = s.val /\ r.res = "FR_OK"
      BY <3>1, SearchRet, SearchTrans DEF Search, Results, Works
    <3> HIDE DEF r
    <3>3. r.val \in 1 .. NFatent - 1
      BY <2>2, <3>1, <3>2 DEF Found
    <3>4. Search(r, try_cluster(r, scl)) /\ Found(r, try_cluster(r, scl))
      BY <3>2, <3>3, TryCluster
    <3>5. Search(t, try_cluster(r, scl)) /\ try_cluster(r, scl) \in States
      BY <3>2, <3>4, SearchTrans DEF Search, Works, Good
    <3>6. \A c \in Clusters : Value(r, c) = Value(t, c)
      BY <3>2, InFat DEF Search, SameFat, Value
    <3>7. Found(t, try_cluster(r, scl))
      BY <3>4, <3>6 DEF Found
    <3> QED BY <2>2, <3>5, <3>7 DEF r
  <2> QED BY <2>1, <2>2
<1> HIDE DEF x, Turn, S
<1>3. \A i \in 1 .. NFatent : \A s \in S : F[<<s, i>>] = Turn(s) /\ F[<<s, i>>] \in S
  BY <1>2
<1> HIDE DEF F
<1>4. PICK g : Looped(S, F, x, NFatent, g)
  BY <1>0, <1>1, <1>3, Loop
<1>5. Is(g)
  <2>1. /\ g = [i \in 0 .. NFatent |-> g[i]]
        /\ \A i \in 0 .. NFatent : g[i] = IF i = 0 THEN x ELSE Turn(g[i - 1])
    <3>1. \A i \in 0 .. NFatent : i # 0 => i \in 1 .. NFatent
      BY <1>0
    <3>2. \A i \in 0 .. NFatent : i # 0 => F[<<g[i - 1], i>>] = Turn(g[i - 1])
      BY <1>3, <1>4, <3>1 DEF Looped
    <3> QED BY <1>4, <3>2 DEF Looped
  <2>2. g = [i \in 0 .. NFatent |-> IF i = 0 THEN x ELSE Turn(g[i - 1])]
    BY <2>1
  <2> QED BY <2>2
<1>6. Is(at)
  BY <1>5
<1>7. at[NFatent] \in S
  <2> HIDE DEF at
  <2>1. \A i \in 0 .. NFatent : at[i] = IF i = 0 THEN x ELSE Turn(at[i - 1])
    BY <1>6
  <2>2. at[0] \in S
    BY <1>0, <1>1, <2>1
  <2>3. ASSUME NEW i \in 1 .. NFatent, at[i - 1] \in S PROVE at[i] \in S
    <3>1. i \in 0 .. NFatent /\ i # 0
      BY <1>0
    <3>2. at[i] = Turn(at[i - 1])
      BY <2>1, <3>1
    <3> QED BY <1>2, <2>3, <3>2
  <2> QED BY <1>0, <2>2, <2>3, Stays
<1>8. find_free(t, scl) = at[NFatent]
  BY DEF find_free, Repeat, x, Turn
<1> QED BY <1>7, <1>8 DEF S

-----------------------------------------------------------------------------
(* create_chain. *)

(* What create_chain returns: a cluster or one of its codes. *)
Codes == {0, IntErr, Ones} \cup Clusters

(* These are numbers. *)
LEMMA CodesNat == Codes \subseteq Nat
  BY InFat DEF Codes, IntErr, Ones

(* link_cluster takes a free cluster into a chain and counts it: the count *)
(* stays right.                                                            *)
LEMMA LinkCluster ==
  ASSUME NEW t, Good(t), t.fs.fs_type # 0, t.fs.free_clst # 0,
         NEW ncl \in Clusters, Value(t, ncl) = 0,
         NEW c, c = 0 \/ (c \in Clusters /\ Value(t, c) # 0)
  PROVE  LET u == link_cluster(t, c, ncl) IN Works(t, u) /\ u.dp = t.dp /\ u.val \in Codes
<1> DEFINE q == put_fat(t, ncl, EOC)
           w == put_fat(q, c, ncl)
           p == IF q.res = "FR_OK" THEN IF c # 0 THEN w ELSE q ELSE q
           a == IF p.fs.free_clst <= NFatent - 2 THEN p.fs.free_clst - 1 ELSE p.fs.free_clst
           b == InfoChanged(p.fs.fsi_flag)
           k == [p EXCEPT !.val = ncl, !.fs.last_clst = ncl, !.fs.free_clst = a, !.fs.fsi_flag = b]
           e == IF p.res = "FR_DISK_ERR" THEN Ones ELSE IntErr
<1>1. link_cluster(t, c, ncl) = IF p.res = "FR_OK" THEN k ELSE Val(p, e)
  BY DEF link_cluster, Upon, Then
<1>2. EOC \in 0 .. EOC /\ EOC # 0 /\ ncl \in 0 .. EOC /\ ncl # 0 /\ ncl \in Nat
  BY InFat, Sectors DEF EOC, Clusters
<1>3. PutDone(t, q, ncl, EOC)
  BY <1>2, PutFat
<1>4. e \in Codes /\ ncl \in Codes /\ e \in Nat /\ ncl \in Nat
  BY CodesNat DEF Codes
<1> HIDE DEF q, e
<1>5. CASE q.res # "FR_OK"
  <2>1. p = q /\ Works(t, q) /\ q.dp = t.dp /\ Good(q)
    BY <1>3, <1>5 DEF PutDone, Alters
  <2> QED BY <1>1, <1>4, <1>5, <2>1, ValWorks, WorksTrans
<1>6. CASE q.res = "FR_OK"
  <2>1. /\ Good(q) /\ q.fs.fs_type # 0 /\ Alters(t, q) /\ SameCounts(t, q)
        /\ \A x \in Clusters : Value(q, x) = IF x = ncl THEN EOC ELSE Value(t, x)
    BY <1>3, <1>6, InFat DEF PutDone, Alters
  <2>2. c # 0 => c \in Clusters /\ Value(q, c) # 0
    BY <1>2, <2>1
  <2>3. /\ Alters(t, p) /\ SameCounts(t, p) /\ p.res \in {"FR_OK", "FR_DISK_ERR"}
        /\ t.fault = NoFault => p.res = "FR_OK"
        /\ p.res = "FR_OK" => \A x \in Clusters : Value(p, x) = 0 <=> Value(q, x) = 0
    <3>1. CASE c = 0
      BY <1>6, <2>1, <3>1
    <3>2. CASE c # 0
      <4>1. PutDone(q, w, c, ncl)
        BY <1>2, <2>1, <2>2, <3>2, PutFat
      <4> HIDE DEF w
      <4>2. w.res = "FR_OK" => \A x \in Clusters : Value(w, x) = IF x = c THEN ncl ELSE Value(q, x)
        BY <4>1, InFat DEF PutDone
      <4>3. p = w
        BY <1>6, <3>2
      <4> QED BY <1>2, <2>1, <2>2, <3>2, <4>1, <4>2, <4>3 DEF PutDone, Alters, SameCounts
    <3> QED BY <3>1, <3>2
  <2> HIDE DEF p
  <2>4. CASE p.res # "FR_OK"
    <3>1. Works(t, p) /\ p.dp = t.dp /\ Good(p)
      BY <2>3, <2>4 DEF Alters, Works, Neat, Exact
    <3> QED BY <1>1, <1>4, <2>4, <3>1, ValWorks, WorksTrans
  <2>5. CASE p.res = "FR_OK"
    <3>1. NFree(t) = NFree(p) + 1
      <4>1. Value(p, ncl) # 0 /\ \A x \in Clusters : x # ncl => (Value(p, x) = 0 <=> Value(t, x) = 0)
        BY <1>2, <2>1, <2>3, <2>5
      <4>2. FreeSet(t.disk, t.fs) = FreeSet(p.disk, p.fs) \cup {ncl} /\ ncl \notin FreeSet(p.disk, p.fs)
        BY <4>1 DEF FreeSet, Value
      <4> QED BY <4>2, FreeFinite, FS_AddElement DEF NFree
    <3>2. Good(p) /\ p.fs.free_clst = t.fs.free_clst /\ p \in States /\ p.fs \in Volumes
          /\ p.fs.free_clst \in FreeCounts /\ p.fs.fs_type = t.fs.fs_type
      BY <2>3, FsTypes DEF Alters, SameCounts, Good
    <3>3. a \in FreeCounts /\ b \in Nat /\ ncl \in LastClusters
          /\ (p.fs.free_clst # Ones => a = p.fs.free_clst - 1) /\ (p.fs.free_clst = Ones => a = Ones)
      BY <3>2, Sectors, Flag DEF FreeCounts, LastClusters, Clusters, Ones, EOC
    <3> DEFINE m == Counted(p, a, ncl, b)
    <3> HIDE DEF a, b
    <3>4. k = Val(m, ncl)
      <4> DEFINE f == [p.fs EXCEPT !.free_clst = a, !.last_clst = ncl, !.fsi_flag = b]
      <4>1. f = [p.fs EXCEPT !.last_clst = ncl, !.free_clst = a, !.fsi_flag = b]
        BY <3>2 DEF Volumes
      <4>2. k = [p EXCEPT !.val = ncl, !.fs = [p.fs EXCEPT !.last_clst = ncl, !.free_clst = a, !.fsi_flag = b]]
        BY <3>2 DEF States
      <4> HIDE DEF k, f
      <4>3. k = [p EXCEPT !.val = ncl, !.fs = f]
        BY <4>1, <4>2, Zenon
      <4>4. m = [p EXCEPT !.fs = f]
        BY DEF Counted, f
      <4>5. k = [m EXCEPT !.val = ncl]
        BY <3>2, <4>3, <4>4 DEF States
      <4> QED BY <4>5 DEF Val
    <3>5. Alters(p, m) /\ m.fs.free_clst = a /\ \A x : Value(m, x) = Value(p, x)
      BY <3>2, <3>3, CountsSet
    <3> HIDE DEF m, k
    <3>6. NFree(m) = NFree(p)
      <4>1. \A x \in Clusters : Value(m, x) = 0 <=> Value(p, x) = 0
        BY <3>5
      <4> QED BY <4>1, FreeSame
    <3>7. Exact(t) => Exact(m)
      <4>1. Exact(t) => t.fs.free_clst \in {Ones, NFree(t)} /\ Neat(t)
        BY DEF Exact, CountRight, NFree
      <4>2. t.fs.free_clst = NFree(t) /\ t.fs.free_clst # Ones => m.fs.free_clst = NFree(m)
        BY <3>1, <3>2, <3>3, <3>5, <3>6, FreeFinite
      <4>3. t.fs.free_clst = Ones => m.fs.free_clst = Ones
        BY <3>2, <3>3, <3>5
      <4>4. Neat(t) => Neat(m)
        BY <2>3, <3>5 DEF Alters
      <4> QED BY <4>1, <4>2, <4>3, <4>4 DEF Exact, CountRight, NFree
    <3>8. Works(t, m) /\ m.dp = t.dp /\ Good(m)
      BY <2>3, <3>5, <3>7 DEF Works, Alters
    <3> QED BY <1>1, <1>4, <2>5, <3>4, <3>8, ValWorks, WorksTrans
  <2> QED BY <2>4, <2>5
<1> QED BY <1>5, <1>6

(* take_free finds a free cluster and takes it. *)
LEMMA TakeFree ==
  ASSUME NEW t, Good(t), t.fs.fs_type # 0, t.fs.free_clst # 0, NEW scl \in 1 .. NFatent - 1,
         NEW c, c = 0 \/ (c \in Clusters /\ Value(t, c) # 0)
  PROVE  LET u == take_free(t, c, scl) IN Works(t, u) /\ u.dp = t.dp /\ u.val \in Codes
<1> DEFINE s == find_free(t, scl)
<1>1. Search(t, s) /\ Found(t, s)
  BY FindFree
<1>2. take_free(t, c, scl) = IF s.res = "FR_OK" /\ s.val \in Clusters
                             THEN link_cluster(s, c, s.val) ELSE s
  BY DEF take_free, Then
<1> HIDE DEF s
<1>3. Works(t, s) /\ s.dp = t.dp /\ s.val \in Codes /\ Good(s) /\ s.fs.fs_type # 0
      /\ s.fs.free_clst # 0 /\ \A e \in Clusters : Value(s, e) = Value(t, e)
  BY <1>1, InFat DEF Search, Found, Codes, Works, SameCounts, SameFat, Value
<1>4. CASE s.res = "FR_OK" /\ s.val \in Clusters
  <2>1. Value(s, s.val) = 0
    BY <1>1, <1>3, <1>4 DEF Found
  <2>2. Works(s, link_cluster(s, c, s.val)) /\ link_cluster(s, c, s.val).dp = s.dp
        /\ link_cluster(s, c, s.val).val \in Codes
    BY <1>3, <1>4, <2>1, LinkCluster
  <2> QED BY <1>2, <1>3, <1>4, <2>2, WorksTrans
<1> QED BY <1>2, <1>3, <1>4

(* What create_chain does. *)
ChainDone(t, u) == Works(t, u) /\ u.dp = t.dp /\ u.val \in Codes

(* create_chain stretches a chain or begins one, and the count stays right. *)
LEMMA CreateChain ==
  ASSUME NEW t, Good(t), t.fs.fs_type # 0, NEW c \in Nat
  PROVE  ChainDone(t, create_chain(t, c))
<1> DEFINE last == t.fs.last_clst
           next == IF c + 1 >= NFatent THEN 2 ELSE c + 1
           tail == get_fat(t, c)
           g == get_fat(tail, next)
           scl == IF last \in Clusters THEN last ELSE c
           first == IF last \in 1 .. NFatent - 1 THEN last ELSE 1
<1>0. 0 \in Codes /\ IntErr \in Codes /\ Ones \in Codes /\ 0 \in Nat /\ IntErr \in Nat
  BY DEF Codes, IntErr
<1>1. CASE c = 0
  <2>1. CASE t.fs.free_clst = 0
    BY <1>0, <1>1, <2>1, ValWorks DEF create_chain, ChainDone
  <2>2. CASE t.fs.free_clst # 0
    <3>1. first \in 1 .. NFatent - 1
      BY Sectors
    <3>2. create_chain(t, c) = take_free(t, c, first)
      BY <1>1, <2>2 DEF create_chain
    <3> HIDE DEF first
    <3> QED BY <1>1, <2>2, <3>1, <3>2, TakeFree DEF ChainDone
  <2> QED BY <2>1, <2>2
<1>2. CASE c # 0
  <2>1. create_chain(t, c) =
          IF tail.val < 2 THEN Val(tail, IntErr)
          ELSE IF tail.val = Ones \/ tail.val < NFatent THEN tail
          ELSE IF tail.fs.free_clst = 0 THEN Val(tail, 0)
          ELSE CASE g.val \in {IntErr, Ones} -> g
                 [] g.val = 0 -> link_cluster(g, c, next)
                 [] OTHER -> take_free(g, c, scl)
    BY <1>2 DEF create_chain, Upon
  <2>2. GetDone(t, tail, c)
    BY GetFat
  <2> HIDE DEF tail
  <2>3. Works(t, tail) /\ tail.dp = t.dp /\ Good(tail) /\ tail.fs.fs_type # 0 /\ tail.val \in Nat
        /\ tail.fs.free_clst = t.fs.free_clst
    BY <2>2 DEF GetDone, Works, SameCounts
  <2>4. \A x \in Codes : ChainDone(t, Val(tail, x))
    BY <2>3, CodesNat, ValWorks, WorksTrans DEF ChainDone
  <2>5. CASE tail.val < 2
    BY <1>0, <2>1, <2>4, <2>5
  <2>6. CASE tail.val = Ones \/ (~(tail.val < 2) /\ tail.val < NFatent)
    <3>1. tail.val \in Codes
      BY <2>3, <2>6, Sectors DEF Codes, Clusters
    <3>2. create_chain(t, c) = tail
      BY <2>1, <2>6 DEF Ones
    <3> QED BY <2>3, <3>1, <3>2 DEF ChainDone
  <2>7. CASE ~(tail.val < 2) /\ tail.val # Ones /\ ~(tail.val < NFatent) /\ tail.fs.free_clst = 0
    BY <1>0, <2>1, <2>4, <2>7
  <2>8. CASE ~(tail.val < 2) /\ tail.val # Ones /\ ~(tail.val < NFatent) /\ tail.fs.free_clst # 0
    <3>1. c \in Clusters /\ tail.res = "FR_OK" /\ Value(t, c) # 0
      <4>1. tail.val # IntErr /\ tail.val # 0
        BY <2>8 DEF IntErr
      <4> QED BY <2>2, <2>8, <4>1 DEF GetDone
    <3>2. next \in Clusters
      BY <3>1, Sectors DEF Clusters
    <3>3. scl \in 1 .. NFatent - 1
      BY <3>1, Sectors DEF Clusters
    <3>4. create_chain(t, c) = CASE g.val \in {IntErr, Ones} -> g
                                 [] g.val = 0 -> link_cluster(g, c, next)
                                 [] OTHER -> take_free(g, c, scl)
      BY <2>1, <2>8
    <3>5. GetDone(tail, g, next)
      BY <2>3, GetFat
    <3> HIDE DEF g, next, scl
    <3>6. Works(t, g) /\ g.dp = t.dp /\ Good(g) /\ g.fs.fs_type # 0 /\ g.fs.free_clst # 0
      BY <2>3, <2>8, <3>5, WorksTrans DEF GetDone, Works, SameCounts
    <3>7. Value(g, c) # 0 /\ Value(g, next) = Value(tail, next)
      BY <2>2, <3>1, <3>2, <3>5, InFat DEF GetDone, SameFat, Value
    <3>8. CASE g.val \in {IntErr, Ones}
      <4>1. create_chain(t, c) = g
        BY <3>4, <3>8 DEF IntErr, Ones
      <4> QED BY <1>0, <3>6, <3>8, <4>1 DEF ChainDone
    <3>9. CASE g.val = 0
      <4>1. Value(g, next) = 0 /\ create_chain(t, c) = link_cluster(g, c, next)
        BY <3>2, <3>4, <3>5, <3>7, <3>9 DEF GetDone, IntErr, Ones
      <4> QED BY <3>1, <3>2, <3>6, <3>7, <4>1, LinkCluster, WorksTrans DEF ChainDone
    <3>10. CASE g.val \notin {0, IntErr, Ones}
      <4>1. create_chain(t, c) = take_free(g, c, scl)
        BY <3>4, <3>10
      <4> QED BY <3>1, <3>3, <3>6, <3>7, <4>1, TakeFree, WorksTrans DEF ChainDone
    <3> QED BY <3>8, <3>9, <3>10
  <2> QED BY <2>5, <2>6, <2>7, <2>8
<1> QED BY <1>1, <1>2

-----------------------------------------------------------------------------
(* The window on a directory, and its entries. *)

(* Quotient and remainder are unique. *)
LEMMA DivUnique ==
  ASSUME NEW a \in Nat, NEW b \in Nat, b > 0, NEW q \in Nat, NEW r \in 0 .. b - 1, a = b * q + r
  PROVE  a \div b = q /\ a % b = r
<1>1. a \div b \in Nat /\ a % b \in 0 .. b - 1 /\ a = b * (a \div b) + (a % b)
  BY DivMod
<1> DEFINE p == a \div b
           s == a % b
<1> HIDE DEF p, s
<1>2. p \in Nat /\ s \in 0 .. b - 1 /\ b * p + s = b * q + r
  BY <1>1 DEF p, s
<1>3. ASSUME NEW x \in Nat, NEW y \in Nat, x < y PROVE b * x + b <= b * y
  BY <1>3, Z3
<1>4. ~(p < q) /\ ~(q < p)
  BY <1>2, <1>3
<1> QED BY <1>2, <1>4 DEF p, s

(* Quotient and remainder of the successor. *)
LEMMA Succ ==
  ASSUME NEW a \in Nat, NEW b \in Nat, b > 0
  PROVE  /\ (a + 1) % b # 0 => (a + 1) \div b = a \div b /\ (a + 1) % b = (a % b) + 1
         /\ (a + 1) % b = 0 => (a + 1) \div b = (a \div b) + 1
<1> DEFINE q == a \div b
           r == a % b
<1>1. q \in Nat /\ r \in 0 .. b - 1 /\ a = b * q + r
  BY DivMod
<1> HIDE DEF q, r
<1>2. CASE r + 1 < b
  <2>1. r + 1 \in 0 .. b - 1 /\ a + 1 = b * q + (r + 1) /\ a + 1 \in Nat
    BY <1>1, <1>2
  <2>2. (a + 1) \div b = q /\ (a + 1) % b = r + 1
    BY <1>1, <2>1, DivUnique
  <2> QED BY <1>1, <2>2 DEF q, r
<1>3. CASE r + 1 = b
  <2>1. b * (q + 1) = b * q + b
    BY <1>1, Z3
  <2>2. a + 1 = b * (q + 1) + 0 /\ a + 1 \in Nat /\ q + 1 \in Nat /\ 0 \in 0 .. b - 1
    BY <1>1, <1>3, <2>1
  <2>3. (a + 1) \div b = q + 1 /\ (a + 1) % b = 0
    BY <2>2, DivUnique
  <2> QED BY <1>1, <2>3 DEF q, r
<1> QED BY <1>1, <1>2, <1>3

(* The window on a sector of the data area gets another block. *)
Window(t, b, s, w) == [t EXCEPT !.fs = [t.fs EXCEPT !.win = b, !.winsect = s, !.wflag = w]]

(* A block of the data area is put in the window. *)
LEMMA WindowSet ==
  ASSUME NEW t, Good(t), t.fs.fs_type # 0, NEW s \in DataArea, NEW b \in DataBlocks \cup DirBlocks,
         NEW w \in BOOLEAN, t.fs.winsect = s \/ ~t.fs.wflag
  PROVE  LET u == Window(t, b, s, w) IN
         /\ Works(t, u) /\ SameFat(t, u) /\ u.dp = t.dp /\ u.val = t.val /\ u.res = t.res
         /\ u.fs.winsect = s /\ u.fs.wflag = w /\ u.fs.win = b /\ u.disk = t.disk
<1> DEFINE f == [t.fs EXCEPT !.win = b, !.winsect = s, !.wflag = w]
           u == Window(t, b, s, w)
<1>1. t \in States /\ t.fs \in Volumes /\ b \in Blocks /\ s \in Nat
  BY FsTypes, Areas DEF Good, Blocks
<1>2. f \in Volumes /\ f.winsect = s /\ f.win = b /\ f.wflag = w /\ f.fs_type = t.fs.fs_type
      /\ f.free_clst = t.fs.free_clst
  BY <1>1 DEF Volumes
<1>9. u = [t EXCEPT !.fs = f]
  BY DEF Window
<1> HIDE DEF f, u
<1>3. u \in States /\ u.disk = t.disk /\ u.fs = f /\ u.fp = t.fp /\ u.dj = t.dj
      /\ u.dp = t.dp /\ u.fault = t.fault /\ u.val = t.val /\ u.out = t.out /\ u.res = t.res
  BY <1>1, <1>2, <1>9, SetFs
<1>4. s \notin Fat1 /\ s > Volbase + 1 /\ s \notin Fatbase .. Database - 1
      /\ \A c \in {0, 1} : s \notin {FatSect(c), FatSect(c) + Fsize}
  <2>1. \A c \in {0, 1} : FatSect(c) \in Fat1
    BY FatSectors, Sectors
  <2> QED BY <2>1, Areas, Sectors DEF DataArea, Fat1
<1>5. MayHold(s, b)
  BY <1>1, <1>4, Sectors DEF MayHold
<1>6. Good(u)
  BY <1>2, <1>3, <1>4, <1>5 DEF Good, WindowOK
<1>7. SameFat(t, u)
  <2>1. \A c \in 0 .. NFatent - 1 : FatSect(c) \in Fat1
    BY FatSectors
  <2>2. \A c \in 0 .. NFatent - 1 : ValueOf(u.disk, u.fs, c) = FatEntry(t.disk, c)
    BY <1>2, <1>3, <1>4, <2>1 DEF ValueOf
  <2>3. \A c \in 0 .. NFatent - 1 : ValueOf(t.disk, t.fs, c) = FatEntry(t.disk, c)
    BY <1>4, <2>1, CleanWindow DEF ValueOf
  <2> QED BY <2>2, <2>3 DEF SameFat
<1>8. (Neat(t) => Neat(u)) /\ (Exact(t) => Exact(u))
  <2>1. Neat(t) => Mirrored(u.disk)
    BY <1>3 DEF Neat, NeatOK
  <2>2. u.fs.winsect # Volbase + 1
    BY <1>2, <1>3, <1>4, Sectors
  <2> QED BY <1>2, <1>3, <1>7, <2>1, <2>2, CountsKept DEF Exact
<1> QED BY <1>2, <1>3, <1>6, <1>7, <1>8 DEF Works, u

(* The entries of a sector of a directory. *)
EntryTable == [0 .. DirPerSector - 1 -> Entries]

(* A sector read as a directory is a table of entries. *)
LEMMA TableType ==
  ASSUME NEW b \in Blocks
  PROVE  EntriesOf(b) \in EntryTable
<1>1. ZeroDir.d \in EntryTable
  BY Blank DEF ZeroDir, DirSector, EntryTable
<1>2. b.k = "dir" => b.d \in EntryTable
  BY DEF Blocks, BootBlocks, InfoBlocks, FatBlocks, DataBlocks, DirBlocks, EntryTable
<1> QED BY <1>1, <1>2 DEF EntriesOf

(* The slot the DIR object is at, and its entry, have their types. *)
LEMMA SlotType ==
  ASSUME NEW t, Good(t)
  PROVE  Slot(t) \in 0 .. DirPerSector - 1 /\ Entry(t) \in Entries /\ get_fileinfo(t) \in Entries
<1>1. t.dp.dptr \in Nat
  BY FsTypes DEF Good, Dirs
<1>2. Slot(t) \in 0 .. DirPerSector - 1
  BY <1>1, DivMod, Sectors DEF Slot
<1>3. EntriesOf(t.fs.win) \in EntryTable
  BY FsTypes, TableType DEF Good
<1>4. Entry(t) \in Entries
  BY <1>2, <1>3 DEF Entry, EntryTable
<1> QED BY <1>2, <1>4, Blank DEF get_fileinfo

(* What setting an entry of the window does. *)
SlotDone(t, u) ==
  /\ Works(t, u) /\ SameFat(t, u) /\ u.dp = t.dp /\ u.val = t.val /\ u.res = t.res
  /\ u.fs.winsect = t.fs.winsect

(* Setting an entry in a window on the data area leaves the FAT alone. *)
LEMMA SetSlotWorks ==
  ASSUME NEW t, Good(t), t.fs.fs_type # 0, t.fs.winsect \in DataArea,
         NEW n \in 0 .. DirPerSector - 1, NEW e \in Entries
  PROVE  SlotDone(t, SetSlot(t, n, e))
<1> DEFINE b == DirSector([EntriesOf(t.fs.win) EXCEPT ![n] = e])
<1>1. t.fs \in Volumes /\ t \in States /\ EntriesOf(t.fs.win) \in EntryTable
  BY FsTypes, TableType DEF Good
<1>2. [EntriesOf(t.fs.win) EXCEPT ![n] = e] \in EntryTable
  BY <1>1 DEF EntryTable
<1>3. b \in DirBlocks
  BY <1>2 DEF DirSector, DirBlocks, EntryTable
<1>4. SetSlot(t, n, e) = Window(t, b, t.fs.winsect, TRUE)
  <2>1. SetSlot(t, n, e) = [t EXCEPT !.fs.win = b, !.fs.wflag = TRUE]
    BY DEF SetSlot
  <2> HIDE DEF b
  <2>2. [t EXCEPT !.fs.win = b, !.fs.wflag = TRUE] = [t EXCEPT !.fs = [t.fs EXCEPT !.win = b, !.wflag = TRUE]]
    BY <1>1 DEF States
  <2>3. [t.fs EXCEPT !.win = b, !.wflag = TRUE]
        = [t.fs EXCEPT !.win = b, !.winsect = t.fs.winsect, !.wflag = TRUE]
    BY <1>1 DEF Volumes
  <2> QED BY <2>1, <2>2, <2>3, Zenon DEF Window
<1> DEFINE y == TRUE
<1>5. y \in BOOLEAN /\ SetSlot(t, n, e) = Window(t, b, t.fs.winsect, y)
      /\ b \in DataBlocks \cup DirBlocks
  BY <1>3, <1>4
<1> HIDE DEF b, y
<1> QED BY <1>5, WindowSet DEF SlotDone

(* So does setting the entry the DIR object is at. *)
LEMMA SetEntryWorks ==
  ASSUME NEW t, Good(t), t.fs.fs_type # 0, t.fs.winsect \in DataArea, NEW e \in Entries
  PROVE  SlotDone(t, SetEntry(t, e))
  BY SlotType, SetSlotWorks DEF SetEntry

(* A cluster of a directory is cleared. *)
ClearDone(t, u) == Works(t, u) /\ u.dp = t.dp /\ u.val = t.val

(* clear_sector writes one sector of a new cluster of a directory. *)
LEMMA ClearSector ==
  ASSUME NEW t, Good(t), t.fs.fs_type # 0, t.fs.winsect \in DataArea,
         NEW sect \in DataArea, NEW n \in 1 .. Csize
  PROVE  LET u == clear_sector(t, sect, n) IN
         ClearDone(t, u) /\ u.fs = t.fs /\ (n = Csize => u.res # "more")
<1> DEFINE s == sect + n - 1
           d == One(ZeroDir)
           w == disk_write(t, s, d)
<1>0. t.res \in Results /\ t \in States
  BY FsTypes DEF Good
<1>1. s \in Nat /\ s >= Database
  BY Sectors DEF DataArea
<1>2. ASSUME NEW i \in 0 .. LastSector, i - s \in DOMAIN d
      PROVE  d[i - s] \in Blocks /\ MayHold(i, d[i - s]) /\ i \in DataArea /\ i = s
  <2>1. i = s /\ d[i - s] = ZeroDir
    BY <1>1, <1>2 DEF One
  <2>2. i \in DataArea
    BY <1>1, <2>1 DEF DataArea
  <2>3. i > Volbase + 1 /\ i \notin Fatbase .. Database - 1
        /\ \A c \in {0, 1} : i \notin {FatSect(c), FatSect(c) + Fsize}
    <3>1. \A c \in {0, 1} : FatSect(c) \in Fat1
      BY FatSectors, Sectors
    <3> QED BY <2>2, <3>1, Areas, Sectors DEF DataArea, Fat1
  <2> QED BY <2>1, <2>2, <2>3, Blank, Sectors DEF MayHold
<1> HIDE DEF s, d
<1>3. /\ w \in States
      /\ w.fs = t.fs /\ w.fp = t.fp /\ w.dj = t.dj /\ w.dp = t.dp /\ w.fault = t.fault
      /\ w.val = t.val /\ w.out = t.out
      /\ w.res \in {"FR_OK", "FR_DISK_ERR"}
      /\ \A i \in 0 .. LastSector :
           IF i - s \in DOMAIN d
           THEN w.res = "FR_OK" => w.disk[i] = d[i - s]
           ELSE w.disk[i] = t.disk[i]
  BY <1>0, <1>2, DiskWrite
<1>4. clear_sector(t, sect, n) = IF w.res = "FR_OK" /\ n < Csize THEN More(w) ELSE w
  BY DEF clear_sector, Then, s, d
<1> HIDE DEF w
<1>5. \A i \in 0 .. LastSector : i \notin DataArea => w.disk[i] = t.disk[i]
  BY <1>2, <1>3
<1>6. Good(w)
  <2>1. w.fs.winsect \notin Fat1
    BY <1>3, Areas
  <2> QED BY <1>3, <2>1 DEF Good, WindowOK
<1>7. SameFat(t, w)
  <2>1. \A c \in 0 .. NFatent - 1 : FatSect(c) \in 0 .. LastSector /\ FatSect(c) \notin DataArea
    BY FatSectors, Areas
  <2> QED BY <1>3, <1>5, <2>1 DEF SameFat, ValueOf, FatEntry
<1>8. (Neat(t) => Neat(w)) /\ (Exact(t) => Exact(w))
  <2>1. ASSUME Neat(t) PROVE Mirrored(w.disk)
    <3>1. \A i \in Fat1 : /\ i \in 0 .. LastSector /\ i \notin DataArea
                          /\ i + Fsize \in 0 .. LastSector /\ i + Fsize \notin DataArea
      BY Areas
    <3> QED BY <1>5, <2>1, <3>1 DEF Neat, NeatOK, Mirrored
  <2>2. w.fs.winsect # Volbase + 1
    BY <1>3, Areas, Sectors
  <2> QED BY <1>3, <1>7, <2>1, <2>2, CountsKept DEF Exact
<1>9. ClearDone(t, w) /\ w.fs = t.fs
  BY <1>3, <1>6, <1>8 DEF ClearDone, Works
<1>10. ClearDone(t, More(w)) /\ More(w).fs = t.fs
  BY <1>6, <1>9, RetWorks, WorksTrans DEF ClearDone, More, Results
<1> QED BY <1>3, <1>4, <1>9, <1>10

(* clear_sectors writes them all. *)
LEMMA ClearSectors ==
  ASSUME NEW t, Good(t), t.fs.fs_type # 0, t.fs.winsect \in DataArea, NEW sect \in DataArea
  PROVE  LET u == clear_sectors(t, sect) IN ClearDone(t, u) /\ u.fs = t.fs /\ u.res # "more"
<1> DEFINE R == {s \in States : ClearDone(t, s) /\ s.fs = t.fs}
           S == [i \in 0 .. Csize |-> {s \in R : i = Csize => s.res # "more"}]
           x == More(t)
           Turn(s, i) == IF s.res = "more" THEN clear_sector(Ret(s, "FR_OK"), sect, i) ELSE s
           F == [p \in R \X Nat |-> Turn(p[1], p[2])]
           Is(g) == g = [i \in 0 .. Csize |-> IF i = 0 THEN x ELSE Turn(g[i - 1], i)]
           at == CHOOSE g : Is(g)
<1>0. Csize \in Nat /\ Csize > 0
  BY Sectors
<1>1. x \in S[0]
  <2>1. ClearDone(t, x) /\ x.fs = t.fs /\ x \in States
    BY RetWorks DEF More, Results, ClearDone, Works, Good
  <2> HIDE DEF x
  <2> QED BY <1>0, <2>1
<1>2. ASSUME NEW i \in 1 .. Csize, NEW s \in S[i - 1]
      PROVE  Turn(s, i) \in S[i] /\ s \in R
  <2> DEFINE r == Ret(s, "FR_OK")
  <2>0. i - 1 \in 0 .. Csize /\ i \in 0 .. Csize /\ i - 1 # Csize
    BY <1>0
  <2>1. Good(s) /\ ClearDone(t, s) /\ s.fs = t.fs /\ s \in States
    BY <2>0 DEF ClearDone, Works
  <2>2. Good(r) /\ Works(s, r) /\ r.dp = t.dp /\ r.val = t.val /\ r.fs = t.fs
    BY <2>1, RetWorks DEF Results, Works, ClearDone
  <2> HIDE DEF r
  <2>3. /\ ClearDone(r, clear_sector(r, sect, i)) /\ clear_sector(r, sect, i).fs = r.fs
        /\ i = Csize => clear_sector(r, sect, i).res # "more"
    BY <2>2, ClearSector
  <2>4. ClearDone(t, clear_sector(r, sect, i)) /\ clear_sector(r, sect, i).fs = t.fs
        /\ clear_sector(r, sect, i) \in States
    BY <2>1, <2>2, <2>3, WorksTrans DEF ClearDone, Works, Good
  <2> QED BY <2>0, <2>1, <2>3, <2>4 DEF r
<1> HIDE DEF x, Turn, S
<1>3. \A i \in 1 .. Csize : \A s \in S[i - 1] : F[<<s, i>>] = Turn(s, i) /\ F[<<s, i>>] \in S[i]
  BY <1>2
<1> HIDE DEF F
<1>4. PICK g : LoopedIn(S, F, x, Csize, g)
  BY <1>0, <1>1, <1>3, LoopIn
<1>5. Is(g)
  <2>1. /\ g = [i \in 0 .. Csize |-> g[i]]
        /\ \A i \in 0 .. Csize : g[i] = IF i = 0 THEN x ELSE Turn(g[i - 1], i)
    <3>1. \A i \in 0 .. Csize : i # 0 => i \in 1 .. Csize
      BY <1>0
    <3>2. \A i \in 0 .. Csize : i # 0 => F[<<g[i - 1], i>>] = Turn(g[i - 1], i)
      BY <1>3, <1>4, <3>1 DEF LoopedIn
    <3> QED BY <1>4, <3>2 DEF LoopedIn
  <2>2. g = [i \in 0 .. Csize |-> IF i = 0 THEN x ELSE Turn(g[i - 1], i)]
    BY <2>1
  <2> QED BY <2>2
<1>6. Is(at)
  BY <1>5
<1>7. at[Csize] \in S[Csize]
  <2> HIDE DEF at
  <2>1. \A i \in 0 .. Csize : at[i] = IF i = 0 THEN x ELSE Turn(at[i - 1], i)
    BY <1>6
  <2>2. at[0] \in S[0]
    BY <1>0, <1>1, <2>1
  <2>3. ASSUME NEW i \in 1 .. Csize, at[i - 1] \in S[i - 1] PROVE at[i] \in S[i]
    <3>1. i \in 0 .. Csize /\ i # 0
      BY <1>0
    <3>2. at[i] = Turn(at[i - 1], i)
      BY <2>1, <3>1
    <3> QED BY <1>2, <2>3, <3>2
  <2> QED BY <1>0, <2>2, <2>3, StaysIn
<1>8. clear_sectors(t, sect) = at[Csize]
  BY DEF clear_sectors, Repeat, x, Turn
<1>9. Csize \in 0 .. Csize
  BY <1>0
<1> QED BY <1>7, <1>8, <1>9 DEF S

(* dir_clear empties a cluster of a directory and leaves the window on its *)
(* first sector.                                                           *)
LEMMA DirClear ==
  ASSUME NEW t, Good(t), t.fs.fs_type # 0, NEW c \in Clusters
  PROVE  LET u == dir_clear(t, c) IN
         /\ ClearDone(t, u) /\ (u.res = "FR_OK" => u.fs.winsect = clst2sect(c))
         /\ u.res # "more" /\ clst2sect(c) \in DataArea
<1> DEFINE w == sync_window(t)
           s == clst2sect(c)
           y == FALSE
           m == Window(w, ZeroDir, s, y)
           v == clear_sectors(m, s)
<1>1. s \in DataArea
  <2>1. 0 \in 0 .. Csize - 1 /\ Database \in Nat
    BY Sectors
  <2>2. s + 0 \in DataArea /\ s \in Nat
    BY <2>1, ClusterSectors
  <2> QED BY <2>2
<1>2. SyncDone(t, w)
  BY SyncWindow
<1> HIDE DEF w, s
<1>3. CASE w.res # "FR_OK"
  <2>1. dir_clear(t, c) = w
    BY <1>3 DEF dir_clear, Then, w
  <2> QED BY <1>1, <1>2, <1>3, <2>1 DEF SyncDone, ClearDone, s
<1>4. CASE w.res = "FR_OK"
  <2>1. Good(w) /\ ~w.fs.wflag /\ w.fs.fs_type # 0 /\ w.fs \in Volumes /\ w \in States
    BY <1>2, <1>4, FsTypes DEF SyncDone, Works, Good
  <2>2. dir_clear(t, c) = v
    <3>1. m = [w EXCEPT !.fs.winsect = s, !.fs.win = ZeroDir]
      <4>1. [w.fs EXCEPT !.win = ZeroDir, !.winsect = s, !.wflag = FALSE]
            = [w.fs EXCEPT !.winsect = s, !.win = ZeroDir]
        BY <2>1 DEF Volumes
      <4>2. [w EXCEPT !.fs.winsect = s, !.fs.win = ZeroDir]
            = [w EXCEPT !.fs = [w.fs EXCEPT !.winsect = s, !.win = ZeroDir]]
        BY <2>1 DEF States
      <4> QED BY <4>1, <4>2, Zenon DEF Window
    <3> HIDE DEF m
    <3> QED BY <1>4, <3>1 DEF dir_clear, Then, w, s
  <2>3. /\ Works(w, m) /\ m.dp = w.dp /\ m.val = w.val /\ m.fs.winsect = s
    <3>1. y \in BOOLEAN /\ ZeroDir \in DataBlocks \cup DirBlocks
      BY Blank
    <3> HIDE DEF y
    <3> QED BY <1>1, <2>1, <3>1, WindowSet
  <2> HIDE DEF m
  <2>4. Good(m) /\ m.fs.fs_type # 0 /\ m.fs.winsect \in DataArea
    BY <1>1, <2>1, <2>3 DEF Works
  <2>5. ClearDone(m, v) /\ v.fs = m.fs /\ v.res # "more"
    BY <1>1, <2>4, ClearSectors
  <2> HIDE DEF v
  <2> QED BY <1>1, <1>2, <2>2, <2>3, <2>5, WorksTrans DEF SyncDone, ClearDone, s
<1> QED BY <1>3, <1>4

-----------------------------------------------------------------------------
(* dir_sdi and dir_next. *)

(* The DIR object is at an entry of a cluster. *)
AtEntry(d) == d.clust \in Clusters /\ d.sect = clst2sect(d.clust) + ((d.dptr \div DirPerSector) % Csize)

(* The sector of an entry is in the data area. *)
LEMMA EntrySector ==
  ASSUME NEW d \in Dirs, AtEntry(d)
  PROVE  d.sect \in DataArea
<1>1. d.dptr \div DirPerSector \in Nat
  BY DivMod, Sectors DEF Dirs
<1>2. (d.dptr \div DirPerSector) % Csize \in 0 .. Csize - 1
  BY <1>1, DivMod, Sectors
<1> QED BY <1>2, ClusterSectors DEF AtEntry

(* Setting the DIR object of the call leaves the volume as it is. *)
LEMMA DpWorks ==
  ASSUME NEW t, Good(t), NEW d \in Dirs
  PROVE  LET u == [t EXCEPT !.dp = d]
         IN /\ Works(t, u) /\ SameFat(t, u) /\ u.disk = t.disk /\ u.fs = t.fs
            /\ u.dp = d /\ u.val = t.val /\ u.res = t.res
  BY SetDp DEF Works, Good, Neat, Exact, SameFat

(* dir_sdi puts the DIR object at the first entry of the directory. *)
LEMMA DirSdi ==
  ASSUME NEW t, Good(t)
  PROVE  LET u == dir_sdi(t) IN
         /\ Works(t, u) /\ u.res = "FR_OK" /\ AtEntry(u.dp) /\ u.dp.noname = t.dp.noname
         /\ u.fs = t.fs /\ u.disk = t.disk /\ u.dp.last = t.dp.last
<1> DEFINE c == IF t.dp.sclust = 0 THEN Root ELSE t.dp.sclust
           d == [t.dp EXCEPT !.dptr = 0, !.clust = c, !.sect = clst2sect(c)]
           s == [t EXCEPT !.dp = d]
<1>1. t \in States /\ t.dp \in Dirs
  BY FsTypes DEF Good
<1>2. c \in Clusters /\ c \in Nat
  BY <1>1, Sectors DEF Dirs, Clusters, Root
<1> HIDE DEF c
<1>3. clst2sect(c) \in Nat /\ clst2sect(c) # 0
  <2>1. 0 \in 0 .. Csize - 1
    BY Sectors
  <2> QED BY <1>2, <2>1, ClusterSectors
<1>4. d \in Dirs /\ d.dptr = 0 /\ d.clust = c /\ d.sect = clst2sect(c) /\ d.noname = t.dp.noname
      /\ d.last = t.dp.last
  BY <1>1, <1>2, <1>3 DEF Dirs
<1>5. AtEntry(d)
  <2>1. 0 \div DirPerSector = 0 /\ 0 % Csize = 0
    <3>1. 0 = DirPerSector * 0 + 0 /\ 0 = Csize * 0 + 0
      BY Sectors
    <3>2. 0 \in 0 .. DirPerSector - 1 /\ 0 \in 0 .. Csize - 1
      BY Sectors
    <3> QED BY <3>1, <3>2, DivUnique, Sectors
  <2> HIDE DEF d
  <2> QED BY <1>2, <1>3, <1>4, <2>1 DEF AtEntry
<1>6. dir_sdi(t) = Ret(s, "FR_OK")
  <2>1. dir_sdi(t) = Ret([t EXCEPT !.dp.dptr = 0, !.dp.clust = c, !.dp.sect = clst2sect(c)], "FR_OK")
    BY <1>3 DEF dir_sdi, c
  <2>2. s = [t EXCEPT !.dp.dptr = 0, !.dp.clust = c, !.dp.sect = clst2sect(c)]
    BY <1>1 DEF States
  <2> QED BY <2>1, <2>2, Zenon
<1> HIDE DEF d
<1>7. Works(t, s) /\ s.dp = d /\ s.fs = t.fs /\ s.disk = t.disk /\ Good(s)
  BY <1>4, DpWorks DEF Works
<1> HIDE DEF s
<1> QED BY <1>4, <1>5, <1>6, <1>7, RetWorks, WorksTrans DEF Results

(* The DIR object is put at an entry. *)
Placed(s, ofs, c, sect) ==
  [Ret(s, "FR_OK") EXCEPT !.dp.dptr = ofs, !.dp.clust = c, !.dp.sect = sect]

(* Placing the DIR object leaves the volume as it is. *)
LEMMA PlacedWorks ==
  ASSUME NEW s, Good(s), NEW ofs, NEW c, NEW sect, {ofs, c, sect} \subseteq Nat
  PROVE  LET u == Placed(s, ofs, c, sect) IN
         /\ Works(s, u) /\ u.res = "FR_OK" /\ u.fs = s.fs
         /\ u.dp.dptr = ofs /\ u.dp.clust = c /\ u.dp.sect = sect
         /\ u.dp.noname = s.dp.noname /\ u.dp.last = s.dp.last
<1> DEFINE r == Ret(s, "FR_OK")
           d == [s.dp EXCEPT !.dptr = ofs, !.clust = c, !.sect = sect]
           u == [r EXCEPT !.dp = d]
<1>1. s.dp \in Dirs
  BY FsTypes DEF Good
<1>2. d \in Dirs /\ d.dptr = ofs /\ d.clust = c /\ d.sect = sect
      /\ d.noname = s.dp.noname /\ d.last = s.dp.last
  BY <1>1 DEF Dirs
<1>3. Works(s, r) /\ Good(r) /\ r.dp = s.dp /\ r.fs = s.fs /\ r.res = "FR_OK" /\ r \in States
  BY RetWorks DEF Results, Works, Good
<1>4. u = Placed(s, ofs, c, sect)
  <2> HIDE DEF r
  <2>1. u = [r EXCEPT !.dp.dptr = ofs, !.dp.clust = c, !.dp.sect = sect]
    BY <1>3 DEF States
  <2> QED BY <2>1 DEF Placed, r
<1> HIDE DEF r, d
<1>5. Works(r, u) /\ u.dp = d /\ u.fs = r.fs /\ u.res = r.res
  BY <1>2, <1>3, DpWorks
<1> HIDE DEF u
<1> QED BY <1>2, <1>3, <1>4, <1>5, WorksTrans

(* What stretch_dir does. *)
StretchDone(t, u) ==
  /\ Works(t, u) /\ u.dp = t.dp /\ u.res # "more"
  /\ u.res = "FR_OK" => u.val \in Clusters

(* ClusterError makes a result of what get_fat or create_chain returned. *)
LEMMA ClusterErrors ==
  ASSUME NEW x
  PROVE  /\ ClusterError(x) \in {"FR_OK", "FR_DISK_ERR", "FR_INT_ERR"}
         /\ x \in Codes /\ x # 0 /\ ClusterError(x) = "FR_OK" => x \in Clusters
         /\ x \in Clusters => ClusterError(x) = "FR_OK"
<1>1. IntErr # Ones
  BY DEF IntErr, Ones
<1>2. x \in Clusters => x # Ones /\ x # IntErr
  BY InFat
<1> QED BY <1>1, <1>2 DEF ClusterError, Codes

(* stretch_dir links a cleared cluster to a directory, or fails. *)
LEMMA StretchDir ==
  ASSUME NEW t, Good(t), t.fs.fs_type # 0
  PROVE  StretchDone(t, stretch_dir(t))
<1> DEFINE y == TRUE
           n == FALSE
           s == [t EXCEPT !.split = y]
           a == create_chain(s, s.dp.clust)
           k == Ret([a EXCEPT !.split = n], "FR_DENIED")
           b == Ret(a, ClusterError(a.val))
           d == dir_clear(b, b.val)
           e == [d EXCEPT !.split = n]
<1>0. y \in BOOLEAN /\ n \in BOOLEAN
  OBVIOUS
<1>1. stretch_dir(t) = IF a.val = 0 THEN k
                       ELSE IF b.res = "FR_OK" THEN IF d.res = "FR_OK" THEN e ELSE d
                       ELSE b
  <2>1. s.dp.clust = t.dp.clust
    BY SplitWorks, <1>0
  <2> HIDE DEF d, b
  <2> QED BY <2>1 DEF stretch_dir, Upon, Then, b, d
<1> HIDE DEF y, n
<1>2. Works(t, s) /\ s.dp = t.dp /\ Good(s) /\ s.fs.fs_type # 0 /\ s.dp.clust \in Nat
  <2>1. Works(t, s) /\ s.dp = t.dp
    BY <1>0, SplitWorks
  <2>2. Good(s) /\ s.fs.fs_type # 0
    BY <2>1 DEF Works
  <2>3. t.dp \in Dirs
    BY FsTypes DEF Good
  <2> QED BY <2>1, <2>2, <2>3 DEF Dirs
<1> HIDE DEF s
<1>3. ChainDone(s, a)
  BY <1>2, CreateChain
<1> HIDE DEF a
<1>4. Works(t, a) /\ a.dp = t.dp /\ a.val \in Codes /\ Good(a) /\ a.fs.fs_type # 0
  BY <1>2, <1>3, WorksTrans DEF ChainDone, Works
<1>5. Works(t, k) /\ k.dp = t.dp /\ k.res = "FR_DENIED"
  <2> DEFINE v == [a EXCEPT !.split = n]
  <2>1. Works(a, v) /\ v.dp = a.dp /\ Good(v)
    BY <1>0, <1>4, SplitWorks DEF Works
  <2> HIDE DEF v
  <2>2. Works(v, Ret(v, "FR_DENIED")) /\ Ret(v, "FR_DENIED").dp = v.dp /\ Ret(v, "FR_DENIED").res = "FR_DENIED"
    BY <2>1, RetWorks DEF Results
  <2> QED BY <1>4, <2>1, <2>2, WorksTrans DEF v
<1>6. Works(t, b) /\ b.dp = t.dp /\ Good(b) /\ b.fs.fs_type # 0 /\ b.val = a.val /\ b.res = ClusterError(a.val)
  <2>1. ClusterError(a.val) \in Results
    BY ClusterErrors DEF Results
  <2> QED BY <1>4, <2>1, RetWorks, WorksTrans DEF Works
<1> HIDE DEF k, b
<1>7. CASE a.val = 0
  BY <1>1, <1>5, <1>7 DEF StretchDone
<1>8. CASE a.val # 0 /\ b.res # "FR_OK"
  <2>1. b.res # "more"
    BY <1>6, ClusterErrors
  <2> QED BY <1>1, <1>6, <1>8, <2>1 DEF StretchDone
<1>9. CASE a.val # 0 /\ b.res = "FR_OK"
  <2>1. b.val \in Clusters
    BY <1>4, <1>6, <1>9, ClusterErrors
  <2>2. ClearDone(b, d) /\ d.res # "more"
    BY <1>6, <2>1, DirClear
  <2> HIDE DEF d
  <2>3. Works(t, d) /\ d.dp = t.dp /\ d.val \in Clusters /\ Good(d)
    BY <1>6, <2>1, <2>2, WorksTrans DEF ClearDone, Works
  <2>4. Works(t, e) /\ e.dp = t.dp /\ e.val = d.val /\ e.res = d.res
    BY <1>0, <2>3, SplitWorks, WorksTrans
  <2> QED BY <1>1, <1>9, <2>2, <2>3, <2>4 DEF StretchDone
<1> QED BY <1>7, <1>8, <1>9

(* What dir_next does. *)
NextDone(t, u) ==
  /\ Works(t, u) /\ u.dp.noname = t.dp.noname /\ u.dp.last = t.dp.last
  /\ u.res # "more"
  /\ AtEntry(t.dp) /\ u.res = "FR_OK" => AtEntry(u.dp)

(* The sector of the next entry is the same, the next of the cluster, or   *)
(* the first of another.                                                   *)
LEMMA NextSlot ==
  ASSUME NEW p \in Nat
  PROVE  /\ (p + 1) % DirPerSector # 0 => (p + 1) \div DirPerSector = p \div DirPerSector
         /\ (p + 1) % DirPerSector = 0 /\ ((p + 1) \div DirPerSector) % Csize # 0
              => ((p + 1) \div DirPerSector) % Csize = ((p \div DirPerSector) % Csize) + 1
         /\ (p \div DirPerSector) % Csize \in Nat
<1> DEFINE q == p \div DirPerSector
<1>0. DirPerSector \in Nat /\ DirPerSector > 0
  BY Sectors
<1>1. q \in Nat
  BY <1>0, DivMod
<1>2. /\ (p + 1) % DirPerSector # 0 => (p + 1) \div DirPerSector = q
      /\ (p + 1) % DirPerSector = 0 => (p + 1) \div DirPerSector = q + 1
  BY <1>0, Succ
<1> HIDE DEF q
<1>3. (q + 1) % Csize # 0 => (q + 1) % Csize = (q % Csize) + 1
  BY <1>1, Succ, Sectors
<1>4. q % Csize \in Nat
  BY <1>1, DivMod, Sectors
<1>5. (p + 1) % DirPerSector = 0 /\ ((p + 1) \div DirPerSector) % Csize # 0
              => ((p + 1) \div DirPerSector) % Csize = (q % Csize) + 1
  BY <1>2, <1>3
<1> QED BY <1>2, <1>4, <1>5 DEF q

(* dir_next brings the DIR object to the next entry, stretching the        *)
(* directory when it is asked to.                                          *)
LEMMA DirNext ==
  ASSUME NEW t, Good(t), t.fs.fs_type # 0, NEW stretch
  PROVE  NextDone(t, dir_next(t, stretch))
<1> DEFINE ofs == t.dp.dptr + 1
           x == [t EXCEPT !.dp = [t.dp EXCEPT !.sect = t.dp.sect + 1]]
           g == get_fat(x, t.dp.clust)
           e == [g EXCEPT !.dp = [g.dp EXCEPT !.sect = 0]]
           s == stretch_dir(g)
           u == dir_next(t, stretch)
<1> SUFFICES NextDone(t, u)
  OBVIOUS
<1>1. t \in States /\ t.dp \in Dirs /\ t.dp.dptr \in Nat /\ t.dp.clust \in Nat /\ t.dp.sect \in Nat
      /\ ofs \in Nat
  BY FsTypes DEF Good, Dirs
<1>2. [t.dp EXCEPT !.sect = t.dp.sect + 1] \in Dirs
  BY <1>1 DEF Dirs
<1>3. Works(t, x) /\ x.dp.noname = t.dp.noname /\ x.dp.last = t.dp.last /\ x.fs = t.fs
      /\ x.dp \in Dirs /\ x.dp.dptr = t.dp.dptr /\ Good(x)
  <2> DEFINE d == [t.dp EXCEPT !.sect = t.dp.sect + 1]
  <2>1. d.noname = t.dp.noname /\ d.last = t.dp.last /\ d.dptr = t.dp.dptr
    BY <1>1 DEF Dirs
  <2> HIDE DEF d
  <2>2. Works(t, [t EXCEPT !.dp = d]) /\ [t EXCEPT !.dp = d].dp = d /\ [t EXCEPT !.dp = d].fs = t.fs
    BY <1>2, DpWorks DEF d
  <2> QED BY <1>2, <2>1, <2>2 DEF d, Works
<1>4. u = IF t.dp.sect = 0 THEN Ret(t, "FR_NO_FILE")
          ELSE IF ofs % DirPerSector # 0 THEN Placed(t, ofs, t.dp.clust, t.dp.sect)
          ELSE IF (ofs \div DirPerSector) % Csize # 0 THEN Placed(t, ofs, t.dp.clust, t.dp.sect + 1)
          ELSE IF g.val <= 1 THEN Ret(g, "FR_INT_ERR")
          ELSE IF g.val = Ones THEN Ret(g, "FR_DISK_ERR")
          ELSE IF g.val < NFatent THEN Placed(g, ofs, g.val, clst2sect(g.val))
          ELSE IF ~stretch THEN Ret(e, "FR_NO_FILE")
          ELSE IF s.res = "FR_OK" THEN Placed(s, ofs, s.val, clst2sect(s.val)) ELSE s
  <2>1. x = [t EXCEPT !.dp.sect = @ + 1]
    BY <1>1 DEF States
  <2> HIDE DEF x
  <2>2. GetDone(x, g, t.dp.clust)
    BY <1>3, GetFat
  <2>3. g \in States
    BY <2>2 DEF GetDone, Works, Good
  <2>4. e = [g EXCEPT !.dp.sect = 0]
    BY <2>3 DEF States
  <2> HIDE DEF e, s
  <2> QED BY <2>1, <2>4 DEF dir_next, Upon, Then, Placed, s
<1> HIDE DEF x, u
<1>5. GetDone(x, g, t.dp.clust)
  BY <1>3, GetFat
<1> HIDE DEF g
<1>6. Works(t, g) /\ g.dp = x.dp /\ Good(g) /\ g.fs.fs_type # 0 /\ g.val \in Nat
  BY <1>3, <1>5, WorksTrans DEF GetDone, Works
<1>7. CASE u = Ret(t, "FR_NO_FILE")
  BY <1>7, RetWorks DEF NextDone, Results
<1>8. CASE u = Placed(t, ofs, t.dp.clust, t.dp.sect) /\ ofs % DirPerSector # 0
  <2>1. ofs \div DirPerSector = t.dp.dptr \div DirPerSector
    BY <1>1, <1>8, NextSlot
  <2> HIDE DEF ofs
  <2>2. Works(t, u) /\ u.dp.dptr = ofs /\ u.dp.clust = t.dp.clust /\ u.dp.sect = t.dp.sect
         /\ u.dp.noname = t.dp.noname /\ u.dp.last = t.dp.last /\ u.res = "FR_OK"
    BY <1>1, <1>8, PlacedWorks
  <2> QED BY <2>1, <2>2 DEF NextDone, AtEntry
<1>9. CASE /\ u = Placed(t, ofs, t.dp.clust, t.dp.sect + 1) /\ ofs % DirPerSector = 0
           /\ (ofs \div DirPerSector) % Csize # 0
  <2>1. /\ (ofs \div DirPerSector) % Csize = ((t.dp.dptr \div DirPerSector) % Csize) + 1
        /\ (t.dp.dptr \div DirPerSector) % Csize \in Nat
    BY <1>1, <1>9, NextSlot
  <2>2. t.dp.sect + 1 \in Nat
    BY <1>1
  <2> HIDE DEF ofs
  <2>3. Works(t, u) /\ u.dp.dptr = ofs /\ u.dp.clust = t.dp.clust /\ u.dp.sect = t.dp.sect + 1
         /\ u.dp.noname = t.dp.noname /\ u.dp.last = t.dp.last /\ u.res = "FR_OK"
    BY <1>1, <1>9, <2>2, PlacedWorks
  <2>4. ASSUME AtEntry(t.dp) PROVE AtEntry(u.dp)
    <3>1. clst2sect(t.dp.clust) \in Nat
      <4>1. 0 \in 0 .. Csize - 1
        BY Sectors
      <4> QED BY <2>4, <4>1, ClusterSectors DEF AtEntry
    <3> QED BY <2>1, <2>3, <2>4, <3>1 DEF AtEntry
  <2> QED BY <2>3, <2>4 DEF NextDone
<1>10. ASSUME NEW v, Good(v), Works(t, v), v.val \in Clusters, v.dp = x.dp,
              u = Placed(v, ofs, v.val, clst2sect(v.val)), (ofs \div DirPerSector) % Csize = 0
       PROVE  NextDone(t, u)
  <2>1. clst2sect(v.val) \in Nat /\ v.val \in Nat
        /\ clst2sect(v.val) = clst2sect(v.val) + ((ofs \div DirPerSector) % Csize)
    <3>1. 0 \in 0 .. Csize - 1
      BY Sectors
    <3>2. clst2sect(v.val) \in Nat /\ v.val \in Nat
      BY <1>10, <3>1, ClusterSectors, InFat
    <3> QED BY <1>10, <3>2
  <2> HIDE DEF ofs
  <2>2. Works(v, u) /\ u.dp.dptr = ofs /\ u.dp.clust = v.val /\ u.dp.sect = clst2sect(v.val)
         /\ u.dp.noname = v.dp.noname /\ u.dp.last = v.dp.last /\ u.res = "FR_OK"
    BY <1>1, <1>10, <2>1, PlacedWorks
  <2>3. AtEntry(u.dp)
    BY <1>10, <2>1, <2>2 DEF AtEntry
  <2> QED BY <1>3, <1>10, <2>2, <2>3, WorksTrans DEF NextDone
<1>11. CASE u = Ret(g, "FR_INT_ERR") \/ u = Ret(g, "FR_DISK_ERR")
  BY <1>3, <1>6, <1>11, RetWorks, WorksTrans DEF NextDone, Results
<1>12. CASE /\ u = Placed(g, ofs, g.val, clst2sect(g.val)) /\ ~(g.val <= 1) /\ g.val < NFatent
            /\ (ofs \div DirPerSector) % Csize = 0
  <2>1. g.val \in Clusters
    BY <1>6, <1>12, Sectors DEF Clusters
  <2> HIDE DEF ofs
  <2> QED BY <1>6, <1>10, <1>12, <2>1
<1>13. CASE u = Ret(e, "FR_NO_FILE")
  <2> DEFINE d == [g.dp EXCEPT !.sect = 0]
  <2>1. g.dp \in Dirs /\ d \in Dirs /\ d.noname = g.dp.noname /\ d.last = g.dp.last
    BY <1>3, <1>6 DEF Dirs
  <2> HIDE DEF d
  <2>2. Works(g, [g EXCEPT !.dp = d]) /\ [g EXCEPT !.dp = d].dp = d
    BY <1>6, <2>1, DpWorks
  <2>3. Works(g, e) /\ e.dp = d
    BY <2>2 DEF d
  <2> HIDE DEF e
  <2>4. Works(t, e) /\ Good(e)
    BY <1>6, <2>3, WorksTrans DEF Works
  <2> QED BY <1>3, <1>6, <1>13, <2>1, <2>3, <2>4, RetWorks, WorksTrans DEF NextDone, Results
<1>14. CASE /\ u = IF s.res = "FR_OK" THEN Placed(s, ofs, s.val, clst2sect(s.val)) ELSE s
            /\ (ofs \div DirPerSector) % Csize = 0
  <2>1. StretchDone(g, s)
    BY <1>6, StretchDir
  <2> HIDE DEF s, ofs
  <2>2. Works(t, s) /\ s.dp = x.dp /\ Good(s)
    BY <1>6, <2>1, WorksTrans DEF StretchDone, Works
  <2>3. CASE s.res = "FR_OK"
    BY <1>10, <1>14, <2>1, <2>2, <2>3 DEF StretchDone
  <2>4. CASE s.res # "FR_OK"
    BY <1>3, <1>14, <2>1, <2>2, <2>4 DEF NextDone, StretchDone
  <2> QED BY <2>3, <2>4
<1> HIDE DEF ofs, e, s
<1> QED BY <1>4, <1>7, <1>8, <1>9, <1>11, <1>12, <1>13, <1>14

-----------------------------------------------------------------------------
(* The scans of a directory: dir_find, dir_alloc, dir_read; dir_register   *)
(* and dir_remove.                                                         *)

(* What a scan of a directory does: when it stops with success the window  *)
(* is on the entry.                                                        *)
ScanDone(t, u) ==
  /\ Works(t, u) /\ u.dp.noname = t.dp.noname /\ u.dp.last = t.dp.last
  /\ u.res \in {"FR_OK", "more"} /\ AtEntry(t.dp) => AtEntry(u.dp)
  /\ u.res = "FR_OK" => u.fs.winsect = u.dp.sect

(* A scan goes on after work on the volume. *)
LEMMA ScanTrans ==
  ASSUME NEW t, NEW r, NEW u, Works(t, r), r.dp.noname = t.dp.noname, r.dp.last = t.dp.last,
         AtEntry(t.dp) => AtEntry(r.dp), ScanDone(r, u)
  PROVE  ScanDone(t, u)
  BY WorksTrans DEF ScanDone

(* scan_entry looks at one entry and goes on to the next. *)
LEMMA ScanEntry ==
  ASSUME NEW t, Good(t), t.fs.fs_type # 0, t.res = "FR_OK", NEW what
  PROVE  ScanDone(t, scan_entry(t, what))
<1> DEFINE w == move_window(t, t.dp.sect)
           d == [w.dp EXCEPT !.attr = Entry(w).attr]
           a == [w EXCEPT !.dp = d]
           n == dir_next(w, what = "blank")
           u == scan_entry(t, what)
<1> SUFFICES ScanDone(t, u)
  OBVIOUS
<1>1. t.dp \in Dirs /\ t.dp.sect \in Nat
  BY FsTypes DEF Good, Dirs
<1>2. MoveDone(t, w, t.dp.sect)
  BY <1>1, MoveWindow
<1> HIDE DEF w
<1>3. Works(t, w) /\ w.dp = t.dp /\ Good(w) /\ w.fs.fs_type # 0
      /\ (w.res = "FR_OK" => w.fs.winsect = w.dp.sect) /\ w.res \in {"FR_OK", "FR_DISK_ERR"}
      /\ w \in States
  BY <1>2 DEF MoveDone, Works, Good
<1>4. u = IF w.res # "FR_OK" THEN w
          ELSE IF Sought(w, what) THEN a
          ELSE IF what # "blank" /\ Entry(w).name = "" THEN Ret(w, "FR_NO_FILE")
          ELSE IF n.res = "FR_OK" THEN More(n) ELSE n
  <2>1. a = [w EXCEPT !.dp.attr = Entry(w).attr]
    BY <1>3 DEF States
  <2> HIDE DEF a, n
  <2> QED BY <2>1 DEF scan_entry, Then, w, n
<1> HIDE DEF u
<1>5. CASE u = w /\ w.res # "FR_OK"
  BY <1>3, <1>5 DEF ScanDone
<1>6. CASE u = a /\ w.res = "FR_OK"
  <2>1. d \in Dirs /\ d.noname = w.dp.noname /\ d.last = w.dp.last /\ d.sect = w.dp.sect
        /\ d.dptr = w.dp.dptr /\ d.clust = w.dp.clust
    <3>1. Entry(w).attr \in Attributes
      BY <1>3, SlotType DEF Entries
    <3> QED BY <1>1, <1>3, <3>1 DEF Dirs
  <2> HIDE DEF d
  <2>2. Works(w, a) /\ a.dp = d /\ a.fs = w.fs /\ a.res = w.res
    BY <1>3, <2>1, DpWorks
  <2> QED BY <1>3, <1>6, <2>1, <2>2, WorksTrans DEF ScanDone, AtEntry
<1>7. CASE u = Ret(w, "FR_NO_FILE")
  BY <1>3, <1>7, RetWorks, WorksTrans DEF ScanDone, Results
<1>8. CASE u = IF n.res = "FR_OK" THEN More(n) ELSE n
  <2>1. NextDone(w, n)
    BY <1>3, DirNext
  <2> HIDE DEF n
  <2>2. Works(t, n) /\ Good(n)
    BY <1>3, <2>1, WorksTrans DEF NextDone, Works
  <2>3. Works(n, More(n)) /\ More(n).dp = n.dp /\ More(n).res = "more"
    BY <2>2, RetWorks DEF More, Results
  <2>4. Works(t, More(n))
    BY <2>2, <2>3, WorksTrans
  <2>5. CASE n.res = "FR_OK"
    BY <1>3, <1>8, <2>1, <2>3, <2>4, <2>5 DEF NextDone, ScanDone
  <2>6. CASE n.res # "FR_OK"
    BY <1>3, <1>8, <2>1, <2>2, <2>6 DEF NextDone, ScanDone
  <2> QED BY <2>5, <2>6
<1> QED BY <1>4, <1>5, <1>6, <1>7, <1>8

(* scan_dir looks at every entry of a directory, up to a bound. *)
LEMMA ScanDir ==
  ASSUME NEW t, Good(t), t.fs.fs_type # 0, NEW what
  PROVE  ScanDone(t, scan_dir(t, what))
<1> DEFINE S == {s \in States : ScanDone(t, s)}
           n == Csize * DirPerSector * NFatent
           x == More(t)
           Turn(s) == IF s.res = "more" THEN scan_entry(Ret(s, "FR_OK"), what) ELSE s
           F == [p \in S \X Nat |-> Turn(p[1])]
           Is(g) == g = [i \in 0 .. n |-> IF i = 0 THEN x ELSE Turn(g[i - 1])]
           at == CHOOSE g : Is(g)
<1>0. n \in Nat
  BY Sectors
<1> HIDE DEF n
<1>1. x \in S
  <2>1. Works(t, x) /\ x.dp = t.dp /\ x.res = "more" /\ x \in States
    BY RetWorks DEF More, Results, Works, Good
  <2> HIDE DEF x
  <2> QED BY <2>1 DEF ScanDone
<1>2. ASSUME NEW s \in S PROVE Turn(s) \in S
  <2>1. CASE s.res # "more"
    BY <2>1
  <2>2. CASE s.res = "more"
    <3> DEFINE r == Ret(s, "FR_OK")
    <3>1. Good(s) /\ ScanDone(t, s) /\ s.fs.fs_type # 0
      BY DEF ScanDone, Works
    <3>2. Good(r) /\ Works(s, r) /\ r.dp = s.dp /\ r.res = "FR_OK" /\ r.fs = s.fs
      BY <3>1, RetWorks DEF Results, Works
    <3> HIDE DEF r
    <3>3. Works(t, r) /\ r.dp.noname = t.dp.noname /\ r.dp.last = t.dp.last
          /\ (AtEntry(t.dp) => AtEntry(r.dp))
      BY <2>2, <3>1, <3>2, WorksTrans DEF ScanDone
    <3>4. ScanDone(r, scan_entry(r, what))
      BY <3>1, <3>2, ScanEntry
    <3>5. ScanDone(t, scan_entry(r, what)) /\ scan_entry(r, what) \in States
      BY <3>3, <3>4, ScanTrans DEF ScanDone, Works, Good
    <3> QED BY <2>2, <3>5 DEF r
  <2> QED BY <2>1, <2>2
<1> HIDE DEF x, Turn, S
<1>3. \A i \in 1 .. n : \A s \in S : F[<<s, i>>] = Turn(s) /\ F[<<s, i>>] \in S
  BY <1>2
<1> HIDE DEF F
<1>4. PICK g : Looped(S, F, x, n, g)
  BY <1>0, <1>1, <1>3, Loop
<1>5. Is(g)
  <2>1. /\ g = [i \in 0 .. n |-> g[i]]
        /\ \A i \in 0 .. n : g[i] = IF i = 0 THEN x ELSE Turn(g[i - 1])
    <3>1. \A i \in 0 .. n : i # 0 => i \in 1 .. n
      BY <1>0
    <3>2. \A i \in 0 .. n : i # 0 => F[<<g[i - 1], i>>] = Turn(g[i - 1])
      BY <1>3, <1>4, <3>1 DEF Looped
    <3> QED BY <1>4, <3>2 DEF Looped
  <2>2. g = [i \in 0 .. n |-> IF i = 0 THEN x ELSE Turn(g[i - 1])]
    BY <2>1
  <2> QED BY <2>2
<1>6. Is(at)
  BY <1>5
<1>7. at[n] \in S
  <2> HIDE DEF at
  <2>1. \A i \in 0 .. n : at[i] = IF i = 0 THEN x ELSE Turn(at[i - 1])
    BY <1>6
  <2>2. at[0] \in S
    BY <1>0, <1>1, <2>1
  <2>3. ASSUME NEW i \in 1 .. n, at[i - 1] \in S PROVE at[i] \in S
    <3>1. i \in 0 .. n /\ i # 0
      BY <1>0
    <3>2. at[i] = Turn(at[i - 1])
      BY <2>1, <3>1
    <3> QED BY <1>2, <2>3, <3>2
  <2> QED BY <1>0, <2>2, <2>3, Stays
<1>8. scan_dir(t, what) = at[n]
  BY DEF scan_dir, n, Repeat, x, Turn
<1> QED BY <1>7, <1>8 DEF S

(* A scan that ends at an entry. *)
DirDone(t, u) == ScanDone(t, u) /\ (u.res \in {"FR_OK", "more"} => AtEntry(u.dp))

(* A scan from the first entry on ends at an entry. *)
LEMMA ScanFirst ==
  ASSUME NEW t, Good(t), t.fs.fs_type # 0, NEW what
  PROVE  DirDone(t, scan_dir(dir_sdi(t), what)) /\ dir_sdi(t).res = "FR_OK"
<1> DEFINE s == dir_sdi(t)
<1>1. /\ Works(t, s) /\ s.res = "FR_OK" /\ AtEntry(s.dp) /\ s.dp.noname = t.dp.noname
      /\ s.dp.last = t.dp.last /\ Good(s) /\ s.fs.fs_type # 0
  BY DirSdi DEF Works
<1> HIDE DEF s
<1>2. ScanDone(s, scan_dir(s, what))
  BY <1>1, ScanDir
<1>3. ScanDone(t, scan_dir(s, what))
  BY <1>1, <1>2, ScanTrans
<1>4. s.res = "FR_OK" /\ (scan_dir(s, what).res \in {"FR_OK", "more"} => AtEntry(scan_dir(s, what).dp))
  BY <1>1, <1>2 DEF ScanDone
<1> QED BY <1>3, <1>4 DEF DirDone, s

(* dir_find comes to the entry that has the name, or fails. *)
LEMMA DirFind ==
  ASSUME NEW t, Good(t), t.fs.fs_type # 0
  PROVE  DirDone(t, dir_find(t))
<1>1. dir_find(t) = scan_dir(dir_sdi(t), "name")
  BY ScanFirst DEF dir_find, Then
<1> QED BY <1>1, ScanFirst

(* dir_alloc comes to a free entry, or fails. *)
LEMMA DirAlloc ==
  ASSUME NEW t, Good(t), t.fs.fs_type # 0
  PROVE  DirDone(t, dir_alloc(t))
<1> DEFINE a == scan_dir(dir_sdi(t), "blank")
<1>1. dir_alloc(t) = IF a.res = "FR_NO_FILE" THEN Ret(a, "FR_DENIED") ELSE a
  <2>1. Then(dir_sdi(t), LAMBDA s: scan_dir(s, "blank")) = a
    BY ScanFirst DEF Then
  <2> HIDE DEF a
  <2> QED BY <2>1 DEF dir_alloc, Upon
<1>2. DirDone(t, a)
  BY ScanFirst
<1> HIDE DEF a
<1>3. Works(t, a) /\ Good(a)
  BY <1>2 DEF DirDone, ScanDone, Works
<1>4. Works(t, Ret(a, "FR_DENIED")) /\ Ret(a, "FR_DENIED").dp = a.dp /\ Ret(a, "FR_DENIED").res = "FR_DENIED"
  BY <1>3, RetWorks, WorksTrans DEF Results
<1> QED BY <1>1, <1>2, <1>4 DEF DirDone, ScanDone

(* dir_read comes to the next entry in use, from any entry. *)
LEMMA DirRead ==
  ASSUME NEW t, Good(t), t.fs.fs_type # 0
  PROVE  Works(t, dir_read(t))
<1> DEFINE r == IF t.dp.sect = 0 THEN Ret(t, "FR_NO_FILE") ELSE scan_dir(t, "item")
           d == [r.dp EXCEPT !.sect = 0]
           e == [r EXCEPT !.dp = d]
<1>1. Works(t, r) /\ r \in States /\ Good(r)
  BY RetWorks, ScanDir DEF Results, ScanDone, Works, Good
<1>2. dir_read(t) = IF r.res = "FR_OK" THEN r ELSE e
  <2>1. e = [r EXCEPT !.dp.sect = 0]
    BY <1>1 DEF States
  <2> HIDE DEF e
  <2> QED BY <2>1 DEF dir_read, Upon, r
<1> HIDE DEF r
<1>3. d \in Dirs
  BY <1>1, FsTypes DEF Dirs
<1> HIDE DEF d
<1>4. Works(t, e)
  BY <1>1, <1>3, DpWorks, WorksTrans
<1> HIDE DEF e
<1> QED BY <1>1, <1>2, <1>4

(* An entry is set in the window, which is on the sector of the directory. *)
LEMMA EntrySet1 ==
  ASSUME NEW t, Good(t), t.fs.fs_type # 0, AtEntry(t.dp), t.fs.winsect = t.dp.sect, NEW e \in Entries
  PROVE  LET u == SetEntry(t, e) IN
         /\ Works(t, u) /\ u.dp = t.dp /\ u.res = t.res
         /\ u.fs.winsect = u.dp.sect /\ u.fs.winsect \in DataArea
<1>1. t.fs.winsect \in DataArea
  BY EntrySector, FsTypes DEF Good
<1> QED BY <1>1, SetEntryWorks DEF SlotDone

(* dir_register makes an entry in a free slot. *)
LEMMA DirRegister ==
  ASSUME NEW t, Good(t), t.fs.fs_type # 0
  PROVE  DirDone(t, dir_register(t))
<1> DEFINE a == dir_alloc(t)
           w == move_window(a, a.dp.sect)
           e == [NoEntry EXCEPT !.name = w.dp.fn]
           u == SetEntry(w, e)
<1>1. dir_register(t) = IF a.res # "FR_OK" THEN a ELSE IF w.res # "FR_OK" THEN w ELSE u
  <2> HIDE DEF u
  <2> QED BY DEF dir_register, Then, u, e, w
<1>2. DirDone(t, a)
  BY DirAlloc
<1> HIDE DEF a
<1>3. Works(t, a) /\ Good(a) /\ a.fs.fs_type # 0 /\ a.dp.sect \in Nat
  BY <1>2, FsTypes DEF DirDone, ScanDone, Works, Good, Dirs
<1>4. CASE a.res # "FR_OK"
  BY <1>1, <1>2, <1>4
<1>5. CASE a.res = "FR_OK"
  <2>1. MoveDone(a, w, a.dp.sect)
    BY <1>3, MoveWindow
  <2> HIDE DEF w
  <2>2. /\ Works(t, w) /\ Good(w) /\ w.dp = a.dp /\ AtEntry(w.dp) /\ w.fs.fs_type # 0
        /\ w.dp.noname = t.dp.noname /\ w.dp.last = t.dp.last
        /\ w.res \in {"FR_OK", "FR_DISK_ERR"} /\ (w.res = "FR_OK" => w.fs.winsect = w.dp.sect)
    BY <1>2, <1>3, <1>5, <2>1, WorksTrans DEF DirDone, ScanDone, MoveDone, Works
  <2>3. DirDone(t, w)
    BY <2>2 DEF DirDone, ScanDone
  <2>4. e \in Entries
    <3>1. w.dp.fn \in Names
      BY <2>2, FsTypes DEF Good, Dirs
    <3> HIDE DEF w
    <3> QED BY <3>1, Blank DEF NoEntry, Entries
  <2> HIDE DEF e
  <2>5. CASE w.res # "FR_OK"
    BY <1>1, <1>5, <2>3, <2>5
  <2>6. CASE w.res = "FR_OK"
    <3>1. Works(w, u) /\ u.dp = w.dp /\ u.res = w.res /\ u.fs.winsect = u.dp.sect
      BY <2>2, <2>4, <2>6, EntrySet1
    <3> HIDE DEF u
    <3>2. DirDone(t, u)
      BY <2>2, <3>1, WorksTrans DEF DirDone, ScanDone
    <3> QED BY <1>1, <1>5, <2>6, <3>2
  <2> QED BY <2>5, <2>6
<1> QED BY <1>4, <1>5

(* dir_remove marks the entry as deleted. *)
LEMMA DirRemove ==
  ASSUME NEW t, Good(t), t.fs.fs_type # 0, AtEntry(t.dp)
  PROVE  Works(t, dir_remove(t)) /\ dir_remove(t).dp = t.dp
<1> DEFINE w == move_window(t, t.dp.sect)
           e == [Entry(w) EXCEPT !.name = DDEM]
           u == SetEntry(w, e)
<1>1. dir_remove(t) = IF w.res # "FR_OK" THEN w ELSE u
  <2> HIDE DEF u
  <2> QED BY DEF dir_remove, Then, u, e, w
<1>2. t.dp.sect \in Nat
  BY FsTypes DEF Good, Dirs
<1>3. MoveDone(t, w, t.dp.sect)
  BY <1>2, MoveWindow
<1> HIDE DEF w
<1>4. Works(t, w) /\ Good(w) /\ w.dp = t.dp /\ w.fs.fs_type # 0
      /\ (w.res = "FR_OK" => w.fs.winsect = w.dp.sect)
  BY <1>3 DEF MoveDone, Works
<1>5. e \in Entries
  <2>1. Entry(w) \in Entries /\ DDEM \in Names
    BY <1>4, SlotType, NamesAssumption
  <2> QED BY <2>1 DEF Entries
<1> HIDE DEF e
<1>6. CASE w.res # "FR_OK"
  BY <1>1, <1>4, <1>6
<1>7. CASE w.res = "FR_OK"
  <2>1. Works(w, u) /\ u.dp = w.dp
    BY <1>4, <1>5, <1>7, EntrySet1
  <2> HIDE DEF u
  <2> QED BY <1>1, <1>4, <1>7, <2>1, WorksTrans
<1> QED BY <1>6, <1>7

-----------------------------------------------------------------------------
(* follow_path. *)

(* What following one segment of a path does. *)
Segment(t, u) ==
  /\ Works(t, u) /\ u.dp.noname = t.dp.noname
  /\ u.res = "FR_OK" => AtEntry(u.dp) /\ u.fs.winsect = u.dp.sect

(* create_name takes the segment i of the path, or refuses it. *)
LEMMA CreateName ==
  ASSUME NEW t, Good(t), NEW path \in Seq(Names), NEW i \in 1 .. Len(path)
  PROVE  LET u == create_name(t, path, i) IN
         Works(t, u) /\ u.dp.noname = t.dp.noname /\ u.res \in {"FR_OK", "FR_INVALID_NAME"}
<1> DEFINE y == i = Len(path)
           d == [t.dp EXCEPT !.fn = path[i], !.last = y]
           a == [t EXCEPT !.dp = d]
           r == IF path[i] = BadName THEN "FR_INVALID_NAME" ELSE "FR_OK"
<1>1. y \in BOOLEAN /\ path[i] \in Names /\ t.dp \in Dirs /\ t \in States
  BY FsTypes DEF Good
<1>2. create_name(t, path, i) = Ret(a, r)
  <2>1. a = [t EXCEPT !.dp.fn = path[i], !.dp.last = y]
    BY <1>1 DEF States
  <2> HIDE DEF a
  <2> QED BY <2>1 DEF create_name, r
<1> HIDE DEF y
<1>3. d \in Dirs /\ d.noname = t.dp.noname
  BY <1>1 DEF Dirs
<1> HIDE DEF d
<1>4. Works(t, a) /\ a.dp = d /\ Good(a)
  BY <1>3, DpWorks DEF Works
<1>5. r \in Results /\ r \in {"FR_OK", "FR_INVALID_NAME"}
  BY DEF Results
<1> HIDE DEF a, r
<1>6. Works(a, Ret(a, r)) /\ Ret(a, r).dp = a.dp /\ Ret(a, r).res = r
  BY <1>4, <1>5, RetWorks
<1> QED BY <1>2, <1>3, <1>4, <1>5, <1>6, WorksTrans

(* follow_segment finds the entry of one segment and enters its directory  *)
(* for the next.                                                           *)
LEMMA FollowSegment ==
  ASSUME NEW t, Good(t), t.fs.fs_type # 0, NEW path \in Seq(Names), NEW i \in 1 .. Len(path)
  PROVE  Segment(t, follow_segment(t, path, i))
<1> DEFINE c == create_name(t, path, i)
           d == dir_find(c)
           p == [d.dp EXCEPT !.sclust = Entry(d).clust]
           s == [d EXCEPT !.dp = p]
           u == follow_segment(t, path, i)
<1> SUFFICES Segment(t, u)
  OBVIOUS
<1>1. Works(t, c) /\ Good(c) /\ c.fs.fs_type # 0 /\ c.dp.noname = t.dp.noname
  BY CreateName DEF Works
<1> HIDE DEF c
<1>2. DirDone(c, d)
  BY <1>1, DirFind
<1> HIDE DEF d
<1>3. Works(t, d) /\ Good(d) /\ d.dp.noname = t.dp.noname /\ d \in States
      /\ (d.res = "FR_OK" => AtEntry(d.dp) /\ d.fs.winsect = d.dp.sect)
  BY <1>1, <1>2, WorksTrans DEF DirDone, ScanDone, Works, Good
<1>4. u = IF c.res # "FR_OK" THEN c
          ELSE IF d.res = "FR_NO_FILE" /\ ~d.dp.last THEN Ret(d, "FR_NO_PATH")
          ELSE IF d.res # "FR_OK" \/ d.dp.last THEN d
          ELSE IF d.dp.attr # "dir" THEN Ret(d, "FR_NO_PATH")
          ELSE More(s)
  <2>1. s = [d EXCEPT !.dp.sclust = Entry(d).clust]
    BY <1>3 DEF States
  <2> HIDE DEF s
  <2> QED BY <2>1 DEF follow_segment, Then, Upon, c, d
<1> HIDE DEF u
<1>5. CASE u = c /\ c.res # "FR_OK"
  BY <1>1, <1>5 DEF Segment
<1>6. CASE u = d
  BY <1>3, <1>6 DEF Segment
<1>7. CASE u = Ret(d, "FR_NO_PATH")
  BY <1>3, <1>7, RetWorks, WorksTrans DEF Segment, Results
<1>8. CASE u = More(s)
  <2>1. p \in Dirs /\ p.noname = d.dp.noname
    <3>1. Entry(d).clust \in {0} \cup Clusters /\ d.dp \in Dirs
      BY <1>3, SlotType, FsTypes DEF Entries
    <3> QED BY <3>1 DEF Dirs
  <2> HIDE DEF p
  <2>2. Works(t, s) /\ s.dp = p /\ Good(s)
    BY <1>3, <2>1, DpWorks, WorksTrans DEF Works
  <2> HIDE DEF s
  <2>3. Works(t, u) /\ u.dp = p /\ u.res = "more"
    BY <1>8, <2>2, RetWorks, WorksTrans DEF More, Results
  <2> QED BY <1>3, <2>1, <2>3 DEF Segment
<1> QED BY <1>4, <1>5, <1>6, <1>7, <1>8

(* follow_segments follows them all. *)
LEMMA FollowSegments ==
  ASSUME NEW t, Good(t), t.fs.fs_type # 0, NEW path \in Seq(Names)
  PROVE  Segment(t, follow_segments(t, path))
<1> DEFINE S == {s \in States : Segment(t, s)}
           n == Len(path)
           x == More(t)
           Turn(s, i) == IF s.res = "more" THEN follow_segment(Ret(s, "FR_OK"), path, i) ELSE s
           F == [p \in S \X Nat |-> Turn(p[1], p[2])]
           Is(g) == g = [i \in 0 .. n |-> IF i = 0 THEN x ELSE Turn(g[i - 1], i)]
           at == CHOOSE g : Is(g)
<1>0. n \in Nat
  OBVIOUS
<1>1. x \in S
  <2>1. Works(t, x) /\ x.dp = t.dp /\ x.res = "more" /\ x \in States
    BY RetWorks DEF More, Results, Works, Good
  <2> HIDE DEF x
  <2> QED BY <2>1 DEF Segment
<1>2. ASSUME NEW s \in S, NEW i \in 1 .. n PROVE Turn(s, i) \in S
  <2> DEFINE r == Ret(s, "FR_OK")
             u == follow_segment(r, path, i)
  <2>1. Good(s) /\ Segment(t, s) /\ s.fs.fs_type # 0
    BY DEF Segment, Works
  <2>2. Good(r) /\ Works(t, r) /\ r.dp.noname = t.dp.noname /\ r.fs.fs_type # 0
    BY <2>1, RetWorks, WorksTrans DEF Results, Works, Segment
  <2> HIDE DEF r
  <2>3. Segment(r, u)
    BY <2>2, FollowSegment
  <2> HIDE DEF u
  <2>4. Segment(t, u) /\ u \in States
    BY <2>2, <2>3, WorksTrans DEF Segment, Works, Good
  <2> QED BY <2>4 DEF r, u
<1> HIDE DEF n
<1> HIDE DEF x, Turn, S
<1>3. \A i \in 1 .. n : \A s \in S : F[<<s, i>>] = Turn(s, i) /\ F[<<s, i>>] \in S
  BY <1>2
<1> HIDE DEF F
<1>4. PICK g : Looped(S, F, x, n, g)
  BY <1>0, <1>1, <1>3, Loop
<1>5. Is(g)
  <2>1. /\ g = [i \in 0 .. n |-> g[i]]
        /\ \A i \in 0 .. n : g[i] = IF i = 0 THEN x ELSE Turn(g[i - 1], i)
    <3>1. \A i \in 0 .. n : i # 0 => i \in 1 .. n
      BY <1>0
    <3>2. \A i \in 0 .. n : i # 0 => F[<<g[i - 1], i>>] = Turn(g[i - 1], i)
      BY <1>3, <1>4, <3>1 DEF Looped
    <3> QED BY <1>4, <3>2 DEF Looped
  <2>2. g = [i \in 0 .. n |-> IF i = 0 THEN x ELSE Turn(g[i - 1], i)]
    BY <2>1
  <2> QED BY <2>2
<1>6. Is(at)
  BY <1>5
<1>7. at[n] \in S
  <2> HIDE DEF at
  <2>1. \A i \in 0 .. n : at[i] = IF i = 0 THEN x ELSE Turn(at[i - 1], i)
    BY <1>6
  <2>2. at[0] \in S
    BY <1>0, <1>1, <2>1
  <2>3. ASSUME NEW i \in 1 .. n, at[i - 1] \in S PROVE at[i] \in S
    <3>1. i \in 0 .. n /\ i # 0
      BY <1>0
    <3>2. at[i] = Turn(at[i - 1], i)
      BY <2>1, <3>1
    <3> QED BY <1>2, <2>3, <3>2
  <2> QED BY <1>0, <2>2, <2>3, Stays
<1>8. follow_segments(t, path) = at[n]
  BY DEF follow_segments, n, Repeat, x, Turn
<1> QED BY <1>7, <1>8 DEF S

(* A new DIR object has its type. *)
LEMMA FreshDir ==
  ASSUME NEW y \in BOOLEAN, NEW c \in {0} \cup Clusters
  PROVE  /\ [NewDir EXCEPT !.noname = y] \in Dirs /\ [NewDir EXCEPT !.noname = y].noname = y
         /\ [NewDir EXCEPT !.sclust = c] \in Dirs /\ NewDir \in Dirs
<1>1. "" \in Names /\ "" \in Attributes
  BY NamesAssumption DEF Attributes
<1> QED BY <1>1 DEF NewDir, Dirs

(* What follow_path does: on success the DIR object is at an entry, and    *)
(* the window on its sector unless the path is the root.                   *)
PathDone(t, u, path) ==
  /\ Works(t, u)
  /\ u.res = "FR_OK" => /\ AtEntry(u.dp) /\ (u.dp.noname <=> path = <<>>)
                        /\ path # <<>> => u.fs.winsect = u.dp.sect

(* follow_path comes to the entry of a path, or fails. *)
LEMMA FollowPath ==
  ASSUME NEW t, Good(t), t.fs.fs_type # 0, NEW path \in Seq(Names)
  PROVE  PathDone(t, follow_path(t, path), path)
<1> DEFINE y == path = <<>>
           d == [NewDir EXCEPT !.noname = y]
           s == [t EXCEPT !.dp = d]
<1>1. y \in BOOLEAN /\ 0 \in {0} \cup Clusters
  OBVIOUS
<1>2. follow_path(t, path) = IF y THEN dir_sdi(s) ELSE follow_segments(s, path)
  BY DEF follow_path
<1>3. d \in Dirs /\ d.noname = y
  <2> HIDE DEF y
  <2> QED BY <1>1, FreshDir
<1> HIDE DEF d
<1>4. Works(t, s) /\ s.dp = d /\ Good(s) /\ s.fs.fs_type # 0
  BY <1>3, DpWorks DEF Works
<1> HIDE DEF s
<1>5. CASE y
  BY <1>2, <1>3, <1>4, <1>5, DirSdi, WorksTrans DEF PathDone
<1>6. CASE ~y
  <2> DEFINE u == follow_segments(s, path)
  <2>1. Segment(s, u)
    BY <1>4, FollowSegments
  <2>2. follow_path(t, path) = u
    BY <1>2, <1>6
  <2> HIDE DEF u
  <2>3. Works(t, u) /\ u.dp.noname = d.noname
        /\ (u.res = "FR_OK" => AtEntry(u.dp) /\ u.fs.winsect = u.dp.sect)
    BY <1>4, <2>1, WorksTrans DEF Segment
  <2>4. u.dp.noname = FALSE /\ path # <<>>
    BY <1>3, <1>6, <2>3
  <2> QED BY <2>2, <2>3, <2>4 DEF PathDone
<1> QED BY <1>5, <1>6

-----------------------------------------------------------------------------
(* find_volume and the mount. *)

(* u is a state that a call of FatFs comes to from t. *)
Runs(t, u) ==
  /\ Good(u) /\ u.fault = t.fault
  /\ Exact(t) => Exact(u)
  /\ FileOK(t.fp) => FileOK(u.fp)

(* Runs is transitive. *)
LEMMA RunsTrans ==
  ASSUME NEW t, NEW u, NEW v, Runs(t, u), Runs(u, v)
  PROVE  Runs(t, v)
  BY DEF Runs

(* Work on the volume alone is what a call may do. *)
LEMMA WorksRuns ==
  ASSUME NEW t, NEW u, Works(t, u)
  PROVE  Runs(t, u) /\ u.fp = t.fp /\ u.dj = t.dj /\ u.fs.fs_type = t.fs.fs_type /\ Good(u)
  BY DEF Works, Runs

(* check_fs reads a boot sector and tells what it is. *)
LEMMA CheckFs ==
  ASSUME NEW t, Good(t), t.fs.fs_type = 0, NEW sect, sect \in Nat
  PROVE  LET u == check_fs(t, sect) IN
         Works(t, u) /\ u.val \in {0, 2, 3, 4} /\ (u.val = 2 => u.fs.win.lba \in [1 .. 4 -> Nat])
<1> DEFINE m == Moved(t, t.fs.win, NoSector)
           w == move_window(m, sect)
           x == IF w.res # "FR_OK" THEN 4 ELSE BootRecord(w.fs.win)
<1>1. t \in States /\ t.fs \in Volumes /\ ~t.fs.wflag /\ t.fs.wflag \in BOOLEAN /\ t.fs.win \in Blocks
      /\ NoSector \in Nat
  BY FsTypes, Areas DEF Good, WindowOK
<1>2. Works(t, m) /\ Good(m)
  <2>1. Works(t, m)
    BY <1>1, WindowMoved
  <2> QED BY <2>1 DEF Works
<1>3. check_fs(t, sect) = Val(w, x)
  <2>1. m = [t EXCEPT !.fs.wflag = FALSE, !.fs.winsect = NoSector]
    <3>1. [t.fs EXCEPT !.win = t.fs.win, !.winsect = NoSector]
          = [t.fs EXCEPT !.wflag = FALSE, !.winsect = NoSector]
      BY <1>1 DEF Volumes
    <3>2. [t EXCEPT !.fs.wflag = FALSE, !.fs.winsect = NoSector]
          = [t EXCEPT !.fs = [t.fs EXCEPT !.wflag = FALSE, !.winsect = NoSector]]
      BY <1>1 DEF States
    <3> QED BY <3>1, <3>2, Zenon DEF Moved
  <2> HIDE DEF m
  <2> QED BY <2>1 DEF check_fs, Upon, w, x
<1> HIDE DEF m
<1>4. MoveDone(m, w, sect)
  BY <1>2, MoveWindow
<1> HIDE DEF w
<1>5. Works(t, w) /\ Good(w) /\ w.fs.win \in Blocks
  <2>1. Works(t, w) /\ Good(w)
    BY <1>2, <1>4, WorksTrans DEF MoveDone, Works
  <2> QED BY <2>1, FsTypes DEF Good
<1>6. x \in {0, 2, 3, 4} /\ x \in Nat /\ (x = 2 => w.fs.win.k = "mbr")
  BY DEF BootRecord
<1>7. w.fs.win.k = "mbr" => w.fs.win.lba \in [1 .. 4 -> Nat]
  BY <1>5 DEF Blocks, BootBlocks, InfoBlocks, FatBlocks, DataBlocks, DirBlocks
<1> HIDE DEF x
<1>8. Works(w, Val(w, x)) /\ Val(w, x).val = x /\ Val(w, x).fs = w.fs
  BY <1>5, <1>6, ValWorks
<1> QED BY <1>3, <1>5, <1>6, <1>7, <1>8, WorksTrans

(* What the search for a volume does. *)
Checked(t, u) == Works(t, u) /\ u.val \in {0, 2, 3, 4}

(* try_partition looks at the boot sector of one partition. *)
LEMMA TryPartition ==
  ASSUME NEW t, Good(t), t.fs.fs_type = 0, NEW lba, lba \in [1 .. 4 -> Nat], NEW i \in 1 .. 4
  PROVE  Checked(t, try_partition(t, lba, i))
<1> DEFINE p == IF lba[i] # 0 THEN check_fs(t, lba[i]) ELSE Val(t, 3)
<1>1. lba[i] \in Nat
  OBVIOUS
<1>2. Checked(t, p)
  <2>1. CASE lba[i] # 0
    BY <1>1, <2>1, CheckFs DEF Checked
  <2>2. CASE lba[i] = 0
    BY <2>2, ValWorks DEF Checked
  <2> QED BY <2>1, <2>2
<1>3. try_partition(t, lba, i) \in {p, More(p)}
  BY DEF try_partition, Upon
<1> HIDE DEF p
<1>4. Works(p, More(p)) /\ More(p).val = p.val
  BY <1>2, RetWorks DEF More, Results, Checked, Works
<1> QED BY <1>2, <1>3, <1>4, WorksTrans DEF Checked

(* find_partition tries the partitions of the table. *)
LEMMA FindPartition ==
  ASSUME NEW t, Good(t), t.fs.fs_type = 0, NEW lba, lba \in [1 .. 4 -> Nat], t.val \in {0, 2, 3, 4}
  PROVE  Checked(t, find_partition(t, lba))
<1> DEFINE S == {s \in States : Checked(t, s)}
           n == 4
           x == More(t)
           Turn(s, i) == IF s.res = "more" THEN try_partition(Ret(s, "FR_OK"), lba, i) ELSE s
           F == [p \in S \X Nat |-> Turn(p[1], p[2])]
           Is(g) == g = [i \in 0 .. n |-> IF i = 0 THEN x ELSE Turn(g[i - 1], i)]
           at == CHOOSE g : Is(g)
<1>0. n \in Nat
  OBVIOUS
<1>1. x \in S
  <2>1. Works(t, x) /\ x.val = t.val /\ x \in States
    BY RetWorks DEF More, Results, Works, Good
  <2> HIDE DEF x
  <2> QED BY <2>1 DEF Checked
<1>2. ASSUME NEW s \in S, NEW i \in 1 .. n PROVE Turn(s, i) \in S
  <2> DEFINE r == Ret(s, "FR_OK")
             u == try_partition(r, lba, i)
  <2>1. Good(s) /\ Checked(t, s)
    BY DEF Checked, Works
  <2>2. Good(r) /\ Works(t, r) /\ r.fs.fs_type = 0
    BY <2>1, RetWorks, WorksTrans DEF Results, Works, Checked
  <2> HIDE DEF r
  <2>3. Checked(r, u)
    BY <2>2, TryPartition
  <2> HIDE DEF u
  <2>4. Checked(t, u) /\ u \in States
    BY <2>2, <2>3, WorksTrans DEF Checked, Works, Good
  <2> QED BY <2>4 DEF r, u
<1> HIDE DEF n
<1> HIDE DEF x, Turn, S
<1>3. \A i \in 1 .. n : \A s \in S : F[<<s, i>>] = Turn(s, i) /\ F[<<s, i>>] \in S
  BY <1>2
<1> HIDE DEF F
<1>4. PICK g : Looped(S, F, x, n, g)
  BY <1>0, <1>1, <1>3, Loop
<1>5. Is(g)
  <2>1. /\ g = [i \in 0 .. n |-> g[i]]
        /\ \A i \in 0 .. n : g[i] = IF i = 0 THEN x ELSE Turn(g[i - 1], i)
    <3>1. \A i \in 0 .. n : i # 0 => i \in 1 .. n
      BY <1>0
    <3>2. \A i \in 0 .. n : i # 0 => F[<<g[i - 1], i>>] = Turn(g[i - 1], i)
      BY <1>3, <1>4, <3>1 DEF Looped
    <3> QED BY <1>4, <3>2 DEF Looped
  <2>2. g = [i \in 0 .. n |-> IF i = 0 THEN x ELSE Turn(g[i - 1], i)]
    BY <2>1
  <2> QED BY <2>2
<1>6. Is(at)
  BY <1>5
<1>7. at[n] \in S
  <2> HIDE DEF at
  <2>1. \A i \in 0 .. n : at[i] = IF i = 0 THEN x ELSE Turn(at[i - 1], i)
    BY <1>6
  <2>2. at[0] \in S
    BY <1>0, <1>1, <2>1
  <2>3. ASSUME NEW i \in 1 .. n, at[i - 1] \in S PROVE at[i] \in S
    <3>1. i \in 0 .. n /\ i # 0
      BY <1>0
    <3>2. at[i] = Turn(at[i - 1], i)
      BY <2>1, <3>1
    <3> QED BY <1>2, <2>3, <3>2
  <2> QED BY <1>0, <2>2, <2>3, Stays
<1>8. find_partition(t, lba) = at[n]
  BY DEF find_partition, n, Repeat, x, Turn
<1> QED BY <1>7, <1>8 DEF S

(* find_volume finds the volume on the card or in its partitions. *)
LEMMA FindVolume ==
  ASSUME NEW t, Good(t), t.fs.fs_type = 0
  PROVE  Checked(t, find_volume(t))
<1> DEFINE s == check_fs(t, 0)
           p == find_partition(s, s.fs.win.lba)
<1>1. find_volume(t) = IF s.val # 2 THEN s ELSE p
  BY DEF find_volume, Upon
<1>2. Works(t, s) /\ s.val \in {0, 2, 3, 4} /\ (s.val = 2 => s.fs.win.lba \in [1 .. 4 -> Nat])
  BY CheckFs
<1> HIDE DEF s
<1>3. Good(s) /\ s.fs.fs_type = 0
  BY <1>2 DEF Works
<1>4. CASE s.val # 2
  BY <1>1, <1>2, <1>4 DEF Checked
<1>5. CASE s.val = 2
  <2>1. Checked(s, p)
    BY <1>2, <1>3, <1>5, FindPartition
  <2> HIDE DEF p
  <2> QED BY <1>1, <1>2, <1>5, <2>1, WorksTrans DEF Checked
<1> QED BY <1>4, <1>5

(* The FATFS object of a volume that is mounted, with the window of m. *)
Mounts(m, free, nxt, flag) ==
  [m EXCEPT !.fs = [m.fs EXCEPT !.last_clst = nxt, !.free_clst = free, !.fsi_flag = flag,
                                !.fs_type = 32]]

(* Mounting leaves the volume in order when the count it takes is right or *)
(* absent.                                                                 *)
LEMMA MountsRuns ==
  ASSUME NEW m, Good(m), m.fs.fs_type = 0, NEW free, NEW nxt, NEW flag,
         free \in FreeCounts, nxt \in LastClusters, flag \in Nat,
         Neat(m) /\ free # Ones => free = Cardinality(FreeSet(m.disk, m.fs))
  PROVE  LET u == Mounts(m, free, nxt, flag) IN
         Runs(m, u) /\ u.fs.fs_type # 0 /\ u.res = m.res /\ u.fp = m.fp /\ u.dj = m.dj /\ u.out = m.out
<1> DEFINE f == [m.fs EXCEPT !.last_clst = nxt, !.free_clst = free, !.fsi_flag = flag,
                             !.fs_type = 32]
           u == Mounts(m, free, nxt, flag)
<1>1. m \in States /\ m.fs \in Volumes /\ ~m.fs.wflag
  BY FsTypes DEF Good, WindowOK
<1>2. /\ f \in Volumes /\ f.fs_type # 0 /\ f.free_clst = free /\ f.win = m.fs.win
      /\ f.winsect = m.fs.winsect /\ f.wflag = m.fs.wflag
  <2>1. f \in Volumes
    BY <1>1 DEF Volumes
  <2>2. f.fs_type = 32
    BY <1>1 DEF Volumes
  <2>3. f.free_clst = free /\ f.win = m.fs.win /\ f.winsect = m.fs.winsect
    BY <1>1 DEF Volumes
  <2>4. f.wflag = m.fs.wflag
    BY <1>1 DEF Volumes
  <2> QED BY <2>1, <2>2, <2>3, <2>4
<1>3. u = [m EXCEPT !.fs = f]
  BY DEF Mounts
<1> HIDE DEF f, u
<1>4. /\ u \in States /\ u.disk = m.disk /\ u.fs = f /\ u.fp = m.fp /\ u.dj = m.dj
      /\ u.fault = m.fault /\ u.out = m.out /\ u.res = m.res
  BY <1>1, <1>2, <1>3, SetFs
<1>5. Good(u)
  BY <1>1, <1>2, <1>4 DEF Good, WindowOK
<1>6. FreeSet(u.disk, u.fs) = FreeSet(m.disk, m.fs)
  BY <1>2, <1>4 DEF FreeSet, ValueOf
<1>7. Exact(m) => Exact(u)
  BY <1>2, <1>4, <1>6 DEF Exact, Neat, NeatOK, CountRight
<1> QED BY <1>2, <1>4, <1>5, <1>7 DEF Runs, u

(* The count that FSINFO holds before a mount is right or absent. *)
LEMMA InfoCount ==
  ASSUME NEW t, Neat(t), t.fs.fs_type = 0, t.fs.winsect = Volbase + 1
  PROVE  t.fs.win.free # Ones => t.fs.win.free = Cardinality(FreeSet(t.disk, t.fs))
<1>1. ASSUME NEW c \in Clusters PROVE FatSect(c) # Volbase + 1 /\ c \in 0 .. NFatent - 1
  <2>1. c \in 0 .. NFatent - 1
    BY InFat
  <2> QED BY <2>1, FatSectors, Areas, Sectors
<1>2. FreeSet(t.disk, t.fs) = Clusters \ Used(t.disk)
  BY <1>1 DEF FreeSet, Used, ValueOf
<1> QED BY <1>2 DEF Neat, NeatOK, InfoRight

(* What mount_volume does: on success the volume is mounted. *)
Mounted(t, u) ==
  /\ Runs(t, u) /\ u.fp = t.fp /\ u.dj = t.dj /\ u.out = t.out
  /\ u.res = "FR_OK" => u.fs.fs_type # 0

(* mount_found fills the FATFS object from the boot sector and FSINFO. *)
LEMMA MountFound ==
  ASSUME NEW v, Good(v), v.fs.fs_type = 0
  PROVE  Mounted(v, mount_found(v))
<1> DEFINE m == move_window(v, Volbase + 1)
           f == [v.fs EXCEPT !.last_clst = Ones, !.free_clst = Ones, !.fsi_flag = 128,
                             !.fs_type = 32]
           a == [m EXCEPT !.fs = [f EXCEPT !.win = m.fs.win, !.winsect = m.fs.winsect]]
           b == [m EXCEPT !.fs = [f EXCEPT !.win = m.fs.win, !.winsect = m.fs.winsect,
                                           !.fsi_flag = 0, !.free_clst = m.fs.win.free,
                                           !.last_clst = m.fs.win.nxt]]
           A == Mounts(m, Ones, Ones, 128)
           B == Mounts(m, m.fs.win.free, m.fs.win.nxt, 0)
<1>1. mount_found(v) = IF m.res # "FR_OK" THEN Ret(a, "FR_OK") ELSE b
  BY DEF mount_found, Upon
<1>2. Volbase + 1 \in Nat
  BY Sectors
<1>3. MoveDone(v, m, Volbase + 1)
  BY <1>2, MoveWindow
<1> HIDE DEF m
<1>4. /\ Works(v, m) /\ Good(m) /\ m.fs.fs_type = 0 /\ m \in States /\ m.fs \in Volumes
      /\ ~m.fs.wflag /\ ~v.fs.wflag /\ v.fs \in Volumes /\ m.fs.wflag \in BOOLEAN /\ v.fs.wflag \in BOOLEAN
  <2>1. Works(v, m) /\ Good(m) /\ m.fs.fs_type = 0
    BY <1>3 DEF MoveDone, Works
  <2> QED BY <2>1, FsTypes DEF Good, WindowOK
<1>5. a = A
  <2>1. [f EXCEPT !.win = m.fs.win, !.winsect = m.fs.winsect]
        = [m.fs EXCEPT !.last_clst = Ones, !.free_clst = Ones, !.fsi_flag = 128, !.fs_type = 32]
    BY <1>4 DEF Volumes
  <2> QED BY <2>1, Zenon DEF Mounts
<1>6. b = B
  <2>1. [f EXCEPT !.win = m.fs.win, !.winsect = m.fs.winsect, !.fsi_flag = 0,
                  !.free_clst = m.fs.win.free, !.last_clst = m.fs.win.nxt]
        = [m.fs EXCEPT !.last_clst = m.fs.win.nxt, !.free_clst = m.fs.win.free, !.fsi_flag = 0,
                       !.fs_type = 32]
    BY <1>4 DEF Volumes
  <2> QED BY <2>1, Zenon DEF Mounts
<1>7. /\ Ones \in FreeCounts /\ Ones \in LastClusters /\ 128 \in Nat /\ 0 \in Nat
  BY DEF FreeCounts, LastClusters
<1>8. m.res = "FR_OK" => m.fs.winsect = Volbase + 1
  BY <1>3 DEF MoveDone
<1> HIDE DEF a, b, f
<1>9. CASE m.res # "FR_OK"
  <2>1. Runs(m, A) /\ A.fs.fs_type # 0 /\ A.fp = m.fp /\ A.dj = m.dj /\ A.out = m.out
    BY <1>4, <1>7, MountsRuns
  <2> HIDE DEF A
  <2>2. Good(A)
    BY <2>1 DEF Runs
  <2>3. Works(A, Ret(A, "FR_OK"))
    BY <2>2, RetWorks DEF Results
  <2>4. Runs(m, Ret(A, "FR_OK")) /\ Ret(A, "FR_OK").fs.fs_type # 0 /\ Ret(A, "FR_OK").fp = m.fp
        /\ Ret(A, "FR_OK").dj = m.dj /\ Ret(A, "FR_OK").out = m.out
    BY <2>1, <2>3, WorksRuns, RunsTrans DEF Works
  <2>5. Runs(v, Ret(A, "FR_OK")) /\ m.fp = v.fp /\ m.dj = v.dj /\ m.out = v.out
    BY <1>4, <2>4, WorksRuns, RunsTrans DEF Works
  <2> QED BY <1>1, <1>5, <1>9, <2>4, <2>5 DEF Mounted
<1>10. CASE m.res = "FR_OK"
  <2>1. m.fs.win \in InfoBlocks
    BY <1>4, <1>8, <1>10, Sectors DEF Good, WindowOK, MayHold
  <2>2. m.fs.win.free \in FreeCounts /\ m.fs.win.nxt \in LastClusters
    BY <2>1 DEF InfoBlocks
  <2>3. Neat(m) /\ m.fs.win.free # Ones => m.fs.win.free = Cardinality(FreeSet(m.disk, m.fs))
    BY <1>4, <1>8, <1>10, InfoCount
  <2>4. Runs(m, B) /\ B.fs.fs_type # 0 /\ B.fp = m.fp /\ B.dj = m.dj /\ B.out = m.out
    BY <1>4, <1>7, <2>2, <2>3, MountsRuns
  <2> HIDE DEF B
  <2>5. Runs(v, B) /\ m.fp = v.fp /\ m.dj = v.dj /\ m.out = v.out
    BY <1>4, <2>4, WorksRuns, RunsTrans DEF Works
  <2> QED BY <1>1, <1>6, <1>10, <2>4, <2>5 DEF Mounted
<1> QED BY <1>9, <1>10

(* mount_volume checks the mounted volume or mounts it. *)
LEMMA MountVolume ==
  ASSUME NEW t, Good(t)
  PROVE  Mounted(t, mount_volume(t))
<1> DEFINE v == find_volume(t)
           f == mount_found(v)
<1>0. t \in States /\ t.fs \in Volumes
  BY FsTypes DEF Good
<1>1. CASE t.fs.fs_type # 0
  <2>1. mount_volume(t) = Ret(t, "FR_OK")
    BY <1>1 DEF mount_volume
  <2>2. Works(t, Ret(t, "FR_OK"))
    BY RetWorks DEF Results
  <2> QED BY <1>1, <2>1, <2>2, WorksRuns DEF Mounted, Works
<1>2. CASE t.fs.fs_type = 0
  <2>1. [t EXCEPT !.fs.fs_type = 0] = t
    <3>1. [t.fs EXCEPT !.fs_type = 0] = t.fs
      BY <1>0, <1>2 DEF Volumes
    <3>2. [t EXCEPT !.fs.fs_type = 0] = [t EXCEPT !.fs = [t.fs EXCEPT !.fs_type = 0]]
      BY <1>0 DEF States
    <3>3. [t EXCEPT !.fs = t.fs] = t
      BY <1>0 DEF States
    <3> QED BY <3>1, <3>2, <3>3
  <2>2. mount_volume(t) = IF NoCard(t) THEN Ret(t, "FR_NOT_READY")
                          ELSE IF v.val = 4 THEN Ret(v, "FR_DISK_ERR")
                          ELSE IF v.val \in {2, 3} THEN Ret(v, "FR_NO_FILESYSTEM")
                          ELSE f
    <3> HIDE DEF f
    <3> QED BY <1>2, <2>1 DEF mount_volume, Upon, v, f
  <2>3. Checked(t, v)
    BY <1>2, FindVolume
  <2> HIDE DEF v
  <2>4. Works(t, v) /\ Good(v) /\ v.fs.fs_type = 0
    BY <1>2, <2>3 DEF Checked, Works
  <2>5. ASSUME NEW w, Works(t, w), NEW r \in Results, r # "FR_OK" PROVE Mounted(t, Ret(w, r))
    <3>1. Good(w)
      BY <2>5 DEF Works
    <3>2. Works(w, Ret(w, r)) /\ Ret(w, r).res = r
      BY <2>5, <3>1, RetWorks
    <3>3. Works(t, Ret(w, r))
      BY <2>5, <3>2, WorksTrans
    <3> QED BY <2>5, <3>2, <3>3, WorksRuns DEF Mounted, Works
  <2>6. Works(t, t)
    BY SelfWorks
  <2>7. Mounted(v, f)
    BY <2>4, MountFound
  <2> HIDE DEF f
  <2>8. Mounted(t, f)
    <3>1. Runs(t, v) /\ v.fp = t.fp /\ v.dj = t.dj /\ v.out = t.out
      BY <2>4, WorksRuns DEF Works
    <3> QED BY <2>7, <3>1, RunsTrans DEF Mounted
  <2> QED BY <2>2, <2>4, <2>5, <2>6, <2>8 DEF Results
<1> QED BY <1>1, <1>2

-----------------------------------------------------------------------------
(* The file object: flush_buf and fill_buf. *)

(* As Runs, but for the file object. *)
Goes(t, u) ==
  /\ Good(u) /\ u.fault = t.fault
  /\ Exact(t) => Exact(u)
  /\ u.fs.fs_type = t.fs.fs_type

(* Goes is transitive. *)
LEMMA GoesTrans ==
  ASSUME NEW t, NEW u, NEW v, Goes(t, u), Goes(u, v)
  PROVE  Goes(t, v)
  BY DEF Goes

(* Work on the volume alone leaves the file object alone. *)
LEMMA WorksGoes ==
  ASSUME NEW t, NEW u, Works(t, u)
  PROVE  Goes(t, u) /\ u.fp = t.fp /\ u.out = t.out
  BY DEF Works, Goes

(* A step that keeps FileOK is what a call may do. *)
LEMMA GoesRuns ==
  ASSUME NEW t, NEW u, Goes(t, u), FileOK(t.fp) => FileOK(u.fp)
  PROVE  Runs(t, u)
  BY DEF Goes, Runs

(* The parts of the file object have their types. *)
LEMMA ObjectTypes ==
  ASSUME NEW f \in Objects
  PROVE  /\ f.open \in BOOLEAN /\ f.flag \in SUBSET Flags /\ f.err \in Results
         /\ f.sclust \in {0} \cup Clusters /\ f.sclust \in Nat /\ f.objsize \in Nat /\ f.fptr \in Nat
         /\ f.clust \in Nat /\ f.sect \in Nat /\ f.dir_sect \in Nat
         /\ f.dir_ptr \in 0 .. DirPerSector - 1 /\ f.buf \in [Units -> Nat]
<1>1. f.sclust \in {0} \cup Clusters
  BY DEF Objects
<1>2. f.sclust \in Nat
  BY <1>1, InFat
<1> QED BY <1>1, <1>2 DEF Objects

(* Setting the file object leaves the volume as it is. *)
LEMMA FpSet ==
  ASSUME NEW t, Good(t), NEW f \in Objects
  PROVE  LET u == [t EXCEPT !.fp = f] IN
         /\ Goes(t, u) /\ u.fp = f /\ u.dj = t.dj /\ u.dp = t.dp /\ u.fs = t.fs /\ u.disk = t.disk
         /\ u.val = t.val /\ u.res = t.res /\ u.out = t.out /\ u \in States
<1> DEFINE u == [t EXCEPT !.fp = f]
<1>1. t \in States
  BY DEF Good
<1>2. /\ u \in States /\ u.fp = f /\ u.dj = t.dj /\ u.dp = t.dp /\ u.fs = t.fs /\ u.disk = t.disk
      /\ u.val = t.val /\ u.res = t.res /\ u.out = t.out /\ u.fault = t.fault
  BY <1>1 DEF States
<1> HIDE DEF u
<1> QED BY <1>2 DEF Goes, Good, Exact, Neat, u

(* The blocks data, from sect on, are written to the data area: the FAT    *)
(* stays.                                                                  *)
LEMMA DataWrite ==
  ASSUME NEW t, Good(t), t.fs.fs_type # 0, NEW sect, NEW data,
         \A i \in 0 .. LastSector : i - sect \in DOMAIN data =>
           i \in DataArea /\ data[i - sect] \in DataBlocks
  PROVE  LET u == disk_write(t, sect, data) IN
         /\ Works(t, u) /\ u.dp = t.dp /\ u.val = t.val /\ u.fs = t.fs
         /\ u.res \in {"FR_OK", "FR_DISK_ERR"}
<1> DEFINE w == disk_write(t, sect, data)
<1>0. t \in States
  BY DEF Good
<1>1. ASSUME NEW i \in 0 .. LastSector, i - sect \in DOMAIN data
      PROVE  data[i - sect] \in Blocks /\ MayHold(i, data[i - sect])
  <2>1. i \in DataArea /\ data[i - sect] \in DataBlocks
    BY <1>1
  <2>2. i > Volbase + 1 /\ i \notin Fatbase .. Database - 1
        /\ \A c \in {0, 1} : i \notin {FatSect(c), FatSect(c) + Fsize}
    <3>1. \A c \in {0, 1} : FatSect(c) \in Fat1
      BY FatSectors, Sectors
    <3> QED BY <2>1, <3>1, Areas, Sectors DEF DataArea, Fat1
  <2> QED BY <2>1, <2>2, Sectors DEF MayHold, Blocks
<1>2. /\ w \in States
      /\ w.fs = t.fs /\ w.fp = t.fp /\ w.dj = t.dj /\ w.dp = t.dp /\ w.fault = t.fault
      /\ w.val = t.val /\ w.out = t.out
      /\ w.res \in {"FR_OK", "FR_DISK_ERR"}
      /\ \A i \in 0 .. LastSector :
           IF i - sect \in DOMAIN data
           THEN w.res = "FR_OK" => w.disk[i] = data[i - sect]
           ELSE w.disk[i] = t.disk[i]
  BY <1>0, <1>1, DiskWrite
<1> HIDE DEF w
<1>3. \A i \in 0 .. LastSector : i \notin DataArea => w.disk[i] = t.disk[i]
  BY <1>2
<1>4. Good(w)
  <2>1. \A i \in Fat1 : i \in 0 .. LastSector /\ i \notin DataArea
    BY Areas
  <2> QED BY <1>2, <1>3, <2>1 DEF Good, WindowOK
<1>5. SameFat(t, w)
  <2>1. \A c \in 0 .. NFatent - 1 : FatSect(c) \in 0 .. LastSector /\ FatSect(c) \notin DataArea
    BY FatSectors, Areas
  <2> QED BY <1>2, <1>3, <2>1 DEF SameFat, ValueOf, FatEntry
<1>6. (Neat(t) => Neat(w)) /\ (Exact(t) => Exact(w))
  <2>1. ASSUME Neat(t) PROVE Mirrored(w.disk)
    <3>1. \A i \in Fat1 : /\ i \in 0 .. LastSector /\ i \notin DataArea
                          /\ i + Fsize \in 0 .. LastSector /\ i + Fsize \notin DataArea
      BY Areas
    <3> QED BY <1>3, <2>1, <3>1 DEF Neat, NeatOK, Mirrored
  <2>2. Neat(t) => (w.fs.winsect = Volbase + 1 => w.fs.win = w.disk[Volbase + 1])
    <3>1. Volbase + 1 \in 0 .. LastSector /\ Volbase + 1 \notin DataArea
      BY Areas
    <3> QED BY <1>2, <1>3, <3>1 DEF Neat, NeatOK
  <2> QED BY <1>2, <1>5, <2>1, <2>2, CountsKept DEF Exact
<1> QED BY <1>2, <1>4, <1>6 DEF Works, w

(* A buffer is a block of the data area. *)
LEMMA SectorData ==
  ASSUME NEW b \in [Units -> Nat]
  PROVE  DataSector(b) \in DataBlocks
  BY DEF DataSector, DataBlocks

(* A block read as data is a buffer. *)
LEMMA BytesType ==
  ASSUME NEW b \in Blocks
  PROVE  Bytes(b) \in [Units -> Nat]
<1>1. NoBuf \in [Units -> Nat]
  BY DEF NoBuf
<1>2. b.k = "data" => b.d \in [Units -> Nat]
  BY DEF Blocks, BootBlocks, InfoBlocks, FatBlocks, DataBlocks, DirBlocks
<1> QED BY <1>1, <1>2 DEF Bytes

(* The parts of FileOK that hold whatever happened. *)
Pinned(f) == ("dirty" \in f.flag => f.sect \in DataArea) /\ (f.open => f.dir_sect \in DataArea)

(* f and g differ in clust, buf and flag at most, and g is not dirty if f is not. *)
SameFile(f, g) ==
  /\ g.open = f.open /\ g.err = f.err /\ g.objsize = f.objsize /\ g.fptr = f.fptr
  /\ g.sect = f.sect /\ g.dir_sect = f.dir_sect /\ g.dir_ptr = f.dir_ptr
  /\ "dirty" \in g.flag => "dirty" \in f.flag

(* What SameFile allows keeps the parts of FileOK. *)
LEMMA SamePinned ==
  ASSUME NEW f, NEW g, SameFile(f, g)
  PROVE  (Pinned(f) => Pinned(g)) /\ (FileOK(f) => FileOK(g))
  BY DEF SameFile, Pinned, FileOK

(* What flush_buf does. *)
Flushed(t, u) ==
  /\ Goes(t, u) /\ u.dp = t.dp /\ u.val = t.val /\ u.fs = t.fs /\ u.out = t.out
  /\ SameFile(t.fp, u.fp) /\ u.fp.clust = t.fp.clust /\ u.fp.sclust = t.fp.sclust
  /\ u.fp.flag \cup {"dirty"} = t.fp.flag \cup {"dirty"}
  /\ u.res \in {"FR_OK", "FR_DISK_ERR"} /\ (u.res = "FR_OK" => "dirty" \notin u.fp.flag)

(* flush_buf writes a dirty buffer to its sector in the data area. *)
LEMMA FlushBuf ==
  ASSUME NEW t, Good(t), t.fs.fs_type # 0, Pinned(t.fp)
  PROVE  Flushed(t, flush_buf(t))
<1> DEFINE w == disk_write(t, t.fp.sect, One(DataSector(t.fp.buf)))
           f == [w.fp EXCEPT !.flag = w.fp.flag \ {"dirty"}]
           u == [w EXCEPT !.fp = f]
<1>1. t.fp \in Objects
  BY DEF Good, States
<1>2. CASE "dirty" \notin t.fp.flag
  <2>1. flush_buf(t) = Ret(t, "FR_OK")
    BY <1>2 DEF flush_buf
  <2>2. Works(t, Ret(t, "FR_OK")) /\ Ret(t, "FR_OK").dp = t.dp /\ Ret(t, "FR_OK").val = t.val
        /\ Ret(t, "FR_OK").fs = t.fs /\ Ret(t, "FR_OK").res = "FR_OK"
    BY RetWorks DEF Results
  <2> QED BY <1>2, <2>1, <2>2, WorksGoes DEF Flushed, SameFile
<1>3. CASE "dirty" \in t.fp.flag
  <2>1. t.fp.sect \in DataArea /\ t.fp.sect \in Nat
    BY <1>1, <1>3, ObjectTypes DEF Pinned
  <2>2. /\ Works(t, w) /\ w.dp = t.dp /\ w.val = t.val /\ w.fs = t.fs
        /\ w.res \in {"FR_OK", "FR_DISK_ERR"}
    <3> DEFINE d == One(DataSector(t.fp.buf))
               s == t.fp.sect
    <3>1. \A i \in 0 .. LastSector : i - s \in DOMAIN d => i \in DataArea /\ d[i - s] \in DataBlocks
      <4>1. DataSector(t.fp.buf) \in DataBlocks
        BY <1>1, ObjectTypes, SectorData
      <4>2. DOMAIN d = {0} /\ d[0] = DataSector(t.fp.buf)
        BY DEF One
      <4> HIDE DEF d
      <4> QED BY <2>1, <4>1, <4>2
    <3> HIDE DEF d, s
    <3> QED BY <3>1, DataWrite DEF d, s
  <2>3. w \in States /\ Good(w) /\ w.fp = t.fp
    BY <2>2 DEF Works, Good
  <2>4. flush_buf(t) = IF w.res = "FR_OK" THEN u ELSE w
    <3>1. u = [w EXCEPT !.fp.flag = @ \ {"dirty"}]
      BY <2>3 DEF States
    <3> HIDE DEF u
    <3> QED BY <1>3, <3>1 DEF flush_buf, Then, w
  <2> HIDE DEF w
  <2>5. /\ f \in Objects /\ SameFile(t.fp, f) /\ f.clust = t.fp.clust /\ f.sclust = t.fp.sclust
        /\ f.flag = t.fp.flag \ {"dirty"}
    BY <1>1, <2>3 DEF Objects, SameFile
  <2> HIDE DEF f
  <2>6. /\ Goes(w, u) /\ u.fp = f /\ u.dp = w.dp /\ u.fs = w.fs /\ u.val = w.val /\ u.res = w.res
        /\ u.out = w.out
    BY <2>3, <2>5, FpSet
  <2> HIDE DEF u
  <2>7. Goes(t, w) /\ w.out = t.out
    BY <2>2, WorksGoes
  <2>8. CASE w.res = "FR_OK"
    <3>1. f.flag \cup {"dirty"} = t.fp.flag \cup {"dirty"} /\ "dirty" \notin f.flag
      BY <2>5
    <3> QED BY <2>2, <2>3, <2>4, <2>5, <2>6, <2>7, <2>8, <3>1, GoesTrans DEF Flushed
  <2>9. CASE w.res # "FR_OK"
    BY <2>2, <2>3, <2>4, <2>7, <2>9 DEF Flushed, SameFile
  <2> QED BY <2>8, <2>9
<1> QED BY <1>2, <1>3

(* What fill_buf does. *)
Filled(t, u) ==
  /\ Goes(t, u) /\ u.dp = t.dp /\ u.val = t.val /\ u.fs = t.fs /\ u.out = t.out
  /\ SameFile(t.fp, u.fp) /\ u.fp.clust = t.fp.clust /\ u.fp.sclust = t.fp.sclust
  /\ u.fp.flag = t.fp.flag
  /\ u.res \in {"FR_OK", "FR_DISK_ERR"}

(* fill_buf reads a sector of the data area into the buffer. *)
LEMMA FillBuf ==
  ASSUME NEW t, Good(t), NEW sect, sect \in DataArea
  PROVE  Filled(t, fill_buf(t, sect))
<1> DEFINE r == disk_read(t)
           f == [r.fp EXCEPT !.buf = Bytes(r.disk[sect])]
           u == [r EXCEPT !.fp = f]
<1>1. /\ Works(t, r) /\ r.dp = t.dp /\ r.val = t.val /\ r.disk = t.disk /\ r.fs = t.fs
      /\ r.res \in {"FR_OK", "FR_DISK_ERR"}
  BY DiskRead
<1>2. fill_buf(t, sect) = IF r.res = "FR_OK" THEN u ELSE r
  <2>1. r \in States
    BY <1>1 DEF Works, Good
  <2>2. u = [r EXCEPT !.fp.buf = Bytes(r.disk[sect])]
    <3> HIDE DEF r
    <3> QED BY <2>1 DEF States
  <2> HIDE DEF u
  <2> QED BY <2>2 DEF fill_buf, Then, r
<1> HIDE DEF r
<1>3. r \in States /\ Good(r) /\ r.fp = t.fp /\ r.fp \in Objects /\ r.out = t.out /\ Goes(t, r)
  BY <1>1, WorksGoes DEF Works, Good, States
<1>4. Bytes(r.disk[sect]) \in [Units -> Nat]
  <2>1. r.disk[sect] \in Blocks
    BY <1>3, FsTypes, Areas
  <2> QED BY <2>1, BytesType
<1>5. f \in Objects /\ SameFile(t.fp, f) /\ f.clust = t.fp.clust /\ f.sclust = t.fp.sclust
      /\ f.flag = t.fp.flag
  BY <1>3, <1>4 DEF Objects, SameFile
<1> HIDE DEF f
<1>6. /\ Goes(r, u) /\ u.fp = f /\ u.dp = r.dp /\ u.fs = r.fs /\ u.val = r.val /\ u.res = r.res
      /\ u.out = r.out
  BY <1>3, <1>5, FpSet
<1> HIDE DEF u
<1>7. CASE r.res = "FR_OK"
  BY <1>1, <1>2, <1>3, <1>5, <1>6, <1>7, GoesTrans DEF Filled
<1>8. CASE r.res # "FR_OK"
  BY <1>1, <1>2, <1>3, <1>8 DEF Filled, SameFile
<1> QED BY <1>7, <1>8

-----------------------------------------------------------------------------
(* The place of the file pointer, and the cluster of a read. *)

(* FileOK, and the file pointer in the file even after an error. *)
Sane(f) ==
  /\ f.fptr <= f.objsize
  /\ f.fptr % SS # 0 => f.sect \in DataArea
  /\ Pinned(f)

(* Sane is stronger than FileOK. *)
LEMMA SaneOK ==
  ASSUME NEW f, Sane(f)
  PROVE  FileOK(f) /\ Pinned(f)
  BY DEF Sane, FileOK, Pinned

(* What SameFile allows keeps Sane. *)
LEMMA SameSane ==
  ASSUME NEW f, NEW g, SameFile(f, g), Sane(f)
  PROVE  Sane(g)
  BY DEF SameFile, Sane, Pinned

(* The lesser of two numbers. *)
LEMMA LeastOf ==
  ASSUME NEW a, NEW b, a \in Nat, b \in Nat
  PROVE  Least(a, b) \in Nat /\ Least(a, b) <= a /\ Least(a, b) <= b
         /\ (a > 0 /\ b > 0 => Least(a, b) > 0)
  BY DEF Least

(* The sector of the file pointer, and how many there are to the end of the cluster. *)
LEMMA PlaceOf ==
  ASSUME NEW t, Good(t)
  PROVE  /\ Csect(t) \in 0 .. Csize - 1
         /\ clst2sect(t.fp.clust) # 0 =>
              /\ Sect(t) \in Nat /\ Sect(t) \in DataArea
              /\ \A o \in 0 .. Csize - Csect(t) - 1 : Sect(t) + o \in DataArea
<1>1. t.fp.fptr \in Nat /\ t.fp.clust \in Nat
  BY ObjectTypes DEF Good, States
<1>2. t.fp.fptr \div SS \in Nat
  BY <1>1, DivMod, Sectors
<1> DEFINE q == t.fp.fptr \div SS
           c == Csect(t)
<1> HIDE DEF q
<1>3. c \in 0 .. Csize - 1
  BY <1>2, DivMod, Sectors DEF Csect, q
<1>4. Sect(t) = clst2sect(t.fp.clust) + c
  BY DEF Sect
<1> HIDE DEF c
<1>5. ASSUME clst2sect(t.fp.clust) # 0, NEW o \in 0 .. Csize - c - 1
      PROVE  Sect(t) + o \in DataArea /\ Sect(t) \in Nat
  <2>1. t.fp.clust \in Clusters
    BY <1>5, NoCluster
  <2>2. c + o \in 0 .. Csize - 1 /\ c \in Nat
    BY <1>3, <1>5, Sectors
  <2>3. clst2sect(t.fp.clust) + (c + o) \in DataArea /\ clst2sect(t.fp.clust) \in Nat
    BY <2>1, <2>2, ClusterSectors
  <2>4. Sect(t) + o = clst2sect(t.fp.clust) + (c + o)
    BY <1>4, <2>2, <2>3, <1>5
  <2> QED BY <1>4, <2>2, <2>3, <2>4
<1>6. 0 \in 0 .. Csize - c - 1
  BY <1>3, Sectors
<1>7. clst2sect(t.fp.clust) # 0 => Sect(t) \in Nat /\ Sect(t) + 0 \in DataArea
  BY <1>5, <1>6
<1>8. clst2sect(t.fp.clust) # 0 => Sect(t) \in DataArea
  BY <1>7
<1> QED BY <1>3, <1>5, <1>7, <1>8 DEF c

(* The file object comes to the cluster c. *)
LEMMA ClustSet ==
  ASSUME NEW t, Good(t), NEW c, c \in Nat
  PROVE  LET u == [t EXCEPT !.fp.clust = c] IN
         /\ Goes(t, u) /\ SameFile(t.fp, u.fp) /\ u.fp.flag = t.fp.flag /\ u.fp.sclust = t.fp.sclust
         /\ u.fp.clust = c /\ u.out = t.out /\ u.res = t.res /\ u.fs = t.fs /\ u.val = t.val
         /\ u.dp = t.dp
<1> DEFINE f == [t.fp EXCEPT !.clust = c]
           u == [t EXCEPT !.fp = f]
<1>1. t \in States /\ t.fp \in Objects
  BY DEF Good, States
<1>2. f \in Objects /\ SameFile(t.fp, f) /\ f.clust = c /\ f.flag = t.fp.flag /\ f.sclust = t.fp.sclust
  BY <1>1 DEF Objects, SameFile
<1>3. [t EXCEPT !.fp.clust = c] = u
  BY <1>1 DEF States
<1> HIDE DEF f
<1>4. /\ Goes(t, u) /\ u.fp = f /\ u.out = t.out /\ u.res = t.res /\ u.fs = t.fs /\ u.val = t.val
      /\ u.dp = t.dp
  BY <1>2, FpSet
<1> HIDE DEF u
<1> QED BY <1>2, <1>3, <1>4

(* What reading the FAT for the file does: at most the cluster of the file *)
(* object changes.                                                         *)
Reads(t, u) == Goes(t, u) /\ SameFile(t.fp, u.fp) /\ u.fp.flag = t.fp.flag /\ u.out = t.out

(* read_cluster comes to the cluster of the file pointer, from the last    *)
(* one or from the first of the file.                                      *)
LEMMA ReadCluster ==
  ASSUME NEW t, Good(t)
  PROVE  Reads(t, read_cluster(t))
<1> DEFINE g == IF t.fp.fptr = 0 THEN Val(t, t.fp.sclust) ELSE get_fat(t, t.fp.clust)
           r == Ret(g, "FR_OK")
           u == [r EXCEPT !.fp.clust = g.val]
<1>1. read_cluster(t) = IF Csect(t) # 0 THEN t
                        ELSE IF g.val < 2 THEN Ret(g, "FR_INT_ERR")
                        ELSE IF g.val = Ones THEN Ret(g, "FR_DISK_ERR")
                        ELSE u
  <2>1. ~(g.val < 2 /\ g.val = Ones)
    BY DEF Ones
  <2> HIDE DEF g
  <2> QED BY <2>1 DEF read_cluster, Upon, g
<1>2. t.fp \in Objects /\ t \in States
  BY DEF Good, States
<1>3. Works(t, g) /\ g.val \in Nat
  <2>1. CASE t.fp.fptr = 0
    <3>1. t.fp.sclust \in Nat
      BY <1>2, ObjectTypes
    <3> QED BY <2>1, <3>1, ValWorks
  <2>2. CASE t.fp.fptr # 0
    BY <2>2, GetFat DEF GetDone
  <2> QED BY <2>1, <2>2
<1> HIDE DEF g
<1>4. Good(g) /\ Goes(t, g) /\ g.fp = t.fp /\ g.out = t.out
  BY <1>3, WorksGoes DEF Works
<1>5. ASSUME NEW x \in Results PROVE Reads(t, Ret(g, x)) /\ Good(Ret(g, x))
  <2>1. Works(g, Ret(g, x))
    BY <1>4, RetWorks
  <2> QED BY <1>4, <2>1, WorksGoes, GoesTrans DEF Reads, SameFile, Works
<1>6. Reads(t, r) /\ Good(r)
  BY <1>5 DEF Results
<1> HIDE DEF r
<1>7. Reads(t, u)
  <2>1. Goes(r, u) /\ SameFile(r.fp, u.fp) /\ u.fp.flag = r.fp.flag /\ u.out = r.out
    BY <1>3, <1>6, ClustSet
  <2> HIDE DEF u
  <2> QED BY <1>6, <2>1, GoesTrans DEF Reads, SameFile
<1> HIDE DEF u
<1>8. Reads(t, t)
  BY SelfWorks, WorksGoes DEF Reads, SameFile
<1> QED BY <1>1, <1>5, <1>7, <1>8 DEF Results

-----------------------------------------------------------------------------
(* A read of whole sectors. *)

(* The file object and what was read, set together. *)
Given(t, f, o) == [t EXCEPT !.fp = f, !.out = o]

(* The file object and what was read are set, and the volume stays. *)
LEMMA FpOutSet ==
  ASSUME NEW t, Good(t), NEW f \in Objects, NEW o \in Outs
  PROVE  LET u == Given(t, f, o) IN Goes(t, u) /\ u.fp = f /\ u.out = o /\ u.res = t.res
<1> DEFINE u == Given(t, f, o)
<1>1. t \in States
  BY DEF Good
<1>2. /\ u \in States /\ u.fp = f /\ u.fs = t.fs /\ u.disk = t.disk
      /\ u.res = t.res /\ u.out = o /\ u.fault = t.fault
  BY <1>1 DEF States, Given
<1> HIDE DEF u
<1>3. Good(u)
  BY <1>1, <1>2 DEF Good
<1>4. Exact(t) => Exact(u)
  BY <1>2 DEF Exact, Neat
<1> QED BY <1>2, <1>3, <1>4 DEF Goes, u

(* Multiplication distributes over addition, for the solver. *)
LEMMA Distributes ==
  ASSUME NEW a, NEW b, NEW c, a \in Nat, b \in Nat, c \in Nat
  PROVE  a * (b + c) = a * b + a * c /\ a * b \in Nat /\ a * c \in Nat /\ a * 1 = a
  BY Z3

(* A position at the start of a sector stays at one after whole sectors. *)
LEMMA Aligned ==
  ASSUME NEW p, p \in Nat, p % SS = 0, NEW k, k \in Nat
  PROVE  (p + SS * k) % SS = 0 /\ SS * k \in Nat
<1>1. p \div SS \in Nat /\ p = SS * (p \div SS) + 0 /\ SS \in Nat /\ SS > 0
  BY DivMod, Sectors
<1> DEFINE q == p \div SS
<1> HIDE DEF q
<1>2. q \in Nat /\ p = SS * q
  BY <1>1 DEF q
<1>3. p + SS * k = SS * (q + k) + 0 /\ q + k \in Nat /\ p + SS * k \in Nat /\ SS * k \in Nat
  <2>1. SS * (q + k) = SS * q + SS * k /\ SS * q \in Nat /\ SS * k \in Nat
    BY <1>1, <1>2, Distributes
  <2> QED BY <1>2, <2>1
<1>4. 0 \in 0 .. SS - 1
  BY <1>1
<1> DEFINE x == p + SS * k
           y == q + k
<1>5. x \in Nat /\ y \in Nat /\ x = SS * y + 0
  BY <1>3
<1> HIDE DEF x, y
<1>6. x % SS = 0
  BY <1>1, <1>4, <1>5, DivUnique
<1> QED BY <1>3, <1>6 DEF x

(* The file pointer comes at most to the position to. *)
ReadTo(t, u, to) ==
  /\ Goes(t, u) /\ Sane(u.fp) /\ u.fp.objsize = t.fp.objsize /\ u.fp.flag \subseteq t.fp.flag
  /\ u.fp.fptr <= to /\ u.out \in Seq(Nat)

(* A read goes on after a step of it. *)
LEMMA ReadToTrans ==
  ASSUME NEW t, NEW u, NEW v, NEW to, Goes(t, u), u.fp.objsize = t.fp.objsize,
         u.fp.flag \subseteq t.fp.flag, ReadTo(u, v, to)
  PROVE  ReadTo(t, v, to)
  BY GoesTrans DEF ReadTo

(* What can be read up to the position to. *)
Readable(t, to) ==
  /\ Good(t) /\ t.fs.fs_type # 0 /\ Sane(t.fp) /\ to \in Nat
  /\ t.fp.fptr <= to /\ to <= t.fp.objsize /\ t.out \in Seq(Nat)

(* read_direct reads whole sectors past the buffer, and takes the buffer's *)
(* own for the one it holds.                                               *)
LEMMA ReadDirect ==
  ASSUME NEW t, NEW to, Readable(t, to), t.fp.fptr % SS = 0, clst2sect(t.fp.clust) # 0,
         NEW cc, cc \in Nat, cc <= Csize - Csect(t), t.fp.fptr + SS * cc <= to
  PROVE  ReadTo(t, read_direct(t, cc), to)
<1> DEFINE r == disk_read(t)
           p == r.fp.fptr + SS * cc
           f == [r.fp EXCEPT !.fptr = p]
           n == SS * cc
           b(i) == LET s == Sect(t) + ((i - 1) \div SS)
                   IN IF "dirty" \in t.fp.flag /\ s = t.fp.sect
                      THEN t.fp.buf[(i - 1) % SS]
                      ELSE Bytes(r.disk[s])[(i - 1) % SS]
           o == r.out \o [i \in 1 .. n |-> b(i)]
           u == Given(r, f, o)
<1>1. Works(t, r) /\ r.dp = t.dp /\ r.disk = t.disk
  BY DiskRead DEF Readable
<1>2. t.fp \in Objects /\ t \in States /\ Good(t)
  BY DEF Good, States, Readable
<1>3. read_direct(t, cc) = IF r.res = "FR_OK" THEN u ELSE r
  <2>1. r \in States
    BY <1>1 DEF Works, Good
  <2>2. [r EXCEPT !.fp.fptr = @ + SS * cc, !.out = @ \o [i \in 1 .. SS * cc |-> b(i)]] = u
    <3> HIDE DEF b, r
    <3> QED BY <2>1 DEF States, Given
  <2> HIDE DEF u
  <2> QED BY <2>2 DEF read_direct, Then, r
<1> HIDE DEF r
<1>4. /\ r \in States /\ Good(r) /\ r.fp = t.fp /\ r.out = t.out /\ Goes(t, r)
      /\ t.fp.fptr \in Nat /\ t.fp.objsize \in Nat
  BY <1>1, <1>2, ObjectTypes, WorksGoes DEF Works, Good, States
<1>5. n \in Nat /\ (t.fp.fptr + n) % SS = 0
  BY <1>4, Aligned
<1>6. ASSUME NEW i \in 1 .. n PROVE b(i) \in Nat
  <2>1. i - 1 \in Nat /\ i - 1 < SS * cc
    BY <1>5
  <2>2. (i - 1) \div SS < cc /\ (i - 1) \div SS \in Nat /\ (i - 1) % SS \in 0 .. SS - 1
    BY <2>1, DivBound, DivMod, Sectors
  <2> DEFINE q == (i - 1) \div SS
             m == (i - 1) % SS
  <2> HIDE DEF q, m
  <2>3. q \in 0 .. Csize - Csect(t) - 1 /\ m \in Units
    <3>1. Csect(t) \in 0 .. Csize - 1
      BY <1>2, PlaceOf
    <3> QED BY <2>2, <3>1, Sectors DEF q, m, Units
  <2>4. Sect(t) + q \in DataArea
    BY <1>2, <2>3, PlaceOf
  <2>5. Bytes(r.disk[Sect(t) + q]) \in [Units -> Nat]
    <3>1. r.disk[Sect(t) + q] \in Blocks
      BY <1>4, <2>4, FsTypes, Areas
    <3> QED BY <3>1, BytesType
  <2>6. t.fp.buf \in [Units -> Nat]
    BY <1>2, ObjectTypes
  <2>7. Bytes(r.disk[Sect(t) + q])[m] \in Nat /\ t.fp.buf[m] \in Nat
    BY <2>3, <2>5, <2>6
  <2> QED BY <2>7 DEF q, m
<1> HIDE DEF b
<1>7. o \in Seq(Nat) /\ o \in Outs
  <2>1. [i \in 1 .. n |-> b(i)] \in Seq(Nat)
    BY <1>5, <1>6
  <2>2. r.out \in Seq(Nat)
    BY <1>4 DEF Readable
  <2> QED BY <2>1, <2>2 DEF Outs
<1> HIDE DEF o
<1>8. p \in Nat /\ p % SS = 0 /\ p <= to
  BY <1>4, <1>5
<1> HIDE DEF n, p
<1>9. /\ f \in Objects /\ f.fptr = p /\ f.objsize = t.fp.objsize /\ f.flag = t.fp.flag
      /\ f.sect = t.fp.sect /\ f.open = t.fp.open /\ f.dir_sect = t.fp.dir_sect
  BY <1>2, <1>4, <1>8 DEF Objects
<1> HIDE DEF f
<1>10. Goes(r, u) /\ u.fp = f /\ u.out = o
  BY <1>4, <1>7, <1>9, FpOutSet
<1> HIDE DEF u
<1>11. CASE r.res = "FR_OK"
  <2>1. Sane(f)
    BY <1>4, <1>8, <1>9 DEF Readable, Sane, Pinned
  <2> QED BY <1>3, <1>4, <1>7, <1>8, <1>9, <1>10, <1>11, <2>1, GoesTrans DEF ReadTo
<1>12. CASE r.res # "FR_OK"
  BY <1>3, <1>4, <1>12 DEF ReadTo, Readable
<1> QED BY <1>11, <1>12

-----------------------------------------------------------------------------
(* A read through the buffer. *)

(* The buffer is for the sector sect. *)
LEMMA SectSet ==
  ASSUME NEW t, Good(t), Sane(t.fp), NEW sect, sect \in DataArea
  PROVE  LET u == [t EXCEPT !.fp.sect = sect] IN
         /\ Goes(t, u) /\ Sane(u.fp) /\ u.fp.sect = sect /\ u.fp.fptr = t.fp.fptr
         /\ u.fp.objsize = t.fp.objsize /\ u.fp.flag = t.fp.flag /\ u.out = t.out /\ u.res = t.res
         /\ u.fs = t.fs /\ u.fp.clust = t.fp.clust /\ u.fp.err = t.fp.err
<1> DEFINE f == [t.fp EXCEPT !.sect = sect]
           u == [t EXCEPT !.fp = f]
<1>1. t \in States /\ t.fp \in Objects /\ sect \in Nat
  BY Areas, Sectors DEF Good, States, DataArea
<1>2. /\ f \in Objects /\ f.sect = sect /\ f.fptr = t.fp.fptr /\ f.objsize = t.fp.objsize
      /\ f.flag = t.fp.flag /\ f.open = t.fp.open /\ f.dir_sect = t.fp.dir_sect
      /\ f.clust = t.fp.clust /\ f.err = t.fp.err
  BY <1>1 DEF Objects
<1>3. [t EXCEPT !.fp.sect = sect] = u
  BY <1>1 DEF States
<1> HIDE DEF f
<1>4. Goes(t, u) /\ u.fp = f /\ u.out = t.out /\ u.res = t.res /\ u.fs = t.fs
  BY <1>2, FpSet
<1> HIDE DEF u
<1> QED BY <1>2, <1>3, <1>4 DEF Sane, Pinned

(* The buffer comes to the sector sect, written back before when it is     *)
(* dirty.                                                                  *)
LoadedBuffer(t, sect) ==
  Then(IF t.fp.sect = sect THEN t ELSE Then(flush_buf(t), LAMBDA f: fill_buf(f, sect)),
       LAMBDA b: [b EXCEPT !.fp.sect = sect])

(* The buffer comes to a sector of the data area, or the call fails. *)
LEMMA LoadBuffer ==
  ASSUME NEW t, Good(t), t.fs.fs_type # 0, Sane(t.fp), NEW sect, sect \in DataArea
  PROVE  LET u == LoadedBuffer(t, sect)
         IN /\ Goes(t, u) /\ Sane(u.fp) /\ u.fp.fptr = t.fp.fptr /\ u.fp.objsize = t.fp.objsize
            /\ u.fp.flag \subseteq t.fp.flag /\ u.out = t.out
            /\ u.res = "FR_OK" => u.fp.sect \in DataArea
<1> DEFINE y == flush_buf(t)
           z == fill_buf(y, sect)
           x == IF t.fp.sect = sect THEN t ELSE IF y.res = "FR_OK" THEN z ELSE y
           u == [x EXCEPT !.fp.sect = sect]
<1>1. Flushed(t, y)
  BY FlushBuf, SaneOK
<1> HIDE DEF y
<1>2. /\ Goes(t, y) /\ Good(y) /\ Sane(y.fp) /\ y.fp.flag \subseteq t.fp.flag /\ y.out = t.out
      /\ y.fp.fptr = t.fp.fptr /\ y.fp.objsize = t.fp.objsize
  <2>1. y.fp.flag \subseteq t.fp.flag
    BY <1>1 DEF Flushed, SameFile
  <2> QED BY <1>1, <2>1, SameSane DEF Flushed, SameFile, Goes
<1>3. Filled(y, z)
  BY <1>2, FillBuf
<1> HIDE DEF z
<1>4. /\ Goes(t, z) /\ Good(z) /\ Sane(z.fp) /\ z.fp.flag \subseteq t.fp.flag /\ z.out = t.out
      /\ z.fp.fptr = t.fp.fptr /\ z.fp.objsize = t.fp.objsize
  BY <1>2, <1>3, SameSane, GoesTrans DEF Filled, SameFile, Goes
<1>5. /\ Goes(t, x) /\ Good(x) /\ Sane(x.fp) /\ x.fp.flag \subseteq t.fp.flag /\ x.out = t.out
      /\ x.fp.fptr = t.fp.fptr /\ x.fp.objsize = t.fp.objsize
  BY <1>2, <1>4, SelfWorks, WorksGoes
<1>6. LoadedBuffer(t, sect) = IF x.res = "FR_OK" THEN u ELSE x
  BY DEF LoadedBuffer, Then, x, y, z
<1> HIDE DEF x
<1>7. /\ Goes(x, u) /\ Sane(u.fp) /\ u.fp.sect = sect /\ u.fp.fptr = x.fp.fptr
      /\ u.fp.objsize = x.fp.objsize /\ u.fp.flag = x.fp.flag /\ u.out = x.out /\ u.res = x.res
  BY <1>5, SectSet
<1> HIDE DEF u
<1>8. Goes(t, u)
  BY <1>5, <1>7, GoesTrans
<1> QED BY <1>5, <1>6, <1>7, <1>8

(* read_buffered reads from the buffer, up to the end of its sector. *)
LEMMA ReadBuffered ==
  ASSUME NEW t, NEW to, Readable(t, to), t.fp.fptr % SS = 0 => clst2sect(t.fp.clust) # 0,
         NEW n, n \in Nat, t.fp.fptr + n <= to
  PROVE  ReadTo(t, read_buffered(t, n), to)
<1> DEFINE at == t.fp.fptr % SS
           sect == Sect(t)
           l == IF at # 0 THEN t ELSE LoadedBuffer(t, sect)
           cnt == Least(n, SS - at)
           p == l.fp.fptr + cnt
           f == [l.fp EXCEPT !.fptr = p]
           o == l.out \o [i \in 1 .. cnt |-> l.fp.buf[at + i - 1]]
           u == Given(l, f, o)
<1>1. t.fp \in Objects /\ t \in States /\ Good(t) /\ t.fp.fptr \in Nat /\ t.fp.objsize \in Nat
  BY ObjectTypes DEF Good, States, Readable
<1>2. /\ Goes(t, l) /\ Sane(l.fp) /\ l.fp.fptr = t.fp.fptr /\ l.fp.objsize = t.fp.objsize
      /\ l.fp.flag \subseteq t.fp.flag /\ l.out = t.out
      /\ l.res = "FR_OK" => l.fp.sect \in DataArea
  <2>1. CASE at # 0
    <3>1. l = t
      BY <2>1
    <3>2. Goes(t, t)
      BY SelfWorks, WorksGoes DEF Readable
    <3> HIDE DEF l
    <3> QED BY <2>1, <3>1, <3>2 DEF Readable, Sane
  <2>2. CASE at = 0
    <3>1. sect \in DataArea
      BY <1>1, <2>2, PlaceOf
    <3> HIDE DEF sect
    <3> QED BY <2>2, <3>1, LoadBuffer DEF Readable
  <2> QED BY <2>1, <2>2
<1>3. read_buffered(t, n) = IF l.res = "FR_OK" THEN u ELSE l
  <2>0. read_buffered(t, n)
        = IF l.res = "FR_OK"
          THEN [l EXCEPT !.fp.fptr = @ + cnt, !.out = @ \o [i \in 1 .. cnt |-> l.fp.buf[at + i - 1]]]
          ELSE l
    <3>1. read_buffered(t, n)
          = Then(l, LAMBDA k : [k EXCEPT !.fp.fptr = @ + cnt,
                                         !.out = @ \o [i \in 1 .. cnt |-> k.fp.buf[at + i - 1]]])
      BY DEF read_buffered, LoadedBuffer
    <3> HIDE DEF l, cnt, at
    <3> QED BY <3>1 DEF Then
  <2>1. l \in States
    BY <1>2 DEF Goes, Good
  <2> HIDE DEF l, cnt, at
  <2>2. [l EXCEPT !.fp.fptr = @ + cnt, !.out = @ \o [i \in 1 .. cnt |-> l.fp.buf[at + i - 1]]] = u
    BY <2>1 DEF States, Given
  <2> QED BY <2>0, <2>2
<1> HIDE DEF l
<1>4. l \in States /\ Good(l) /\ l.fp \in Objects /\ l.fp.buf \in [Units -> Nat]
  BY <1>2, ObjectTypes DEF Goes, Good, States
<1>5. at \in 0 .. SS - 1 /\ SS \in Nat /\ SS > 0
  BY <1>1, DivMod, Sectors
<1>6. cnt \in Nat /\ cnt <= n /\ at + cnt <= SS
  <2>1. SS - at \in Nat
    BY <1>5
  <2>2. cnt \in Nat /\ cnt <= n /\ cnt <= SS - at
    BY <2>1, LeastOf
  <2> HIDE DEF cnt, at
  <2> QED BY <1>5, <2>2
<1> HIDE DEF cnt
<1>7. p \in Nat /\ p <= to /\ (p % SS # 0 /\ l.res = "FR_OK" => l.fp.sect \in DataArea)
  BY <1>1, <1>2, <1>6 DEF Readable
<1>8. o \in Seq(Nat) /\ o \in Outs
  <2>1. ASSUME NEW i \in 1 .. cnt PROVE l.fp.buf[at + i - 1] \in Nat
    <3>1. at + i - 1 \in Units
      BY <1>5, <1>6 DEF Units
    <3> QED BY <1>4, <3>1
  <2> HIDE DEF at
  <2>2. [i \in 1 .. cnt |-> l.fp.buf[at + i - 1]] \in Seq(Nat)
    BY <1>6, <2>1
  <2>3. l.out \in Seq(Nat)
    BY <1>2 DEF Readable
  <2> QED BY <2>2, <2>3 DEF Outs
<1> HIDE DEF o, at, p
<1>9. /\ f \in Objects /\ f.fptr = p /\ f.objsize = t.fp.objsize /\ f.flag = l.fp.flag
      /\ f.sect = l.fp.sect /\ f.open = l.fp.open /\ f.dir_sect = l.fp.dir_sect
  BY <1>2, <1>4, <1>7 DEF Objects
<1> HIDE DEF f
<1>10. Goes(l, u) /\ u.fp = f /\ u.out = o
  BY <1>4, <1>8, <1>9, FpOutSet
<1> HIDE DEF u
<1>11. CASE l.res = "FR_OK"
  <2>1. p <= f.objsize
    BY <1>1, <1>7, <1>9 DEF Readable
  <2>2. Sane(f)
    BY <1>2, <1>7, <1>9, <1>11, <2>1 DEF Sane, Pinned
  <2>3. Goes(t, u)
    BY <1>2, <1>10, GoesTrans
  <2> QED BY <1>2, <1>3, <1>7, <1>8, <1>9, <1>10, <1>11, <2>2, <2>3 DEF ReadTo
<1>12. CASE l.res # "FR_OK"
  BY <1>2, <1>3, <1>12 DEF ReadTo, Readable
<1> QED BY <1>11, <1>12

(* Whole sectors that are asked for and left in the cluster. *)
LEMMA WholeOf ==
  ASSUME NEW t, Good(t), NEW n, n \in Nat
  PROVE  Whole(t, n) \in Nat /\ Whole(t, n) <= Csize - Csect(t) /\ SS * Whole(t, n) <= n
         /\ SS * Whole(t, n) \in Nat
<1> DEFINE q == n \div SS
           c == Csize - Csect(t)
           w == Whole(t, n)
<1>1. SS \in Nat /\ SS > 0 /\ Csize \in Nat
  BY Sectors
<1>2. q \in Nat /\ SS * q <= n
  BY <1>1, DivMod
<1>3. c \in Nat
  BY <1>1, PlaceOf
<1> HIDE DEF q, c
<1>4. w = Least(q, c)
  BY DEF Whole, q, c
<1>5. w \in Nat /\ w <= q /\ w <= c
  BY <1>2, <1>3, <1>4, LeastOf
<1> HIDE DEF w
<1>6. SS * w <= SS * q /\ SS * w \in Nat
  <2>1. q - w \in Nat /\ q = w + (q - w)
    BY <1>2, <1>5
  <2>2. SS * (w + (q - w)) = SS * w + SS * (q - w) /\ SS * w \in Nat /\ SS * (q - w) \in Nat
    BY <1>1, <1>5, <2>1, Distributes
  <2> QED BY <2>1, <2>2
<1> QED BY <1>1, <1>2, <1>5, <1>6 DEF w, c

(* read_some reads one stretch, direct or through the buffer, and does not *)
(* pass the position to.                                                   *)
LEMMA ReadSome ==
  ASSUME NEW t, NEW to, Readable(t, to), NEW n, n \in Nat, t.fp.fptr + n <= to
  PROVE  ReadTo(t, read_some(t, n), to)
<1> DEFINE s == IF t.fp.fptr % SS = 0 THEN read_cluster(t) ELSE t
           w == Whole(s, n)
           u == read_some(t, n)
<1> SUFFICES ReadTo(t, u, to)
  OBVIOUS
<1>0. Good(t)
  BY DEF Readable
<1>1. Reads(t, s)
  BY <1>0, ReadCluster, SelfWorks, WorksGoes DEF Reads, SameFile
<1>2. u = IF s.res # "FR_OK" THEN s
          ELSE IF s.fp.fptr % SS = 0 /\ clst2sect(s.fp.clust) = 0 THEN Ret(s, "FR_INT_ERR")
          ELSE IF s.fp.fptr % SS = 0 /\ w > 0 THEN read_direct(s, w)
          ELSE read_buffered(s, n)
  BY DEF read_some, Then
<1> HIDE DEF s, u
<1>3. /\ Readable(s, to) /\ Goes(t, s) /\ Good(s) /\ s.fp.fptr = t.fp.fptr
      /\ s.fp.objsize = t.fp.objsize /\ s.fp.flag = t.fp.flag
  BY <1>1, SameSane DEF Reads, Readable, Goes, SameFile
<1>4. ASSUME ReadTo(s, u, to) PROVE ReadTo(t, u, to)
  BY <1>3, <1>4, ReadToTrans
<1>5. CASE u = s
  BY <1>3, <1>5 DEF ReadTo, Readable
<1>6. CASE u = Ret(s, "FR_INT_ERR")
  <2>1. Works(s, u)
    BY <1>3, <1>6, RetWorks DEF Results
  <2>2. Goes(s, u) /\ u.fp = s.fp /\ u.out = s.out
    BY <2>1, WorksGoes
  <2>3. ReadTo(s, u, to)
    BY <1>3, <2>2 DEF ReadTo, Readable
  <2> QED BY <1>4, <2>3
<1>7. CASE u = read_direct(s, w) /\ s.fp.fptr % SS = 0 /\ clst2sect(s.fp.clust) # 0
  <2>1. w \in Nat /\ w <= Csize - Csect(s) /\ SS * w <= n /\ SS * w \in Nat
    BY <1>3, WholeOf
  <2> HIDE DEF w
  <2>2. s.fp.fptr + SS * w <= to
    <3>1. s.fp.fptr \in Nat /\ to \in Nat
      BY <1>3, ObjectTypes DEF Good, States, Readable
    <3> QED BY <1>3, <2>1, <3>1
  <2> QED BY <1>3, <1>4, <1>7, <2>1, <2>2, ReadDirect
<1>8. CASE u = read_buffered(s, n) /\ (s.fp.fptr % SS = 0 => clst2sect(s.fp.clust) # 0)
  BY <1>3, <1>4, <1>8, ReadBuffered
<1> QED BY <1>2, <1>5, <1>6, <1>7, <1>8

-----------------------------------------------------------------------------
(* f_read. *)

(* An error of the call becomes that of the file object. *)
LEMMA AbortGoes ==
  ASSUME NEW t, Good(t)
  PROVE  LET u == Abort(t) IN
         /\ Goes(t, u) /\ u.out = t.out /\ u.res = t.res /\ u.fp.fptr = t.fp.fptr
         /\ u.fp.objsize = t.fp.objsize /\ u.fp.flag = t.fp.flag /\ u.fp.sect = t.fp.sect
         /\ u.fp.open = t.fp.open /\ u.fp.dir_sect = t.fp.dir_sect
         /\ (t.res # "FR_OK" => u.fp.err = t.res) /\ (t.res = "FR_OK" => u = t)
<1> DEFINE f == [t.fp EXCEPT !.err = t.res]
           u == [t EXCEPT !.fp = f]
<1>1. t \in States /\ t.fp \in Objects /\ t.res \in Results
  BY FsTypes DEF Good
<1>2. /\ f \in Objects /\ f.fptr = t.fp.fptr /\ f.objsize = t.fp.objsize /\ f.flag = t.fp.flag
      /\ f.sect = t.fp.sect /\ f.open = t.fp.open /\ f.dir_sect = t.fp.dir_sect /\ f.err = t.res
  BY <1>1 DEF Objects
<1>3. Abort(t) = IF t.res = "FR_OK" THEN t ELSE u
  <2>1. [t EXCEPT !.fp.err = t.res] = u
    BY <1>1 DEF States
  <2> HIDE DEF u
  <2> QED BY <2>1 DEF Abort
<1> HIDE DEF f
<1>4. Goes(t, u) /\ u.fp = f /\ u.out = t.out /\ u.res = t.res
  BY <1>2, FpSet
<1> HIDE DEF u
<1>5. Goes(t, t)
  BY SelfWorks, WorksGoes
<1> QED BY <1>2, <1>3, <1>4, <1>5

(* read_on takes one turn of the loop of f_read. *)
LEMMA ReadOn ==
  ASSUME NEW t, NEW to, Readable(t, to)
  PROVE  ReadTo(t, read_on(t, to), to)
<1> DEFINE n == to - t.fp.fptr
           r == read_some(t, n)
           a == Abort(r)
<1>1. Good(t) /\ t.fp.fptr \in Nat /\ n \in Nat /\ t.fp.fptr + n <= to
  <2>1. t.fp.fptr \in Nat /\ Good(t) /\ to \in Nat /\ t.fp.fptr <= to
    BY ObjectTypes DEF Readable, Good, States
  <2> QED BY <2>1
<1>2. read_on(t, to) = IF t.fp.fptr = to THEN t ELSE IF r.res = "FR_OK" THEN More(r) ELSE a
  BY DEF read_on, Upon
<1> HIDE DEF n
<1>3. ReadTo(t, r, to)
  BY <1>1, ReadSome
<1> HIDE DEF r
<1>4. Good(r)
  BY <1>3 DEF ReadTo, Goes
<1>5. ReadTo(t, More(r), to)
  <2>1. Works(r, More(r))
    BY <1>4, RetWorks DEF More, Results
  <2>2. Goes(r, More(r)) /\ More(r).fp = r.fp /\ More(r).out = r.out
    BY <2>1, WorksGoes
  <2>3. Goes(t, More(r))
    BY <1>3, <2>2, GoesTrans DEF ReadTo
  <2> QED BY <1>3, <2>2, <2>3 DEF ReadTo
<1>6. ReadTo(t, a, to)
  <2>1. /\ Goes(r, a) /\ a.out = r.out /\ a.fp.fptr = r.fp.fptr
        /\ a.fp.objsize = r.fp.objsize /\ a.fp.flag = r.fp.flag /\ a.fp.sect = r.fp.sect
        /\ a.fp.open = r.fp.open /\ a.fp.dir_sect = r.fp.dir_sect
    BY <1>4, AbortGoes
  <2> HIDE DEF a
  <2>2. Goes(t, a)
    BY <1>3, <2>1, GoesTrans DEF ReadTo
  <2> QED BY <1>3, <2>1, <2>2 DEF ReadTo, Sane, Pinned
<1>7. ReadTo(t, t, to)
  BY SelfWorks, WorksGoes DEF ReadTo, Readable
<1> QED BY <1>2, <1>5, <1>6, <1>7

(* read_units reads n units at most. *)
LEMMA ReadUnits ==
  ASSUME NEW t, NEW n, n \in Nat, Readable(t, t.fp.fptr + n)
  PROVE  ReadTo(t, read_units(t, n), t.fp.fptr + n)
<1> DEFINE to == t.fp.fptr + n
           S == {s \in States : ReadTo(t, s, to)}
           k == n + 1
           x == More(t)
           Turn(s) == IF s.res = "more" THEN read_on(Ret(s, "FR_OK"), to) ELSE s
           F == [p \in S \X Nat |-> Turn(p[1])]
           Is(g) == g = [i \in 0 .. k |-> IF i = 0 THEN x ELSE Turn(g[i - 1])]
           at == CHOOSE g : Is(g)
<1>0. k \in Nat
  OBVIOUS
<1> HIDE DEF k
<1>t. to \in Nat /\ Readable(t, to)
  BY DEF Readable
<1> HIDE DEF to
<1>1. x \in S
  <2>1. Works(t, x) /\ x \in States
    BY <1>t, RetWorks DEF More, Results, Works, Good, Readable
  <2> HIDE DEF x
  <2>2. ReadTo(t, x, to)
    BY <1>t, <2>1, WorksGoes DEF ReadTo, Readable
  <2> QED BY <2>1, <2>2
<1>2. ASSUME NEW s \in S PROVE Turn(s) \in S
  <2> DEFINE r == Ret(s, "FR_OK")
             u == read_on(r, to)
  <2>1. ReadTo(t, s, to) /\ Good(s)
    BY DEF ReadTo, Goes
  <2>2. Works(s, r) /\ Good(r)
    BY <2>1, RetWorks DEF Results, Works
  <2> HIDE DEF r
  <2>3. Goes(s, r) /\ r.fp = s.fp /\ r.out = s.out
    BY <2>2, WorksGoes
  <2>4. Goes(t, r)
    BY <2>1, <2>3, GoesTrans DEF ReadTo
  <2>5. Readable(r, to) /\ r.fp.objsize = t.fp.objsize /\ r.fp.flag \subseteq t.fp.flag
    BY <1>t, <2>1, <2>2, <2>3, <2>4 DEF ReadTo, Readable, Goes
  <2>6. ReadTo(r, u, to)
    BY <2>5, ReadOn
  <2> HIDE DEF u
  <2>7. ReadTo(t, u, to) /\ u \in States
    BY <2>4, <2>5, <2>6, ReadToTrans DEF ReadTo, Goes, Good
  <2> QED BY <2>7 DEF r, u
<1> HIDE DEF x, Turn, S
<1>3. \A i \in 1 .. k : \A s \in S : F[<<s, i>>] = Turn(s) /\ F[<<s, i>>] \in S
  BY <1>2
<1> HIDE DEF F
<1>4. PICK g : Looped(S, F, x, k, g)
  BY <1>0, <1>1, <1>3, Loop
<1>5. Is(g)
  <2>1. /\ g = [i \in 0 .. k |-> g[i]]
        /\ \A i \in 0 .. k : g[i] = IF i = 0 THEN x ELSE Turn(g[i - 1])
    <3>1. \A i \in 0 .. k : i # 0 => i \in 1 .. k
      BY <1>0
    <3>2. \A i \in 0 .. k : i # 0 => F[<<g[i - 1], i>>] = Turn(g[i - 1])
      BY <1>3, <1>4, <3>1 DEF Looped
    <3> QED BY <1>4, <3>2 DEF Looped
  <2>2. g = [i \in 0 .. k |-> IF i = 0 THEN x ELSE Turn(g[i - 1])]
    BY <2>1
  <2> QED BY <2>2
<1>6. Is(at)
  BY <1>5
<1>7. at[k] \in S
  <2> HIDE DEF at
  <2>1. \A i \in 0 .. k : at[i] = IF i = 0 THEN x ELSE Turn(at[i - 1])
    BY <1>6
  <2>2. at[0] \in S
    BY <1>0, <1>1, <2>1
  <2>3. ASSUME NEW i \in 1 .. k, at[i - 1] \in S PROVE at[i] \in S
    <3>1. i \in 0 .. k /\ i # 0
      BY <1>0
    <3>2. at[i] = Turn(at[i - 1])
      BY <2>1, <3>1
    <3> QED BY <1>2, <2>3, <3>2
  <2> QED BY <1>0, <2>2, <2>3, Stays
<1>8. read_units(t, n) = at[k]
  BY DEF read_units, k, to, Repeat, x, Turn
<1> QED BY <1>7, <1>8 DEF S, to

(* validate succeeds for an open file of a mounted volume alone. *)
LEMMA Validate ==
  ASSUME NEW t, Good(t)
  PROVE  LET u == validate(t) IN
         /\ Works(t, u) /\ u.fs = t.fs /\ u.dp = t.dp /\ u.val = t.val
         /\ u.res = "FR_OK" => t.fp.open /\ t.fs.fs_type # 0
<1> DEFINE r == IF t.fp.open /\ t.fs.fs_type # 0 THEN "FR_OK" ELSE "FR_INVALID_OBJECT"
<1>1. r \in Results /\ (r = "FR_OK" => t.fp.open /\ t.fs.fs_type # 0)
  BY DEF Results
<1>2. validate(t) = Ret(t, r)
  BY DEF validate
<1> HIDE DEF r
<1> QED BY <1>1, <1>2, RetWorks

(* usable succeeds for an open file without an error. *)
LEMMA Usable ==
  ASSUME NEW t, Good(t), FileOK(t.fp)
  PROVE  LET u == usable(t) IN
         /\ Works(t, u) /\ u.fs = t.fs /\ u.val = t.val
         /\ u.res = "FR_OK" => t.fp.open /\ t.fs.fs_type # 0 /\ t.fp.err = "FR_OK" /\ Sane(t.fp)
<1> DEFINE v == validate(t)
<1>1. /\ Works(t, v) /\ v.fs = t.fs /\ v.val = t.val /\ v.fp = t.fp /\ Good(v)
      /\ v.res = "FR_OK" => t.fp.open /\ t.fs.fs_type # 0
  BY Validate DEF Works
<1>2. usable(t) = IF v.res = "FR_OK" THEN Ret(v, v.fp.err) ELSE v
  BY DEF usable, Then
<1> HIDE DEF v
<1>3. v.fp.err \in Results
  BY <1>1, ObjectTypes DEF Good, States
<1>4. Works(t, Ret(v, v.fp.err)) /\ Ret(v, v.fp.err).fs = v.fs /\ Ret(v, v.fp.err).val = v.val
      /\ Ret(v, v.fp.err).res = v.fp.err
  BY <1>1, <1>3, RetWorks, WorksTrans
<1>5. t.fp.err = "FR_OK" => Sane(t.fp)
  BY DEF FileOK, Sane, Pinned
<1> QED BY <1>1, <1>2, <1>4, <1>5

(* granted succeeds for one that has the access as well. *)
LEMMA Granted ==
  ASSUME NEW t, Good(t), FileOK(t.fp), NEW access
  PROVE  LET u == granted(t, access) IN
         /\ Works(t, u)
         /\ u.res = "FR_OK" => t.fp.open /\ t.fs.fs_type # 0 /\ t.fp.err = "FR_OK" /\ Sane(t.fp)
<1> DEFINE v == usable(t)
           r == IF access \in v.fp.flag THEN "FR_OK" ELSE "FR_DENIED"
<1>1. /\ Works(t, v) /\ Good(v)
      /\ v.res = "FR_OK" => t.fp.open /\ t.fs.fs_type # 0 /\ t.fp.err = "FR_OK" /\ Sane(t.fp)
  BY Usable DEF Works
<1>2. granted(t, access) = IF v.res = "FR_OK" THEN Ret(v, r) ELSE v
  BY DEF granted, Then
<1> HIDE DEF v
<1>3. r \in Results
  BY DEF Results
<1> HIDE DEF r
<1>4. Works(t, Ret(v, r))
  BY <1>1, <1>3, RetWorks, WorksTrans
<1> QED BY <1>1, <1>2, <1>4

(* f_read keeps the volume and the file object in order. *)
LEMMA FRead ==
  ASSUME NEW t, Good(t), FileOK(t.fp), NEW n, n \in Nat, t.out \in Seq(Nat)
  PROVE  Runs(t, f_read(t, n))
<1> DEFINE g == granted(t, "read")
           m == Least(n, g.fp.objsize - g.fp.fptr)
           u == read_units(g, m)
<1>1. /\ Works(t, g) /\ Good(g) /\ g.fp = t.fp /\ g.out = t.out
      /\ g.res = "FR_OK" => g.fs.fs_type # 0 /\ Sane(g.fp)
  BY Granted DEF Works
<1>2. f_read(t, n) = IF g.res = "FR_OK" THEN u ELSE g
  BY DEF f_read, Then
<1> HIDE DEF g
<1>3. CASE g.res = "FR_OK"
  <2>1. g.fp.objsize \in Nat /\ g.fp.fptr \in Nat /\ g.fp.fptr <= g.fp.objsize
    BY <1>1, <1>3, ObjectTypes DEF Good, States, Sane
  <2>2. m \in Nat /\ m <= g.fp.objsize - g.fp.fptr
    BY <2>1, LeastOf
  <2> HIDE DEF m
  <2>3. Readable(g, g.fp.fptr + m)
    BY <1>1, <1>3, <2>1, <2>2 DEF Readable
  <2>4. ReadTo(g, u, g.fp.fptr + m)
    BY <2>2, <2>3, ReadUnits
  <2> HIDE DEF u
  <2>5. Goes(t, u) /\ FileOK(u.fp)
    BY <1>1, <2>4, WorksGoes, GoesTrans, SaneOK DEF ReadTo
  <2> QED BY <1>2, <1>3, <2>5, GoesRuns
<1>4. CASE g.res # "FR_OK"
  BY <1>1, <1>2, <1>4, WorksRuns
<1> QED BY <1>3, <1>4

-----------------------------------------------------------------------------
(* A write of whole sectors. *)

(* At most the cluster, the first cluster and the buffer of the file change. *)
Clustered(t, u) == Goes(t, u) /\ SameFile(t.fp, u.fp) /\ u.fp.flag = t.fp.flag /\ u.out = t.out

(* The file object comes to a cluster that may be its first. *)
AtCluster(t, c) == [t EXCEPT !.fp.clust = c, !.fp.sclust = IF @ = 0 THEN c ELSE @]

(* Coming to a cluster, which may be the first of the file. *)
LEMMA ClusterSet ==
  ASSUME NEW t, Good(t), NEW c, c \in Clusters
  PROVE  Clustered(t, AtCluster(t, c)) /\ AtCluster(t, c).res = t.res
<1> DEFINE s == IF t.fp.sclust = 0 THEN c ELSE t.fp.sclust
           f == [t.fp EXCEPT !.clust = c, !.sclust = s]
           u == [t EXCEPT !.fp = f]
<1>1. t \in States /\ t.fp \in Objects /\ c \in Nat
  BY InFat DEF Good, States
<1>2. s \in {0} \cup Clusters
  BY <1>1, ObjectTypes
<1>3. AtCluster(t, c) = u
  BY <1>1 DEF States, AtCluster
<1> HIDE DEF s
<1>4. f \in Objects /\ SameFile(t.fp, f) /\ f.flag = t.fp.flag
  BY <1>1, <1>2 DEF Objects, SameFile
<1> HIDE DEF f
<1>5. Goes(t, u) /\ u.fp = f /\ u.out = t.out /\ u.res = t.res
  BY <1>4, FpSet
<1> HIDE DEF u
<1> QED BY <1>3, <1>4, <1>5 DEF Clustered

(* Clustered is transitive. *)
LEMMA ClusteredTrans ==
  ASSUME NEW t, NEW u, NEW v, Clustered(t, u), Clustered(u, v)
  PROVE  Clustered(t, v)
  BY GoesTrans DEF Clustered, SameFile

(* Work on the volume alone leaves the file object alone. *)
LEMMA WorksClustered ==
  ASSUME NEW t, NEW u, Works(t, u)
  PROVE  Clustered(t, u)
  BY WorksGoes DEF Clustered, SameFile

(* write_cluster comes to the cluster of the file pointer, or stretches    *)
(* the chain.                                                              *)
LEMMA WriteCluster ==
  ASSUME NEW t, Good(t), t.fs.fs_type # 0
  PROVE  Clustered(t, write_cluster(t))
<1> DEFINE a == IF t.fp.fptr = 0 THEN 0 ELSE t.fp.clust
           g == IF t.fp.fptr = 0 /\ t.fp.sclust # 0 THEN Val(t, t.fp.sclust) ELSE create_chain(t, a)
           c == Ret(g, ClusterError(g.val))
           u == AtCluster(c, c.val)
<1>1. write_cluster(t) = IF Csect(t) # 0 THEN t
                         ELSE IF g.val = 0 THEN Ret(g, "full")
                         ELSE IF c.res = "FR_OK" THEN u ELSE c
  <2> HIDE DEF c
  <2> QED BY DEF write_cluster, Upon, Then, g, c, AtCluster
<1>2. t.fp \in Objects /\ t.fp.sclust \in {0} \cup Clusters /\ t.fp.sclust \in Nat /\ a \in Nat
  BY ObjectTypes DEF Good, States
<1>3. Works(t, g) /\ g.val \in Codes
  <2>1. CASE t.fp.fptr = 0 /\ t.fp.sclust # 0
    <3>1. t.fp.sclust \in Codes
      BY <1>2, <2>1 DEF Codes
    <3>2. g = Val(t, t.fp.sclust)
      BY <2>1
    <3> HIDE DEF g
    <3> QED BY <1>2, <3>1, <3>2, ValWorks
  <2>2. CASE ~(t.fp.fptr = 0 /\ t.fp.sclust # 0)
    <3> HIDE DEF a
    <3>1. g = create_chain(t, a)
      BY <2>2
    <3> HIDE DEF g
    <3> QED BY <1>2, <3>1, CreateChain DEF ChainDone
  <2> QED BY <2>1, <2>2
<1> HIDE DEF g
<1>4. Good(g) /\ Clustered(t, g)
  BY <1>3, WorksClustered DEF Works
<1>5. ClusterError(g.val) \in Results
  BY ClusterErrors DEF Results
<1>6. Works(g, c) /\ Good(c) /\ c.val = g.val /\ c.res = ClusterError(g.val)
  BY <1>4, <1>5, RetWorks DEF Works
<1>7. Clustered(t, c)
  BY <1>4, <1>6, WorksClustered, ClusteredTrans
<1>8. Clustered(t, Ret(g, "full"))
  <2>1. Works(g, Ret(g, "full"))
    BY <1>4, RetWorks DEF Results
  <2> QED BY <1>4, <2>1, WorksClustered, ClusteredTrans
<1> HIDE DEF c
<1>9. CASE g.val # 0 /\ c.res = "FR_OK"
  <2>1. c.val \in Clusters
    BY <1>3, <1>6, <1>9, ClusterErrors
  <2>2. Clustered(t, u)
    BY <1>6, <1>7, <2>1, ClusterSet, ClusteredTrans
  <2>3. Clustered(t, t)
    BY SelfWorks, WorksClustered
  <2> QED BY <1>1, <1>9, <2>2, <2>3
<1>10. CASE ~(g.val # 0 /\ c.res = "FR_OK")
  <2>1. Clustered(t, t)
    BY SelfWorks, WorksClustered
  <2> HIDE DEF u
  <2> QED BY <1>1, <1>7, <1>8, <1>10, <2>1
<1> QED BY <1>9, <1>10

(* advance moves the file pointer, and the size with it. *)
LEMMA Advance ==
  ASSUME NEW t, Good(t), Pinned(t.fp), NEW cnt, cnt \in Nat, t.fp.fptr <= t.fp.objsize,
         (t.fp.fptr + cnt) % SS # 0 => t.fp.sect \in DataArea
  PROVE  LET u == advance(t, cnt) IN
         Goes(t, u) /\ Sane(u.fp) /\ u.fp.fptr = t.fp.fptr + cnt /\ u.out = t.out /\ u.res = t.res
<1> DEFINE p == t.fp.fptr + cnt
           o == IF p > t.fp.objsize THEN p ELSE t.fp.objsize
           f == [t.fp EXCEPT !.fptr = p, !.objsize = o]
           u == [t EXCEPT !.fp = f]
<1>1. t \in States /\ t.fp \in Objects /\ t.fp.fptr \in Nat /\ t.fp.objsize \in Nat
  BY ObjectTypes DEF Good, States
<1>2. advance(t, cnt) = u
  BY <1>1 DEF States, advance
<1>3. p \in Nat /\ o \in Nat /\ p <= o
  BY <1>1
<1> HIDE DEF o, p
<1>4. /\ f \in Objects /\ f.fptr = p /\ f.objsize = o /\ f.sect = t.fp.sect /\ f.open = t.fp.open
      /\ f.flag = t.fp.flag /\ f.dir_sect = t.fp.dir_sect
  BY <1>1, <1>3 DEF Objects
<1> HIDE DEF f
<1>5. Goes(t, u) /\ u.fp = f /\ u.out = t.out /\ u.res = t.res
  BY <1>4, FpSet
<1> HIDE DEF u
<1>6. p % SS # 0 => t.fp.sect \in DataArea
  BY DEF p
<1> QED BY <1>2, <1>3, <1>4, <1>5, <1>6 DEF Sane, Pinned, p

(* The buffer is filled anew. *)
Buffered(t, b, fl) == [t EXCEPT !.fp = [t.fp EXCEPT !.buf = b, !.flag = fl]]

(* Setting the buffer leaves the volume as it is. *)
LEMMA BufferSet ==
  ASSUME NEW t, Good(t), NEW b, b \in [Units -> Nat], NEW fl, fl \in SUBSET Flags
  PROVE  LET u == Buffered(t, b, fl) IN
         /\ Goes(t, u) /\ u.out = t.out /\ u.res = t.res /\ u.fp.fptr = t.fp.fptr
         /\ u.fp.objsize = t.fp.objsize /\ u.fp.flag = fl /\ u.fp.sect = t.fp.sect
         /\ u.fp.open = t.fp.open /\ u.fp.dir_sect = t.fp.dir_sect
<1> DEFINE f == [t.fp EXCEPT !.buf = b, !.flag = fl]
           u == Buffered(t, b, fl)
<1>1. t \in States /\ t.fp \in Objects
  BY DEF Good, States
<1>2. /\ f \in Objects /\ f.fptr = t.fp.fptr /\ f.objsize = t.fp.objsize /\ f.sect = t.fp.sect
      /\ f.open = t.fp.open /\ f.flag = fl /\ f.dir_sect = t.fp.dir_sect
  BY <1>1 DEF Objects
<1>3. u = [t EXCEPT !.fp = f]
  BY DEF Buffered
<1> HIDE DEF f, u
<1>4. Goes(t, u) /\ u.fp = f /\ u.out = t.out /\ u.res = t.res
  BY <1>2, <1>3, FpSet
<1> QED BY <1>2, <1>4 DEF u

(* The file pointer comes at most to the position to. *)
WriteTo(t, u, to) == Goes(t, u) /\ Sane(u.fp) /\ u.fp.fptr <= to /\ u.out = t.out

(* What can be written up to the position to. *)
Writable(t, to) ==
  Good(t) /\ t.fs.fs_type # 0 /\ Sane(t.fp) /\ to \in Nat /\ t.fp.fptr <= to

(* A write goes on after a step of it. *)
LEMMA WriteToTrans ==
  ASSUME NEW t, NEW u, NEW v, NEW to, Goes(t, u), u.out = t.out, WriteTo(u, v, to)
  PROVE  WriteTo(t, v, to)
  BY GoesTrans DEF WriteTo

(* write_direct writes whole sectors past the buffer, and keeps the buffer *)
(* in step with them.                                                      *)
LEMMA WriteDirect ==
  ASSUME NEW t, NEW to, Writable(t, to), t.fp.fptr % SS = 0, clst2sect(t.fp.clust) # 0,
         NEW cc, cc \in Nat, cc <= Csize - Csect(t), t.fp.fptr + SS * cc <= to,
         NEW x, x \in Nat
  PROVE  WriteTo(t, write_direct(t, x, cc), to)
<1> DEFINE sect == Sect(t)
           full == [i \in Units |-> x]
           data == [n \in 0 .. cc - 1 |-> DataSector(full)]
           w == disk_write(t, sect, data)
           fl == w.fp.flag \ {"dirty"}
           b == IF w.fp.sect \in sect .. sect + cc - 1 THEN Buffered(w, full, fl) ELSE w
           k == SS * cc
           u == advance(b, k)
<1>0. t.fp \in Objects /\ t \in States /\ Good(t) /\ t.fp.fptr \in Nat
  BY ObjectTypes DEF Good, States, Writable
<1>1. full \in [Units -> Nat]
  OBVIOUS
<1>2. write_direct(t, x, cc) = IF w.res = "FR_OK" THEN u ELSE w
  <2>1. write_direct(t, x, cc)
        = IF w.res = "FR_OK"
          THEN advance(IF w.fp.sect \in sect .. sect + cc - 1
                       THEN [w EXCEPT !.fp.buf = full, !.fp.flag = @ \ {"dirty"}] ELSE w, k)
          ELSE w
    BY DEF write_direct, Then
  <2>2. Buffered(w, full, fl) = [w EXCEPT !.fp.buf = full, !.fp.flag = @ \ {"dirty"}]
    BY DEF Buffered
  <2> HIDE DEF w, full, fl, sect, k
  <2> QED BY <2>1, <2>2
<1>3. \A i \in 0 .. LastSector : i - sect \in DOMAIN data =>
        i \in DataArea /\ data[i - sect] \in DataBlocks
  <2> TAKE i \in 0 .. LastSector
  <2> HAVE i - sect \in DOMAIN data
  <2>1. DataSector(full) \in DataBlocks
    BY <1>1, SectorData
  <2>2. i - sect \in 0 .. cc - 1 /\ data[i - sect] = DataSector(full)
    OBVIOUS
  <2> DEFINE o == i - sect
  <2>3. o \in 0 .. Csize - Csect(t) - 1
    <3>1. o \in 0 .. cc - 1
      BY <2>2
    <3>2. Csect(t) \in 0 .. Csize - 1
      BY <1>0, PlaceOf
    <3> HIDE DEF o
    <3> QED BY <3>1, <3>2, Sectors
  <2>4. sect + o \in DataArea /\ sect \in Nat
    <3> HIDE DEF o
    <3> QED BY <1>0, <2>3, PlaceOf
  <2>5. sect + o = i
    <3> HIDE DEF sect
    <3> QED BY <2>4
  <2> QED BY <2>1, <2>2, <2>4, <2>5
<1> HIDE DEF data, sect, full
<1>4. Works(t, w) /\ w.res \in {"FR_OK", "FR_DISK_ERR"}
  BY <1>3, DataWrite DEF Writable
<1> HIDE DEF w
<1>5. /\ Good(w) /\ Goes(t, w) /\ w.fp = t.fp /\ w.out = t.out
  BY <1>4, WorksGoes DEF Works
<1>6. fl \in SUBSET Flags /\ fl \subseteq w.fp.flag /\ "dirty" \notin fl
  <2>1. w.fp.flag \in SUBSET Flags
    BY <1>0, <1>5, ObjectTypes
  <2> QED BY <2>1
<1> HIDE DEF fl
<1>7. /\ Goes(w, b) /\ b.fp.fptr = t.fp.fptr /\ b.fp.objsize = t.fp.objsize
      /\ b.fp.flag \subseteq w.fp.flag /\ b.fp.sect = t.fp.sect /\ b.fp.open = t.fp.open
      /\ b.fp.dir_sect = t.fp.dir_sect /\ b.out = t.out
  <2> DEFINE y == Buffered(w, full, fl)
  <2>1. /\ Goes(w, y) /\ y.fp.fptr = t.fp.fptr /\ y.fp.objsize = t.fp.objsize
      /\ y.fp.flag = fl /\ y.fp.sect = t.fp.sect /\ y.fp.open = t.fp.open
      /\ y.fp.dir_sect = t.fp.dir_sect /\ y.out = t.out
    BY <1>1, <1>5, <1>6, BufferSet
  <2> HIDE DEF y
  <2>2. b \in {y, w}
    BY DEF y
  <2> HIDE DEF b
  <2>3. Goes(w, w)
    BY <1>5, SelfWorks, WorksGoes
  <2> QED BY <1>5, <1>6, <2>1, <2>2, <2>3
<1> HIDE DEF b
<1>8. k \in Nat /\ (t.fp.fptr + k) % SS = 0
  BY <1>0, Aligned
<1> HIDE DEF k
<1>9. Good(b) /\ Pinned(b.fp) /\ b.fp.fptr <= b.fp.objsize
  BY <1>5, <1>7 DEF Goes, Pinned, Writable, Sane
<1>10. Goes(b, u) /\ Sane(u.fp) /\ u.fp.fptr = b.fp.fptr + k /\ u.out = b.out
  BY <1>7, <1>8, <1>9, Advance
<1> HIDE DEF u
<1>11. Goes(t, u) /\ u.fp.fptr <= to
  <2>1. Goes(t, u)
    BY <1>5, <1>7, <1>10, GoesTrans
  <2> QED BY <1>7, <1>10, <2>1 DEF k
<1>12. WriteTo(t, u, to)
  BY <1>7, <1>10, <1>11 DEF WriteTo
<1>13. WriteTo(t, w, to)
  BY <1>5 DEF WriteTo, Writable
<1> QED BY <1>2, <1>12, <1>13

-----------------------------------------------------------------------------
(* A write through the buffer, and f_write. *)

(* write_buffered writes to the buffer, up to the end of its sector. *)
LEMMA WriteBuffered ==
  ASSUME NEW t, NEW to, Writable(t, to), t.fp.fptr % SS = 0 => clst2sect(t.fp.clust) # 0,
         NEW x, x \in Nat, NEW n, n \in Nat, t.fp.fptr + n <= to
  PROVE  WriteTo(t, write_buffered(t, x, n), to)
<1> DEFINE at == t.fp.fptr % SS
           sect == Sect(t)
           old == at = 0 /\ t.fp.sect # sect /\ t.fp.fptr < t.fp.objsize
           r == IF old THEN fill_buf(t, sect) ELSE Ret(t, "FR_OK")
           l == IF r.res = "FR_OK" THEN IF at = 0 THEN [r EXCEPT !.fp.sect = sect] ELSE r ELSE r
           cnt == Least(n, SS - at)
           b == [i \in Units |-> IF i \in at .. at + cnt - 1 THEN x ELSE l.fp.buf[i]]
           fl == l.fp.flag \cup {"dirty"}
           y == Buffered(l, b, fl)
           u == advance(y, cnt)
<1>1. t.fp \in Objects /\ t \in States /\ Good(t) /\ t.fp.fptr \in Nat /\ t.fp.objsize \in Nat
  BY ObjectTypes DEF Good, States, Writable
<1>2. write_buffered(t, x, n) = IF l.res = "FR_OK" THEN u ELSE l
  <2>1. write_buffered(t, x, n)
        = IF l.res = "FR_OK" THEN advance([l EXCEPT !.fp.buf = b, !.fp.flag = fl], cnt) ELSE l
    BY DEF write_buffered, Then
  <2>2. y = [l EXCEPT !.fp.buf = b, !.fp.flag = fl]
    <3> HIDE DEF l, b, fl
    <3> QED BY DEF Buffered
  <2> HIDE DEF l, b, fl, y, cnt
  <2> QED BY <2>1, <2>2
<1>3. at = 0 => sect \in DataArea
  BY <1>1, PlaceOf
<1> HIDE DEF sect
<1>4. /\ Goes(t, r) /\ Sane(r.fp) /\ r.fp.fptr = t.fp.fptr /\ r.fp.objsize = t.fp.objsize
      /\ r.fp.sect = t.fp.sect /\ r.out = t.out
  <2>1. CASE old
    <3> DEFINE z == fill_buf(t, sect)
    <3>1. Filled(t, z)
      BY <1>1, <1>3, <2>1, FillBuf
    <3>2. r = z
      BY <2>1
    <3> HIDE DEF z, r
    <3>3. SameFile(t.fp, z.fp) /\ Sane(z.fp)
      BY <3>1, SameSane DEF Filled, Writable
    <3> QED BY <3>1, <3>2, <3>3 DEF Filled, SameFile
  <2>2. CASE ~old
    <3> DEFINE z == Ret(t, "FR_OK")
    <3>1. Works(t, z)
      BY <1>1, RetWorks DEF Results
    <3>2. r = z
      BY <2>2
    <3> HIDE DEF z, r
    <3> QED BY <3>1, <3>2, WorksGoes DEF Writable
  <2> QED BY <2>1, <2>2
<1> HIDE DEF r
<1>5. /\ Goes(t, l) /\ Sane(l.fp) /\ l.fp.fptr = t.fp.fptr /\ l.fp.objsize = t.fp.objsize
      /\ l.out = t.out /\ (l.res = "FR_OK" => l.fp.sect \in DataArea)
  <2>1. CASE r.res = "FR_OK" /\ at = 0
    <3> DEFINE z == [r EXCEPT !.fp.sect = sect]
    <3>1. /\ Goes(r, z) /\ Sane(z.fp) /\ z.fp.sect = sect /\ z.fp.fptr = r.fp.fptr
          /\ z.fp.objsize = r.fp.objsize /\ z.out = r.out
      BY <1>3, <1>4, <2>1, SectSet DEF Goes
    <3>2. l = z
      BY <2>1
    <3> HIDE DEF z, l, at
    <3>3. Goes(t, z)
      BY <1>4, <3>1, GoesTrans
    <3> QED BY <1>3, <1>4, <2>1, <3>1, <3>2, <3>3
  <2>2. CASE ~(r.res = "FR_OK" /\ at = 0)
    <3>1. l = r
      BY <2>2
    <3>2. at # 0 => t.fp.sect \in DataArea
      BY DEF Writable, Sane
    <3> HIDE DEF l, at
    <3> QED BY <1>4, <2>2, <3>1, <3>2
  <2> QED BY <2>1, <2>2
<1> HIDE DEF l
<1>6. Good(l) /\ l.fp.buf \in [Units -> Nat] /\ fl \in SUBSET Flags
  <2>1. Good(l) /\ l.fp \in Objects
    BY <1>5 DEF Goes, Good, States
  <2> QED BY <2>1, ObjectTypes DEF Flags
<1>7. cnt \in Nat /\ cnt <= n
  <2> DEFINE k == SS - at
  <2>1. k \in Nat
    BY <1>1, DivMod, Sectors
  <2> HIDE DEF k
  <2>2. Least(n, k) \in Nat /\ Least(n, k) <= n
    BY <2>1, LeastOf
  <2> QED BY <2>2 DEF k
<1> HIDE DEF cnt
<1>8. b \in [Units -> Nat]
  BY <1>6
<1> HIDE DEF b, at
<1>9. CASE l.res = "FR_OK"
  <2>1. /\ Goes(l, y) /\ y.out = l.out /\ y.fp.fptr = l.fp.fptr
        /\ y.fp.objsize = l.fp.objsize /\ y.fp.flag = fl /\ y.fp.sect = l.fp.sect
        /\ y.fp.open = l.fp.open /\ y.fp.dir_sect = l.fp.dir_sect
    BY <1>6, <1>8, BufferSet
  <2> HIDE DEF y, fl
  <2>2. Good(y) /\ Pinned(y.fp) /\ y.fp.fptr <= y.fp.objsize /\ y.fp.sect \in DataArea
    BY <1>5, <1>9, <2>1 DEF Goes, Pinned, Sane
  <2>3. Goes(y, u) /\ Sane(u.fp) /\ u.fp.fptr = y.fp.fptr + cnt /\ u.out = y.out
    BY <1>7, <2>2, Advance
  <2> HIDE DEF u
  <2>4. Goes(t, u)
    BY <1>5, <2>1, <2>3, GoesTrans
  <2>5. u.fp.fptr <= to
    BY <1>1, <1>5, <1>7, <2>1, <2>3 DEF Writable
  <2> QED BY <1>2, <1>5, <1>9, <2>1, <2>3, <2>4, <2>5 DEF WriteTo
<1>10. CASE l.res # "FR_OK"
  BY <1>2, <1>5, <1>10 DEF WriteTo, Writable
<1> QED BY <1>9, <1>10

(* write_some writes one stretch and does not pass the position to. *)
LEMMA WriteSome ==
  ASSUME NEW t, NEW to, Writable(t, to), NEW x, x \in Nat, NEW n, n \in Nat, t.fp.fptr + n <= to
  PROVE  WriteTo(t, write_some(t, x, n), to)
<1> DEFINE a == write_cluster(t)
           f == flush_buf(a)
           s == IF t.fp.fptr % SS # 0 THEN t ELSE IF a.res = "FR_OK" THEN f ELSE a
           w == Whole(s, n)
           u == write_some(t, x, n)
<1> SUFFICES WriteTo(t, u, to)
  OBVIOUS
<1>0. Good(t) /\ t.fs.fs_type # 0 /\ Sane(t.fp)
  BY DEF Writable
<1>1. u = IF s.res # "FR_OK" THEN s
          ELSE IF s.fp.fptr % SS = 0 /\ clst2sect(s.fp.clust) = 0 THEN Ret(s, "FR_INT_ERR")
          ELSE IF s.fp.fptr % SS = 0 /\ w > 0 THEN write_direct(s, x, w)
          ELSE write_buffered(s, x, n)
  BY DEF write_some, Then
<1>2. Clustered(t, a)
  BY <1>0, WriteCluster
<1> HIDE DEF u, a
<1>3. Good(a) /\ a.fs.fs_type # 0 /\ Sane(a.fp) /\ Goes(t, a) /\ SameFile(t.fp, a.fp) /\ a.out = t.out
  BY <1>0, <1>2, SameSane DEF Clustered, Goes
<1>4. Flushed(a, f)
  BY <1>3, FlushBuf, SaneOK
<1> HIDE DEF f
<1>5. Goes(t, f) /\ SameFile(t.fp, f.fp) /\ f.out = t.out
  BY <1>3, <1>4, GoesTrans DEF Flushed, SameFile
<1>6. Goes(t, s) /\ SameFile(t.fp, s.fp) /\ s.out = t.out
  <2>1. Goes(t, t) /\ SameFile(t.fp, t.fp)
    BY <1>0, SelfWorks, WorksGoes DEF SameFile
  <2> QED BY <1>3, <1>5, <2>1
<1> HIDE DEF s
<1>7. Writable(s, to) /\ Good(s) /\ s.fp.fptr = t.fp.fptr
  BY <1>6, SameSane DEF Writable, Goes, SameFile
<1>8. ASSUME WriteTo(s, u, to) PROVE WriteTo(t, u, to)
  BY <1>6, <1>8, WriteToTrans
<1>9. CASE u = s
  BY <1>6, <1>7, <1>9 DEF WriteTo, Writable
<1>10. CASE u = Ret(s, "FR_INT_ERR")
  <2>1. Works(s, u)
    BY <1>7, <1>10, RetWorks DEF Results
  <2>2. Goes(s, u) /\ u.fp = s.fp /\ u.out = s.out
    BY <2>1, WorksGoes
  <2>3. WriteTo(s, u, to)
    BY <1>7, <2>2 DEF WriteTo, Writable
  <2> QED BY <1>8, <2>3
<1>11. CASE u = write_direct(s, x, w) /\ s.fp.fptr % SS = 0 /\ clst2sect(s.fp.clust) # 0
  <2>1. w \in Nat /\ w <= Csize - Csect(s) /\ SS * w <= n /\ SS * w \in Nat
    BY <1>7, WholeOf
  <2> HIDE DEF w
  <2>2. s.fp.fptr + SS * w <= to
    <3>1. s.fp.fptr \in Nat /\ to \in Nat
      BY <1>7, ObjectTypes DEF Good, States, Writable
    <3> QED BY <1>7, <2>1, <3>1
  <2> QED BY <1>7, <1>8, <1>11, <2>1, <2>2, WriteDirect
<1>12. CASE u = write_buffered(s, x, n) /\ (s.fp.fptr % SS = 0 => clst2sect(s.fp.clust) # 0)
  BY <1>7, <1>8, <1>12, WriteBuffered
<1> QED BY <1>1, <1>9, <1>10, <1>11, <1>12

(* write_on takes one turn of the loop of f_write. *)
LEMMA WriteOn ==
  ASSUME NEW t, NEW to, Writable(t, to), NEW x, x \in Nat
  PROVE  WriteTo(t, write_on(t, x, to), to)
<1> DEFINE n == to - t.fp.fptr
           r == write_some(t, x, n)
           a == Abort(r)
<1>1. Good(t) /\ t.fp.fptr \in Nat /\ n \in Nat /\ t.fp.fptr + n <= to
  <2>1. t.fp.fptr \in Nat /\ Good(t) /\ to \in Nat /\ t.fp.fptr <= to
    BY ObjectTypes DEF Writable, Good, States
  <2> QED BY <2>1
<1>2. write_on(t, x, to) = IF t.fp.fptr = to THEN t
                           ELSE IF r.res = "full" THEN Ret(r, "FR_OK")
                           ELSE IF r.res = "FR_OK" THEN More(r) ELSE a
  BY DEF write_on, Upon
<1> HIDE DEF n
<1>3. WriteTo(t, r, to)
  BY <1>1, WriteSome
<1> HIDE DEF r
<1>4. Good(r)
  BY <1>3 DEF WriteTo, Goes
<1>5. ASSUME NEW y, y \in Results PROVE WriteTo(t, Ret(r, y), to)
  <2> DEFINE v == Ret(r, y)
  <2>1. Works(r, v)
    BY <1>4, <1>5, RetWorks
  <2> HIDE DEF v
  <2>2. Goes(r, v) /\ v.fp = r.fp /\ v.out = r.out
    BY <2>1, WorksGoes
  <2>3. Goes(t, v)
    BY <1>3, <2>2, GoesTrans DEF WriteTo
  <2>4. WriteTo(t, v, to)
    BY <1>3, <2>2, <2>3 DEF WriteTo
  <2> QED BY <2>4 DEF v
<1>6. WriteTo(t, Ret(r, "FR_OK"), to) /\ WriteTo(t, More(r), to)
  BY <1>5 DEF More, Results
<1>7. WriteTo(t, a, to)
  <2>1. /\ Goes(r, a) /\ a.out = r.out /\ a.fp.fptr = r.fp.fptr
        /\ a.fp.objsize = r.fp.objsize /\ a.fp.flag = r.fp.flag /\ a.fp.sect = r.fp.sect
        /\ a.fp.open = r.fp.open /\ a.fp.dir_sect = r.fp.dir_sect
    BY <1>4, AbortGoes
  <2> HIDE DEF a
  <2>2. Goes(t, a)
    BY <1>3, <2>1, GoesTrans DEF WriteTo
  <2> QED BY <1>3, <2>1, <2>2 DEF WriteTo, Sane, Pinned
<1>8. WriteTo(t, t, to)
  BY SelfWorks, WorksGoes DEF WriteTo, Writable
<1> QED BY <1>2, <1>6, <1>7, <1>8

(* write_units writes n units at most. *)
LEMMA WriteUnits ==
  ASSUME NEW t, NEW n, n \in Nat, Writable(t, t.fp.fptr + n), NEW d, d \in Nat
  PROVE  WriteTo(t, write_units(t, d, n), t.fp.fptr + n)
<1> DEFINE to == t.fp.fptr + n
           S == {s \in States : WriteTo(t, s, to)}
           k == n + 1
           x == More(t)
           Turn(s) == IF s.res = "more" THEN write_on(Ret(s, "FR_OK"), d, to) ELSE s
           F == [p \in S \X Nat |-> Turn(p[1])]
           Is(g) == g = [i \in 0 .. k |-> IF i = 0 THEN x ELSE Turn(g[i - 1])]
           at == CHOOSE g : Is(g)
<1>0. k \in Nat
  OBVIOUS
<1> HIDE DEF k
<1>t. to \in Nat /\ Writable(t, to)
  BY DEF Writable
<1> HIDE DEF to
<1>1. x \in S
  <2>1. Works(t, x) /\ x \in States
    BY <1>t, RetWorks DEF More, Results, Works, Good, Writable
  <2> HIDE DEF x
  <2>2. WriteTo(t, x, to)
    BY <1>t, <2>1, WorksGoes DEF WriteTo, Writable
  <2> QED BY <2>1, <2>2
<1>2. ASSUME NEW s \in S PROVE Turn(s) \in S
  <2> DEFINE r == Ret(s, "FR_OK")
             u == write_on(r, d, to)
  <2>1. WriteTo(t, s, to) /\ Good(s)
    BY DEF WriteTo, Goes
  <2>2. Works(s, r) /\ Good(r)
    BY <2>1, RetWorks DEF Results, Works
  <2> HIDE DEF r
  <2>3. Goes(s, r) /\ r.fp = s.fp /\ r.out = s.out
    BY <2>2, WorksGoes
  <2>4. Goes(t, r) /\ r.out = t.out
    BY <2>1, <2>3, GoesTrans DEF WriteTo
  <2>5. Writable(r, to)
    BY <1>t, <2>1, <2>2, <2>3, <2>4 DEF WriteTo, Writable, Goes
  <2>6. WriteTo(r, u, to)
    BY <2>5, WriteOn
  <2> HIDE DEF u
  <2>7. WriteTo(t, u, to) /\ u \in States
    BY <2>4, <2>5, <2>6, WriteToTrans DEF WriteTo, Goes, Good
  <2> QED BY <2>7 DEF r, u
<1> HIDE DEF x, Turn, S
<1>3. \A i \in 1 .. k : \A s \in S : F[<<s, i>>] = Turn(s) /\ F[<<s, i>>] \in S
  BY <1>2
<1> HIDE DEF F
<1>4. PICK g : Looped(S, F, x, k, g)
  BY <1>0, <1>1, <1>3, Loop
<1>5. Is(g)
  <2>1. /\ g = [i \in 0 .. k |-> g[i]]
        /\ \A i \in 0 .. k : g[i] = IF i = 0 THEN x ELSE Turn(g[i - 1])
    <3>1. \A i \in 0 .. k : i # 0 => i \in 1 .. k
      BY <1>0
    <3>2. \A i \in 0 .. k : i # 0 => F[<<g[i - 1], i>>] = Turn(g[i - 1])
      BY <1>3, <1>4, <3>1 DEF Looped
    <3> QED BY <1>4, <3>2 DEF Looped
  <2>2. g = [i \in 0 .. k |-> IF i = 0 THEN x ELSE Turn(g[i - 1])]
    BY <2>1
  <2> QED BY <2>2
<1>6. Is(at)
  BY <1>5
<1>7. at[k] \in S
  <2> HIDE DEF at
  <2>1. \A i \in 0 .. k : at[i] = IF i = 0 THEN x ELSE Turn(at[i - 1])
    BY <1>6
  <2>2. at[0] \in S
    BY <1>0, <1>1, <2>1
  <2>3. ASSUME NEW i \in 1 .. k, at[i - 1] \in S PROVE at[i] \in S
    <3>1. i \in 0 .. k /\ i # 0
      BY <1>0
    <3>2. at[i] = Turn(at[i - 1])
      BY <2>1, <3>1
    <3> QED BY <1>2, <2>3, <3>2
  <2> QED BY <1>0, <2>2, <2>3, Stays
<1>8. write_units(t, d, n) = at[k]
  BY DEF write_units, k, to, Repeat, x, Turn
<1> QED BY <1>7, <1>8 DEF S, to

(* Only the flags of the file object change, and it does not become dirty. *)
LEMMA FlagSet ==
  ASSUME NEW t, Good(t), NEW fl, fl \in SUBSET Flags, "dirty" \in fl => "dirty" \in t.fp.flag
  PROVE  LET u == [t EXCEPT !.fp.flag = fl] IN
         /\ Goes(t, u) /\ SameFile(t.fp, u.fp) /\ u.fp.clust = t.fp.clust /\ u.fp.sclust = t.fp.sclust
         /\ u.fp.flag = fl /\ u.out = t.out /\ u.res = t.res /\ u.val = t.val /\ u.fs = t.fs
<1> DEFINE f == [t.fp EXCEPT !.flag = fl]
           u == [t EXCEPT !.fp = f]
<1>1. t \in States /\ t.fp \in Objects
  BY DEF Good, States
<1>2. f \in Objects /\ SameFile(t.fp, f) /\ f.flag = fl /\ f.clust = t.fp.clust /\ f.sclust = t.fp.sclust
  BY <1>1 DEF Objects, SameFile
<1>3. [t EXCEPT !.fp.flag = fl] = u
  BY <1>1 DEF States
<1> HIDE DEF f
<1>4. Goes(t, u) /\ u.fp = f /\ u.out = t.out /\ u.res = t.res /\ u.val = t.val /\ u.fs = t.fs
  BY <1>2, FpSet
<1> HIDE DEF u
<1> QED BY <1>2, <1>3, <1>4

(* f_write keeps the volume and the file object in order. *)
LEMMA FWrite ==
  ASSUME NEW t, Good(t), FileOK(t.fp), NEW x, x \in Nat, NEW n, n \in Nat
  PROVE  Runs(t, f_write(t, x, n))
<1> DEFINE g == granted(t, "write")
           w == write_units(g, x, n)
           fl == w.fp.flag \cup {"modified"}
           u == [w EXCEPT !.fp.flag = fl]
<1>1. /\ Works(t, g)
      /\ g.res = "FR_OK" => t.fp.open /\ t.fs.fs_type # 0 /\ t.fp.err = "FR_OK" /\ Sane(t.fp)
  BY Granted
<1>2. f_write(t, x, n) = IF g.res # "FR_OK" THEN g ELSE IF w.res = "FR_OK" THEN u ELSE w
  BY DEF f_write, Then
<1> HIDE DEF g
<1>3. CASE g.res # "FR_OK"
  BY <1>1, <1>2, <1>3, WorksRuns
<1>4. CASE g.res = "FR_OK"
  <2>1. Goes(t, g) /\ g.fp = t.fp /\ Good(g) /\ g.fp.fptr \in Nat
    BY <1>1, WorksGoes, ObjectTypes DEF Works, Good, States
  <2>2. Writable(g, g.fp.fptr + n)
    BY <1>1, <1>4, <2>1 DEF Writable, Goes
  <2>3. WriteTo(g, w, g.fp.fptr + n)
    BY <2>2, WriteUnits
  <2> HIDE DEF w
  <2>4. Goes(t, w) /\ Sane(w.fp) /\ Good(w)
    BY <2>1, <2>3, GoesTrans DEF WriteTo, Goes
  <2>5. fl \in SUBSET Flags /\ ("dirty" \in fl => "dirty" \in w.fp.flag)
    <3>1. w.fp.flag \in SUBSET Flags
      BY <2>4, ObjectTypes DEF Good, States
    <3> QED BY <3>1 DEF Flags
  <2> HIDE DEF fl
  <2>6. Goes(w, u) /\ SameFile(w.fp, u.fp)
    BY <2>4, <2>5, FlagSet
  <2> HIDE DEF u
  <2>7. Runs(t, u)
    <3>1. Goes(t, u) /\ FileOK(u.fp)
      BY <2>4, <2>6, GoesTrans, SameSane, SaneOK
    <3> QED BY <3>1, GoesRuns
  <2>8. Runs(t, w)
    BY <2>4, GoesRuns, SaneOK
  <2> QED BY <1>2, <1>4, <2>7, <2>8
<1> QED BY <1>3, <1>4

-----------------------------------------------------------------------------
(* f_sync and f_close. *)

(* The file object and the mark of a chain that was cut, set together. *)
Marked(t, f, c) == [t EXCEPT !.fp = f, !.cut = c]

(* Setting these leaves the volume as it is. *)
LEMMA MarkedGoes ==
  ASSUME NEW t, Good(t), NEW f, f \in Objects, NEW c, c \in BOOLEAN
  PROVE  LET u == Marked(t, f, c) IN
         /\ Goes(t, u) /\ u.fp = f /\ u.fs = t.fs /\ u.val = t.val /\ u.res = t.res /\ u.out = t.out
<1> DEFINE u == Marked(t, f, c)
<1>1. t \in States
  BY DEF Good
<1>2. /\ u \in States /\ u.disk = t.disk /\ u.fs = t.fs /\ u.fp = f /\ u.fault = t.fault
      /\ u.val = t.val /\ u.out = t.out /\ u.res = t.res
  BY <1>1 DEF States, Marked
<1> HIDE DEF u
<1>3. Good(u) /\ (Exact(t) => Exact(u))
  BY <1>2 DEF Good, Exact, Neat
<1> QED BY <1>2, <1>3 DEF Goes, u

(* f_sync writes the buffer, the entry and the counters, and keeps the     *)
(* volume in order.                                                        *)
LEMMA FSync ==
  ASSUME NEW t, Good(t), FileOK(t.fp)
  PROVE  Runs(t, f_sync(t))
<1> DEFINE v == validate(t)
           b == flush_buf(v)
           w == move_window(b, b.fp.dir_sect)
           e == EntriesOf(w.fs.win)[w.fp.dir_ptr]
           d == [e EXCEPT !.clust = w.fp.sclust, !.size = w.fp.objsize]
           s == SetSlot(w, w.fp.dir_ptr, d)
           y == sync_fs(s)
           f == [y.fp EXCEPT !.flag = @ \ {"modified"}]
           u == Marked(y, f, y.cut /\ y.res # "FR_OK")
<1>1. f_sync(t) = IF v.res # "FR_OK" \/ "modified" \notin v.fp.flag THEN v
                  ELSE IF b.res # "FR_OK" THEN b
                  ELSE IF w.res # "FR_OK" THEN w ELSE u
  <2>1. f_sync(t) = IF v.res # "FR_OK" \/ "modified" \notin v.fp.flag THEN v
                    ELSE IF b.res # "FR_OK" THEN b
                    ELSE IF w.res # "FR_OK" THEN w
                    ELSE [y EXCEPT !.fp.flag = @ \ {"modified"}, !.cut = @ /\ y.res # "FR_OK"]
    BY DEF f_sync, Then, Upon
  <2>2. u = [y EXCEPT !.fp.flag = @ \ {"modified"}, !.cut = @ /\ y.res # "FR_OK"]
    <3> HIDE DEF y
    <3> QED BY DEF Marked
  <2> HIDE DEF u, y, w, b, v
  <2> QED BY <2>1, <2>2
<1>2. Works(t, v) /\ (v.res = "FR_OK" => t.fp.open /\ t.fs.fs_type # 0)
  BY Validate
<1> HIDE DEF v
<1>3. Good(v) /\ Goes(t, v) /\ v.fp = t.fp /\ Runs(t, v) /\ Pinned(v.fp)
  BY <1>2, WorksGoes, WorksRuns DEF Works, FileOK, Pinned
<1>4. CASE v.res # "FR_OK" \/ "modified" \notin v.fp.flag
  BY <1>1, <1>3, <1>4
<1>5. CASE ~(v.res # "FR_OK" \/ "modified" \notin v.fp.flag)
  <2>1. v.fp.open /\ v.fs.fs_type # 0
    BY <1>2, <1>3, <1>5 DEF Goes
  <2>2. Flushed(v, b)
    BY <1>3, <2>1, FlushBuf
  <2> HIDE DEF b
  <2>3. /\ Good(b) /\ Goes(t, b) /\ SameFile(v.fp, b.fp) /\ b.fs.fs_type # 0
        /\ b.fp.dir_sect \in DataArea /\ b.fp \in Objects
    BY <1>3, <2>1, <2>2, GoesTrans DEF Flushed, Goes, SameFile, Pinned, Good, States
  <2>4. Runs(t, b)
    BY <1>3, <2>3, SamePinned, GoesRuns
  <2>5. b.fp.dir_sect \in Nat
    BY <2>3, ObjectTypes
  <2>6. MoveDone(b, w, b.fp.dir_sect)
    BY <2>3, <2>5, MoveWindow
  <2> HIDE DEF w
  <2>7. Good(w) /\ Goes(t, w) /\ w.fp = b.fp /\ Works(b, w) /\ w.fs.fs_type # 0
    <3>1. Works(b, w)
      BY <2>6 DEF MoveDone
    <3>2. Goes(b, w) /\ w.fp = b.fp
      BY <3>1, WorksGoes
    <3> QED BY <2>3, <3>1, <3>2, GoesTrans DEF Goes
  <2>8. Runs(t, w)
    BY <2>4, <2>7, WorksRuns, RunsTrans
  <2>9. CASE b.res = "FR_OK" /\ w.res = "FR_OK"
    <3>1. w.fs.winsect \in DataArea
      BY <2>3, <2>6, <2>9 DEF MoveDone
    <3>2. w.fp \in Objects /\ w.fp.dir_ptr \in 0 .. DirPerSector - 1 /\ w.fs.win \in Blocks
      BY <2>3, <2>7, ObjectTypes, FsTypes DEF Good
    <3>3. e \in Entries
      BY <3>2, TableType DEF EntryTable
    <3> HIDE DEF e
    <3>4. d \in Entries
      BY <3>2, <3>3, ObjectTypes DEF Entries
    <3> HIDE DEF d
    <3>5. SlotDone(w, s)
      BY <2>7, <3>1, <3>2, <3>4, SetSlotWorks
    <3> HIDE DEF s
    <3>6. Works(w, s) /\ Good(s) /\ s.fs.fs_type # 0
      BY <2>7, <3>5 DEF SlotDone, Works
    <3>7. SyncFsDone(s, y)
      BY <3>6, SyncFs
    <3> HIDE DEF y
    <3>8. Works(w, y)
      BY <3>6, <3>7, WorksTrans DEF SyncFsDone
    <3>9. Goes(w, y) /\ y.fp = w.fp /\ Good(y) /\ y.fp \in Objects
      BY <3>2, <3>8, WorksGoes DEF Works
    <3>10. f \in Objects /\ SameFile(y.fp, f)
      BY <3>9 DEF Objects, SameFile
    <3> HIDE DEF f
    <3>11. Goes(y, u) /\ u.fp = f
      <4> DEFINE c == y.cut /\ y.res # "FR_OK"
      <4>1. c \in BOOLEAN
        OBVIOUS
      <4> HIDE DEF c
      <4>2. Goes(y, Marked(y, f, c)) /\ Marked(y, f, c).fp = f
        BY <3>9, <3>10, <4>1, MarkedGoes
      <4> QED BY <4>2 DEF c
    <3> HIDE DEF u
    <3>12. Goes(t, u)
      BY <2>7, <3>9, <3>11, GoesTrans
    <3>13. FileOK(u.fp)
      <4>1. FileOK(b.fp)
        BY <1>3, <2>3, SamePinned
      <4> QED BY <4>1, <2>7, <3>9, <3>10, <3>11, SamePinned
    <3>14. Runs(t, u)
      BY <3>12, <3>13, GoesRuns
    <3> QED BY <1>1, <1>5, <2>9, <3>14
  <2> QED BY <1>1, <1>5, <2>4, <2>8, <2>9
<1> QED BY <1>4, <1>5

(* 0 is the start of a sector. *)
LEMMA ZeroAligned == 0 % SS = 0
<1> DEFINE z == 0
<1>1. z \in Nat
  OBVIOUS
<1> HIDE DEF z
<1>2. z % SS \in 0 .. SS - 1 /\ z = SS * (z \div SS) + (z % SS) /\ z \div SS \in Nat
  BY <1>1, DivMod, Sectors
<1>3. SS * (z \div SS) \in Nat
  BY <1>2, Sectors, Distributes
<1>4. z % SS = 0
  BY <1>2, <1>3, Sectors DEF z
<1> QED BY <1>4 DEF z

(* The closed file object is in order. *)
LEMMA ClosedOK == Closed \in Objects /\ FileOK(Closed) /\ Closed.flag = {} /\ Closed.err = "FR_OK"
<1>1. NoBuf \in [Units -> Nat]
  BY DEF NoBuf
<1>2. Closed \in Objects
  <2> HIDE DEF NoBuf
  <2>1. 0 \in 0 .. DirPerSector - 1 /\ {} \in SUBSET Flags /\ "FR_OK" \in Results
    BY Sectors DEF Results
  <2> QED BY <1>1, <2>1 DEF Closed, Objects
<1> QED BY <1>2, ZeroAligned DEF Closed, FileOK

(* So is the state after the file object is closed. *)
LEMMA FpClosed ==
  ASSUME NEW t, Good(t)
  PROVE  Runs(t, [t EXCEPT !.fp = Closed])
<1>1. Goes(t, [t EXCEPT !.fp = Closed]) /\ [t EXCEPT !.fp = Closed].fp = Closed
  BY FpSet, ClosedOK
<1> QED BY <1>1, ClosedOK, GoesRuns

(* f_close keeps the volume in order, whether it closes the file or not. *)
LEMMA FClose ==
  ASSUME NEW t, Good(t), FileOK(t.fp)
  PROVE  Runs(t, f_close(t))
<1> DEFINE s == f_sync(t)
           u == [s EXCEPT !.fp = Closed]
<1>1. f_close(t) = IF s.res = "FR_OK" THEN u ELSE s
  BY DEF f_close, Then
<1>2. Runs(t, s)
  BY FSync
<1> HIDE DEF s
<1>3. Runs(s, u)
  BY <1>2, FpClosed DEF Runs
<1> QED BY <1>1, <1>2, <1>3, RunsTrans

-----------------------------------------------------------------------------
(* A seek over one cluster. *)

(* The offset in a sector does not depend on whole sectors before. *)
LEMMA OffsetIn ==
  ASSUME NEW p, p \in Nat, p % SS = 0, NEW q, q \in Nat
  PROVE  (p + q) % SS = q % SS
<1> DEFINE a == p \div SS
           b == q \div SS
           r == q % SS
<1>1. SS \in Nat /\ SS > 0
  BY Sectors
<1>2. a \in Nat /\ p = SS * a + (p % SS)
  BY <1>1, DivMod
<1>3. b \in Nat /\ q = SS * b + r /\ r \in 0 .. SS - 1
  BY <1>1, DivMod
<1> HIDE DEF a, b, r
<1>4. SS * (a + b) = SS * a + SS * b /\ SS * a \in Nat /\ SS * b \in Nat
  BY <1>1, <1>2, <1>3, Distributes
<1>5. p + q = SS * (a + b) + r /\ p + q \in Nat /\ a + b \in Nat
  BY <1>2, <1>3, <1>4
<1> DEFINE m == p + q
           n == a + b
<1>6. m = SS * n + r /\ m \in Nat /\ n \in Nat
  BY <1>5
<1> HIDE DEF m, n
<1>7. m % SS = r
  BY <1>1, <1>3, <1>6, DivUnique
<1> QED BY <1>7 DEF m, r

(* A cluster is whole sectors. *)
LEMMA ClusterBytes ==
  /\ Csize * SS \in Nat /\ Csize * SS > 0 /\ Csize * SS = SS * Csize
  /\ \A k \in Nat : k * (Csize * SS) \in Nat /\ (k * (Csize * SS)) % SS = 0
<1>1. SS \in Nat /\ SS > 0 /\ Csize \in Nat /\ Csize > 0
  BY Sectors
<1>2. Csize * SS \in Nat /\ Csize * SS > 0 /\ Csize * SS = SS * Csize
  BY <1>1
<1>3. ASSUME NEW k \in Nat PROVE k * (Csize * SS) \in Nat /\ (k * (Csize * SS)) % SS = 0
  <2> DEFINE n == k * Csize
             z == 0
  <2>1. n \in Nat /\ k * (Csize * SS) = SS * n /\ SS * n \in Nat
    BY <1>1
  <2> HIDE DEF n
  <2>2. z \in Nat /\ z % SS = 0
    BY ZeroAligned
  <2> HIDE DEF z
  <2>3. (z + SS * n) % SS = 0
    BY <2>1, <2>2, Aligned
  <2>4. z + SS * n = SS * n
    BY <2>1 DEF z
  <2> QED BY <2>1, <2>3, <2>4
<1> QED BY <1>2, <1>3

(* Setting the file pointer leaves the volume as it is. *)
LEMMA FptrSet ==
  ASSUME NEW t, Good(t), NEW p, p \in Nat
  PROVE  LET u == [t EXCEPT !.fp.fptr = p] IN
         /\ Goes(t, u) /\ u.fp.fptr = p /\ (Pinned(t.fp) => Pinned(u.fp)) /\ u.res = t.res
         /\ u.fp.sclust = t.fp.sclust /\ u.fp.clust = t.fp.clust /\ u.fp.flag = t.fp.flag
         /\ u.val = t.val /\ u.fp.err = t.fp.err
<1> DEFINE f == [t.fp EXCEPT !.fptr = p]
           u == [t EXCEPT !.fp = f]
<1>1. t \in States /\ t.fp \in Objects
  BY DEF Good, States
<1>2. /\ f \in Objects /\ f.fptr = p /\ (Pinned(t.fp) => Pinned(f)) /\ f.sclust = t.fp.sclust
      /\ f.clust = t.fp.clust /\ f.flag = t.fp.flag /\ f.err = t.fp.err
  BY <1>1 DEF Objects, Pinned
<1>3. [t EXCEPT !.fp.fptr = p] = u
  BY <1>1 DEF States
<1> HIDE DEF f
<1>4. Goes(t, u) /\ u.fp = f /\ u.res = t.res /\ u.val = t.val
  BY <1>2, FpSet
<1> HIDE DEF u
<1> QED BY <1>2, <1>3, <1>4

(* f_lseek on its way: t.val is the sector of the position. *)
Seeks(t, u) ==
  /\ Goes(t, u) /\ Pinned(u.fp)
  /\ u.res = "more" => u.fp.fptr % SS = 0
  /\ u.res = "FR_OK" /\ u.fp.fptr % SS # 0 => u.val \in DataArea

(* A seek goes on after a step of it. *)
LEMMA SeeksTrans ==
  ASSUME NEW t, NEW u, NEW v, Goes(t, u), Seeks(u, v)
  PROVE  Seeks(t, v)
  BY GoesTrans DEF Seeks

(* The position that the sector of t.val is for. *)
Here(t, p, x) == [t EXCEPT !.fp = [t.fp EXCEPT !.fptr = p], !.val = x]

(* Setting the position and its sector leaves the volume as it is. *)
LEMMA HereSet ==
  ASSUME NEW t, Good(t), Pinned(t.fp), NEW p, p \in Nat, NEW x, x \in Nat
  PROVE  LET u == Here(t, p, x) IN
         Goes(t, u) /\ Pinned(u.fp) /\ u.fp.fptr = p /\ u.val = x /\ u.res = t.res
<1> DEFINE f == [t.fp EXCEPT !.fptr = p]
           v == [t EXCEPT !.fp = f]
           u == Val(v, x)
<1>1. t \in States /\ t.fp \in Objects
  BY DEF Good, States
<1>2. /\ f \in Objects /\ f.fptr = p /\ Pinned(f)
  BY <1>1 DEF Objects, Pinned
<1>3. Here(t, p, x) = u
  BY <1>1 DEF States, Here, Val
<1> HIDE DEF f
<1>4. Goes(t, v) /\ v.fp = f /\ v.res = t.res /\ Good(v)
  BY <1>2, FpSet DEF Goes
<1> HIDE DEF v
<1>5. Works(v, u) /\ u.val = x /\ u.res = v.res
  BY <1>4, ValWorks
<1> HIDE DEF u
<1>6. Goes(v, u) /\ u.fp = v.fp
  BY <1>5, WorksGoes
<1> QED BY <1>2, <1>3, <1>4, <1>5, <1>6, GoesTrans

(* The sector of a position inside a cluster is in the data area. *)
LEMMA SectorAt ==
  ASSUME NEW c, clst2sect(c) # 0, NEW q, q \in Nat, q <= Csize * SS, q % SS # 0
  PROVE  clst2sect(c) + (q \div SS) \in DataArea
<1>1. q # Csize * SS
  <2> DEFINE k == 1
  <2>1. k \in Nat
    OBVIOUS
  <2> HIDE DEF k
  <2>2. (k * (Csize * SS)) % SS = 0
    BY <2>1, ClusterBytes
  <2>3. k * (Csize * SS) = Csize * SS
    BY ClusterBytes DEF k
  <2> QED BY <2>2, <2>3
<1>2. q < SS * Csize /\ SS \in Nat /\ SS > 0 /\ Csize \in Nat
  BY <1>1, ClusterBytes, Sectors
<1> DEFINE o == q \div SS
<1>3. o \in Nat /\ o < Csize
  BY <1>2, DivMod, DivBound
<1> HIDE DEF o
<1>4. o \in 0 .. Csize - 1
  BY <1>2, <1>3
<1>5. c \in Clusters
  BY NoCluster
<1> QED BY <1>4, <1>5, ClusterSectors DEF o

(* seek_cluster goes one cluster on, stretching the chain when the file    *)
(* may be written, and does not pass the position to.                      *)
LEMMA SeekCluster ==
  ASSUME NEW t, Good(t), t.fs.fs_type # 0, Pinned(t.fp), t.fp.fptr % SS = 0,
         NEW to, to \in Nat, t.fp.fptr <= to
  PROVE  Seeks(t, seek_cluster(t, to)) /\ (seek_cluster(t, to).res = "more" =>
                                             seek_cluster(t, to).fp.fptr <= to)
<1> DEFINE bcs == Csize * SS
           c == t.fp.clust
           ofs == to - t.fp.fptr
           p == t.fp.fptr + bcs
           e == t.fp.fptr + ofs
           x == IF ofs % SS # 0 THEN clst2sect(c) + (ofs \div SS) ELSE 0
           m == [t EXCEPT !.fp.fptr = p]
           here == Here(t, e, x)
           h == Ret(here, IF ofs % SS # 0 /\ clst2sect(c) = 0 THEN "FR_INT_ERR" ELSE "FR_OK")
           wr == "write" \in t.fp.flag
           g == IF wr THEN create_chain(m, c) ELSE get_fat(m, c)
           a == [g EXCEPT !.fp.clust = g.val]
           u == seek_cluster(t, to)
<1> SUFFICES Seeks(t, u) /\ (u.res = "more" => u.fp.fptr <= to)
  OBVIOUS
<1>1. t.fp \in Objects /\ t.fp.fptr \in Nat /\ t.fp.clust \in Nat
  BY ObjectTypes DEF Good, States
<1>2. bcs \in Nat /\ p \in Nat /\ ofs \in Nat /\ e = to /\ t.fp.fptr + ofs = to
  BY <1>1, ClusterBytes
<1>3. u = IF ofs <= bcs THEN h
          ELSE IF g.val = 0 /\ wr THEN Ret(Val(g, 0), "FR_OK")
          ELSE IF g.val = Ones THEN Ret(g, "FR_DISK_ERR")
          ELSE IF g.val \notin Clusters THEN Ret(g, "FR_INT_ERR")
          ELSE More(a)
  <2>1. here = [t EXCEPT !.fp.fptr = @ + ofs,
                         !.val = IF ofs % SS # 0 THEN clst2sect(c) + (ofs \div SS) ELSE 0]
    <3>1. t \in States
      BY DEF Good
    <3> HIDE DEF ofs, e, c
    <3>2. here = [t EXCEPT !.fp.fptr = e, !.val = x]
      BY <3>1 DEF States, Here
    <3> QED BY <3>2 DEF e
  <2>2. u = IF ofs <= bcs THEN h
            ELSE IF g.val = 0 /\ wr THEN Ret(Val(g, 0), "FR_OK")
            ELSE IF g.val = Ones THEN Ret(g, "FR_DISK_ERR")
            ELSE IF g.val \notin Clusters THEN Ret(g, "FR_INT_ERR")
            ELSE More(a)
    <3> HIDE DEF here
    <3> QED BY <2>1 DEF seek_cluster, Upon
  <2> QED BY <2>2
<1> HIDE DEF u
<1>4. CASE ofs <= bcs
  <2>1. x \in Nat /\ (ofs % SS # 0 /\ clst2sect(c) # 0 => x \in DataArea)
    <3>1. ASSUME ofs % SS # 0, clst2sect(c) # 0 PROVE x \in DataArea
      <4>1. clst2sect(c) + (ofs \div SS) \in DataArea
        BY <1>2, <1>4, <3>1, SectorAt
      <4> QED BY <3>1, <4>1
    <3>2. ofs \div SS \in Nat
      BY <1>2, DivMod, Sectors
    <3>3. clst2sect(c) \in Nat
      BY ClusterSectors, NoCluster, Sectors DEF clst2sect, Clusters
    <3> QED BY <3>1, <3>2, <3>3
  <2> HIDE DEF x
  <2>2. e % SS = ofs % SS /\ e \in Nat
    <3>1. (t.fp.fptr + ofs) % SS = ofs % SS
      BY <1>1, <1>2, OffsetIn
    <3> QED BY <1>2, <3>1
  <2> HIDE DEF e, m, g, a, ofs
  <2>n. x \in Nat /\ e \in Nat
    BY <2>1, <2>2
  <2>3. Goes(t, here) /\ Pinned(here.fp) /\ here.fp.fptr = e /\ here.val = x
    <3>1. Goes(t, here)
      BY <2>n, HereSet
    <3>2. Pinned(here.fp)
      BY <2>n, HereSet
    <3>3. here.val = x
      BY <2>n, HereSet
    <3>4. here.fp.fptr = e
      BY <2>n, HereSet
    <3> QED BY <3>1, <3>2, <3>3, <3>4
  <2> HIDE DEF here
  <2> DEFINE r == IF ofs % SS # 0 /\ clst2sect(c) = 0 THEN "FR_INT_ERR" ELSE "FR_OK"
  <2>4. r \in Results /\ r # "more" /\ (r = "FR_OK" => ofs % SS = 0 \/ clst2sect(c) # 0) /\ h = Ret(here, r)
    BY DEF Results
  <2> HIDE DEF r, h
  <2>5. Works(here, h) /\ h.val = x /\ h.res = r
    BY <2>3, <2>4, RetWorks DEF Goes
  <2>6. Goes(t, h) /\ h.fp = here.fp
    BY <2>3, <2>5, WorksGoes, GoesTrans
  <2>7. Seeks(t, h) /\ h.res # "more"
    BY <2>1, <2>2, <2>3, <2>4, <2>5, <2>6 DEF Seeks
  <2> QED BY <1>3, <1>4, <2>7
<1>5. CASE ~(ofs <= bcs)
  <2>1. p <= to /\ p % SS = 0
    <3>1. p <= to
      BY <1>1, <1>2, <1>5
    <3> DEFINE k == 1
    <3>2. k \in Nat
      OBVIOUS
    <3> HIDE DEF k
    <3>3. (k * (Csize * SS)) % SS = 0
      BY <3>2, ClusterBytes
    <3>4. k * (Csize * SS) = bcs
      BY ClusterBytes DEF k
    <3>5. p % SS = 0
      BY <1>1, <1>2, <3>3, <3>4, OffsetIn
    <3> QED BY <3>1, <3>5
  <2> HIDE DEF p
  <2>2. Goes(t, m) /\ Good(m) /\ Pinned(m.fp) /\ m.fp.fptr = p /\ m.fs.fs_type # 0
    BY <1>2, FptrSet DEF Goes
  <2> HIDE DEF m, wr, c, u
  <2>3. Works(m, g) /\ g.val \in Nat
    <3>1. CASE wr
      <4> DEFINE y == create_chain(m, c)
      <4>1. ChainDone(m, y)
        BY <1>1, <2>2, CreateChain DEF c
      <4>2. g = y
        BY <3>1
      <4> HIDE DEF y, g
      <4> QED BY <4>1, <4>2, CodesNat DEF ChainDone
    <3>2. CASE ~wr
      <4> DEFINE y == get_fat(m, c)
      <4>1. GetDone(m, y, c)
        BY <2>2, GetFat
      <4>2. g = y
        BY <3>2
      <4> HIDE DEF y, g
      <4> QED BY <4>1, <4>2 DEF GetDone
    <3> QED BY <3>1, <3>2
  <2> HIDE DEF g
  <2>4. Goes(t, g) /\ Good(g) /\ g.fp = m.fp
    BY <2>2, <2>3, WorksGoes, GoesTrans DEF Goes
  <2>5. ASSUME NEW v, Goes(t, v), v.fp.fptr = p, Pinned(v.fp)
        PROVE  Seeks(t, v) /\ v.fp.fptr <= to
    BY <2>1, <2>5 DEF Seeks
  <2>6. ASSUME NEW v, Good(v), Goes(t, v), v.fp.fptr = p, Pinned(v.fp), NEW r, r \in Results
        PROVE  Seeks(t, Ret(v, r)) /\ Ret(v, r).fp.fptr <= to
    <3> DEFINE y == Ret(v, r)
    <3>1. Works(v, y)
      BY <2>6, RetWorks
    <3> HIDE DEF y
    <3>2. Goes(t, y) /\ y.fp = v.fp
      BY <2>6, <3>1, WorksGoes, GoesTrans
    <3>3. Seeks(t, y) /\ y.fp.fptr <= to
      BY <2>5, <2>6, <3>2
    <3> QED BY <3>3 DEF y
  <2>7. Good(Val(g, 0)) /\ Goes(t, Val(g, 0)) /\ Val(g, 0).fp = g.fp
    <3> DEFINE y == Val(g, 0)
    <3>1. Works(g, y)
      BY <2>4, ValWorks
    <3> HIDE DEF y
    <3>2. Good(y) /\ Goes(t, y) /\ y.fp = g.fp
      BY <2>4, <3>1, WorksGoes, GoesTrans DEF Goes
    <3> QED BY <3>2 DEF y
  <2>8. Good(a) /\ Goes(t, a) /\ SameFile(g.fp, a.fp) /\ a.fp.flag = g.fp.flag
    <3>1. Goes(g, a) /\ SameFile(g.fp, a.fp) /\ a.fp.flag = g.fp.flag
      BY <2>3, <2>4, ClustSet
    <3> HIDE DEF a
    <3> QED BY <2>4, <3>1, GoesTrans DEF Goes
  <2>9. Pinned(a.fp) /\ a.fp.fptr = p
    BY <2>2, <2>4, <2>8, SamePinned DEF SameFile
  <2>10. {"FR_OK", "FR_DISK_ERR", "FR_INT_ERR", "more"} \subseteq Results
    BY DEF Results
  <2> HIDE DEF a
  <2>11. u \in {Ret(Val(g, 0), "FR_OK"), Ret(g, "FR_DISK_ERR"), Ret(g, "FR_INT_ERR"), Ret(a, "more")}
    BY <1>3, <1>5 DEF More
  <2> QED BY <2>2, <2>4, <2>6, <2>7, <2>8, <2>9, <2>10, <2>11
<1> QED BY <1>4, <1>5

-----------------------------------------------------------------------------
(* A seek to its position. *)

(* seek_clusters goes on to the cluster of the position. *)
LEMMA SeekClusters ==
  ASSUME NEW t, Good(t), t.fs.fs_type # 0, Pinned(t.fp), t.fp.fptr % SS = 0,
         NEW to, to \in Nat, t.fp.fptr <= to
  PROVE  Seeks(t, seek_clusters(t, to))
<1> DEFINE S == {s \in States : Seeks(t, s) /\ (s.res = "more" => s.fp.fptr <= to)}
           x == More(t)
           Turn(s) == IF s.res = "more" THEN seek_cluster(Ret(s, "FR_OK"), to) ELSE s
           F == [p \in S \X Nat |-> Turn(p[1])]
           Is(g) == g = [i \in 0 .. to |-> IF i = 0 THEN x ELSE Turn(g[i - 1])]
           at == CHOOSE g : Is(g)
<1>0. to \in Nat
  OBVIOUS
<1>1. x \in S
  <2>1. Works(t, x) /\ x \in States
    BY RetWorks DEF More, Results, Works, Good
  <2>2. x.res = "more"
    BY <2>1, FsTypes, RetWorks DEF More, Results
  <2> HIDE DEF x
  <2>3. Goes(t, x) /\ x.fp = t.fp
    BY <2>1, WorksGoes
  <2> QED BY <2>1, <2>2, <2>3 DEF Seeks
<1>2. ASSUME NEW s \in S PROVE Turn(s) \in S
  <2> DEFINE r == Ret(s, "FR_OK")
             u == seek_cluster(r, to)
  <2>1. Seeks(t, s) /\ Good(s) /\ Goes(t, s)
    BY DEF Seeks, Goes
  <2>2. Works(s, r) /\ Good(r)
    BY <2>1, RetWorks DEF Results, Works
  <2> HIDE DEF r
  <2>3. Goes(s, r) /\ r.fp = s.fp
    BY <2>2, WorksGoes
  <2>4. Goes(t, r) /\ r.fs.fs_type # 0
    BY <2>1, <2>3, GoesTrans DEF Goes
  <2>5. CASE s.res = "more"
    <3>1. Pinned(r.fp) /\ r.fp.fptr % SS = 0 /\ r.fp.fptr <= to
      BY <2>1, <2>3, <2>5 DEF Seeks
    <3>2. Seeks(r, u) /\ (u.res = "more" => u.fp.fptr <= to)
      BY <2>2, <2>4, <3>1, SeekCluster
    <3> HIDE DEF u
    <3>3. Seeks(t, u) /\ u \in States
      BY <2>4, <3>2, SeeksTrans DEF Seeks, Goes, Good
    <3>4. u \in S
      BY <3>2, <3>3
    <3> QED BY <2>5, <3>4 DEF r, u
  <2>6. CASE s.res # "more"
    BY <2>6
  <2> QED BY <2>5, <2>6
<1> HIDE DEF x, Turn, S
<1>3. \A i \in 1 .. to : \A s \in S : F[<<s, i>>] = Turn(s) /\ F[<<s, i>>] \in S
  BY <1>2
<1> HIDE DEF F
<1>4. PICK g : Looped(S, F, x, to, g)
  BY <1>0, <1>1, <1>3, Loop
<1>5. Is(g)
  <2>1. /\ g = [i \in 0 .. to |-> g[i]]
        /\ \A i \in 0 .. to : g[i] = IF i = 0 THEN x ELSE Turn(g[i - 1])
    <3>1. \A i \in 0 .. to : i # 0 => i \in 1 .. to
      BY <1>0
    <3>2. \A i \in 0 .. to : i # 0 => F[<<g[i - 1], i>>] = Turn(g[i - 1])
      BY <1>3, <1>4, <3>1 DEF Looped
    <3> QED BY <1>4, <3>2 DEF Looped
  <2>2. g = [i \in 0 .. to |-> IF i = 0 THEN x ELSE Turn(g[i - 1])]
    BY <2>1
  <2> QED BY <2>2
<1>6. Is(at)
  BY <1>5
<1>7. at[to] \in S
  <2> HIDE DEF at
  <2>1. \A i \in 0 .. to : at[i] = IF i = 0 THEN x ELSE Turn(at[i - 1])
    BY <1>6
  <2>2. at[0] \in S
    BY <1>0, <1>1, <2>1
  <2>3. ASSUME NEW i \in 1 .. to, at[i - 1] \in S PROVE at[i] \in S
    <3>1. i \in 0 .. to /\ i # 0
      BY <1>0
    <3>2. at[i] = Turn(at[i - 1])
      BY <2>1, <3>1
    <3> QED BY <1>2, <2>3, <3>2
  <2> QED BY <1>0, <2>2, <2>3, Stays
<1>8. seek_clusters(t, to) = at[to]
  BY DEF seek_clusters, Repeat, x, Turn
<1> QED BY <1>7, <1>8 DEF S

(* seek_start goes to the first cluster of the seek, or stays in the one   *)
(* the file is at.                                                         *)
LEMMA SeekStart ==
  ASSUME NEW t, Good(t), t.fs.fs_type # 0, Pinned(t.fp), NEW ofs, ofs \in Nat
  PROVE  Seeks(t, seek_start(t, ofs))
<1> DEFINE bcs == Csize * SS
           cur == t.fp.fptr
           base == ((cur - 1) \div bcs) * bcs
           o == 0
           z == [t EXCEPT !.fp.fptr = o]
           y == [t EXCEPT !.fp.fptr = base]
           c == IF t.fp.sclust # 0 THEN Val(z, t.fp.sclust) ELSE create_chain(z, o)
           f == Ret(c, ClusterError(c.val))
           g == [f.fp EXCEPT !.sclust = f.val, !.clust = f.val]
           s == [f EXCEPT !.fp = g]
           r == Ret(Val(z, o), "FR_OK")
           u == seek_start(t, ofs)
<1> SUFFICES Seeks(t, u)
  OBVIOUS
<1>1. u = IF ofs = 0 THEN r
          ELSE IF cur > 0 /\ (ofs - 1) \div bcs >= (cur - 1) \div bcs THEN seek_clusters(y, ofs)
          ELSE IF f.res # "FR_OK" THEN f
          ELSE IF f.val = 0 THEN s ELSE seek_clusters(s, ofs)
  <2>1. s = [f EXCEPT !.fp.sclust = f.val, !.fp.clust = f.val]
    <3> HIDE DEF f
    <3> QED OBVIOUS
  <2>2. r = [Val(z, 0) EXCEPT !.res = "FR_OK"]
    BY DEF Ret
  <2>3. u = IF ofs = 0 THEN [Val(z, 0) EXCEPT !.res = "FR_OK"]
            ELSE IF cur > 0 /\ (ofs - 1) \div bcs >= (cur - 1) \div bcs THEN seek_clusters(y, ofs)
            ELSE IF f.res # "FR_OK" THEN f
            ELSE LET k == [f EXCEPT !.fp.sclust = f.val, !.fp.clust = f.val]
                 IN IF f.val = 0 THEN k ELSE seek_clusters(k, ofs)
    BY DEF seek_start, Upon, Then
  <2> HIDE DEF u, z, y, f, s, r
  <2> QED BY <2>1, <2>2, <2>3
<1> HIDE DEF u
<1>2. t.fp \in Objects /\ cur \in Nat /\ t.fp.sclust \in {0} \cup Clusters /\ t.fp.sclust \in Nat
  BY ObjectTypes DEF Good, States
<1>3. o \in Nat /\ o % SS = 0 /\ o <= ofs
  BY ZeroAligned
<1>4. CASE cur > 0 /\ ofs # 0 /\ (ofs - 1) \div bcs >= (cur - 1) \div bcs
  <2> DEFINE i == ofs - 1
             j == cur - 1
             k == j \div bcs
             q == i \div bcs
  <2>1. i \in Nat /\ j \in Nat /\ bcs \in Nat /\ bcs > 0
    BY <1>2, <1>4, ClusterBytes
  <2> HIDE DEF i, j
  <2>2. k \in Nat /\ q \in Nat /\ bcs * q <= i
    BY <2>1, DivMod
  <2>3. k <= q
    BY <1>4, <2>2 DEF i, j
  <2> HIDE DEF k, q
  <2>4. base = k * bcs
    BY DEF k, j
  <2>5. bcs * k <= bcs * q
    <3>1. q - k \in Nat /\ q = k + (q - k)
      BY <2>2, <2>3
    <3>2. bcs * (k + (q - k)) = bcs * k + bcs * (q - k) /\ bcs * k \in Nat /\ bcs * (q - k) \in Nat
      BY <2>1, <2>2, <3>1, Distributes
    <3> QED BY <3>1, <3>2
  <2>6. k * bcs = bcs * k
    BY <2>1, <2>2
  <2>7. base \in Nat /\ base % SS = 0 /\ base <= ofs
    <3>1. k * bcs \in Nat /\ (k * bcs) % SS = 0
      BY <2>2, ClusterBytes
    <3>2. bcs * k <= ofs
      <4>1. bcs * k \in Nat /\ bcs * q \in Nat
        BY <2>1, <2>2, Distributes
      <4> QED BY <2>1, <2>2, <2>5, <4>1 DEF i
    <3> QED BY <2>4, <2>6, <3>1, <3>2
  <2> HIDE DEF base
  <2>8. Goes(t, y) /\ y.fp.fptr = base /\ Pinned(y.fp)
    BY <2>7, FptrSet
  <2> HIDE DEF y
  <2>9. Good(y) /\ y.fs.fs_type # 0
    BY <2>8 DEF Goes
  <2>10. Seeks(y, seek_clusters(y, ofs))
    BY <2>7, <2>8, <2>9, SeekClusters
  <2> QED BY <1>1, <1>4, <2>8, <2>10, SeeksTrans
<1>5. /\ Goes(t, z) /\ z.fp.fptr = o /\ Pinned(z.fp) /\ Good(z) /\ z.fs.fs_type # 0
  BY <1>3, FptrSet DEF Goes
<1> HIDE DEF z
<1>6. CASE ofs = 0
  <2> DEFINE v == Val(z, o)
  <2>1. Works(z, v) /\ Good(v)
    BY <1>3, <1>5, ValWorks DEF Works
  <2> HIDE DEF v
  <2>2. Works(v, r) /\ r.res = "FR_OK"
    BY <2>1, RetWorks DEF Results, v
  <2> HIDE DEF r
  <2>3. Goes(z, r) /\ r.fp = z.fp
    BY <2>1, <2>2, WorksTrans, WorksGoes
  <2>4. Seeks(z, r)
    BY <1>3, <1>5, <2>2, <2>3 DEF Seeks
  <2> QED BY <1>1, <1>5, <1>6, <2>4, SeeksTrans
<1>7. CASE ofs # 0 /\ ~(cur > 0 /\ (ofs - 1) \div bcs >= (cur - 1) \div bcs)
  <2> HIDE DEF y, bcs, cur
  <2>1. Works(z, c) /\ c.val \in Codes
    <3>1. CASE t.fp.sclust # 0
      <4> DEFINE v == Val(z, t.fp.sclust)
      <4>1. Works(z, v) /\ v.val = t.fp.sclust
        BY <1>2, <1>5, ValWorks
      <4>2. c = v
        BY <3>1
      <4> HIDE DEF v, c
      <4> QED BY <1>2, <3>1, <4>1, <4>2 DEF Codes
    <3>2. CASE t.fp.sclust = 0
      <4> DEFINE v == create_chain(z, o)
      <4>1. ChainDone(z, v)
        BY <1>3, <1>5, CreateChain
      <4>2. c = v
        BY <3>2
      <4> HIDE DEF v, c
      <4> QED BY <4>1, <4>2 DEF ChainDone
    <3> QED BY <3>1, <3>2
  <2> HIDE DEF c
  <2>2. ClusterError(c.val) \in {"FR_OK", "FR_DISK_ERR", "FR_INT_ERR"}
    BY ClusterErrors
  <2>3. Works(c, f) /\ f.val = c.val /\ f.res = ClusterError(c.val)
    <3>1. Good(c) /\ ClusterError(c.val) \in Results
      BY <2>1, <2>2 DEF Works, Results
    <3> QED BY <3>1, RetWorks
  <2> HIDE DEF f
  <2>4. Goes(t, f) /\ Good(f) /\ f.fp = z.fp /\ f.fp \in Objects
    <3>1. Goes(z, f) /\ f.fp = z.fp
      BY <2>1, <2>3, WorksTrans, WorksGoes
    <3> QED BY <1>5, <3>1, GoesTrans DEF Goes, Good, States
  <2>5. Seeks(t, f) /\ f.res # "more"
    BY <1>3, <1>5, <2>2, <2>3, <2>4 DEF Seeks
  <2>6. ASSUME f.res = "FR_OK" PROVE Seeks(t, s) /\ Seeks(t, seek_clusters(s, ofs))
    <3>1. f.val \in {0} \cup Clusters /\ f.val \in Nat
      <4>1. f.val \in {0} \cup Clusters
        BY <2>1, <2>3, <2>6, ClusterErrors
      <4> QED BY <4>1, InFat
    <3>2. g \in Objects /\ g.fptr = f.fp.fptr /\ (Pinned(f.fp) => Pinned(g))
      BY <2>4, <3>1 DEF Objects, Pinned
    <3> HIDE DEF g
    <3>3. Goes(f, s) /\ s.fp = g /\ s.res = f.res
      BY <2>4, <3>2, FpSet
    <3> HIDE DEF s
    <3>4. Goes(t, s) /\ Good(s) /\ s.fs.fs_type # 0 /\ Pinned(s.fp) /\ s.fp.fptr = o
      BY <1>5, <2>4, <3>2, <3>3, GoesTrans DEF Goes
    <3>5. Seeks(t, s)
      BY <1>3, <2>6, <3>3, <3>4 DEF Seeks
    <3>6. s.fp.fptr % SS = 0 /\ s.fp.fptr <= ofs
      BY <1>3, <3>4
    <3> HIDE DEF o
    <3>7. Seeks(s, seek_clusters(s, ofs))
      BY <3>4, <3>6, SeekClusters
    <3> QED BY <3>4, <3>5, <3>7, SeeksTrans
  <2> HIDE DEF s
  <2> QED BY <1>1, <1>7, <2>5, <2>6 DEF bcs, cur
<1> QED BY <1>4, <1>6, <1>7

(* Setting the sector of the buffer leaves the volume as it is. *)
LEMMA SectPinned ==
  ASSUME NEW t, Good(t), Pinned(t.fp), NEW sect, sect \in DataArea
  PROVE  LET u == [t EXCEPT !.fp.sect = sect] IN
         /\ Goes(t, u) /\ Pinned(u.fp) /\ u.fp.sect = sect /\ u.fp.fptr = t.fp.fptr
         /\ u.fp.objsize = t.fp.objsize /\ u.res = t.res
<1> DEFINE f == [t.fp EXCEPT !.sect = sect]
           u == [t EXCEPT !.fp = f]
<1>1. t \in States /\ t.fp \in Objects /\ sect \in Nat
  BY Areas, Sectors DEF Good, States, DataArea
<1>2. /\ f \in Objects /\ f.sect = sect /\ f.fptr = t.fp.fptr /\ f.objsize = t.fp.objsize
      /\ f.flag = t.fp.flag /\ f.open = t.fp.open /\ f.dir_sect = t.fp.dir_sect
  BY <1>1 DEF Objects
<1>3. [t EXCEPT !.fp.sect = sect] = u
  BY <1>1 DEF States
<1> HIDE DEF f
<1>4. Goes(t, u) /\ u.fp = f /\ u.res = t.res
  BY <1>2, FpSet
<1> HIDE DEF u
<1> QED BY <1>2, <1>3, <1>4 DEF Pinned

(* The size of the file is set to the position. *)
Grown(t) ==
  [t EXCEPT !.fp = [t.fp EXCEPT !.objsize = t.fp.fptr, !.flag = t.fp.flag \cup {"modified"}]]

(* Setting the size leaves the volume as it is. *)
LEMMA GrownSet ==
  ASSUME NEW t, Good(t), Pinned(t.fp)
  PROVE  LET u == Grown(t) IN
         /\ Goes(t, u) /\ Pinned(u.fp) /\ u.fp.sect = t.fp.sect /\ u.fp.fptr = t.fp.fptr
         /\ u.fp.objsize = t.fp.fptr /\ u.res = t.res /\ u.val = t.val
<1> DEFINE fl == t.fp.flag \cup {"modified"}
           f == [t.fp EXCEPT !.objsize = t.fp.fptr, !.flag = fl]
           u == [t EXCEPT !.fp = f]
<1>1. t \in States /\ t.fp \in Objects
  BY DEF Good, States
<1>2. fl \in SUBSET Flags /\ ("dirty" \in fl => "dirty" \in t.fp.flag) /\ t.fp.fptr \in Nat
  <2>1. t.fp.flag \in SUBSET Flags /\ t.fp.fptr \in Nat
    BY <1>1, ObjectTypes
  <2> QED BY <2>1 DEF Flags
<1>3. Grown(t) = u
  BY DEF Grown
<1> HIDE DEF fl
<1>4. /\ f \in Objects /\ f.sect = t.fp.sect /\ f.fptr = t.fp.fptr /\ f.objsize = t.fp.fptr
      /\ f.flag = fl /\ f.open = t.fp.open /\ f.dir_sect = t.fp.dir_sect
  BY <1>1, <1>2 DEF Objects
<1> HIDE DEF f
<1>5. Goes(t, u) /\ u.fp = f /\ u.res = t.res /\ u.val = t.val
  BY <1>4, FpSet
<1> HIDE DEF u
<1> QED BY <1>2, <1>3, <1>4, <1>5 DEF Pinned

-----------------------------------------------------------------------------
(* f_lseek and f_truncate. *)

(* f_lseek keeps the volume and the file object in order. *)
LEMMA FLseek ==
  ASSUME NEW t, Good(t), FileOK(t.fp), NEW to, to \in Nat
  PROVE  Runs(t, f_lseek(t, to))
<1> DEFINE u == usable(t)
           ofs == IF to > u.fp.objsize /\ "write" \notin u.fp.flag THEN u.fp.objsize ELSE to
           s == seek_start(u, ofs)
           l == IF s.fp.fptr > s.fp.objsize THEN Grown(s) ELSE s
           b == flush_buf(l)
           d == fill_buf(b, s.val)
           k == [d EXCEPT !.fp.sect = s.val]
           w == IF s.res # "FR_OK" THEN s
                ELSE IF l.fp.fptr % SS = 0 \/ s.val = l.fp.sect THEN l
                ELSE IF b.res # "FR_OK" THEN b
                ELSE IF d.res = "FR_OK" THEN k ELSE d
           a == Abort(w)
<1>1. f_lseek(t, to) = IF u.res = "FR_OK" THEN a ELSE u
  <2> DEFINE l1 == IF s.fp.fptr > s.fp.objsize
                   THEN [s EXCEPT !.fp.objsize = s.fp.fptr, !.fp.flag = @ \cup {"modified"}]
                   ELSE s
  <2>1. l1 = l
    <3>1. Grown(s) = [s EXCEPT !.fp.objsize = s.fp.fptr, !.fp.flag = @ \cup {"modified"}]
      <4> HIDE DEF s
      <4> QED BY DEF Grown
    <3> HIDE DEF s
    <3> QED BY <3>1
  <2> DEFINE b1 == flush_buf(l1)
             d1 == fill_buf(b1, s.val)
             k1 == [d1 EXCEPT !.fp.sect = s.val]
             w1 == IF s.res # "FR_OK" THEN s
                   ELSE IF l1.fp.fptr % SS = 0 \/ s.val = l1.fp.sect THEN l1
                   ELSE IF b1.res # "FR_OK" THEN b1
                   ELSE IF d1.res = "FR_OK" THEN k1 ELSE d1
  <2>a. seek_settle(s) = IF l1.fp.fptr % SS = 0 \/ s.val = l1.fp.sect THEN l1
                         ELSE IF b1.res # "FR_OK" THEN b1
                         ELSE IF d1.res = "FR_OK" THEN k1 ELSE d1
    <3> HIDE DEF s
    <3> QED BY DEF seek_settle, Then, Upon
  <2>b. f_lseek(t, to) = IF u.res = "FR_OK"
                         THEN Abort(IF s.res = "FR_OK" THEN seek_settle(s) ELSE s) ELSE u
    BY DEF f_lseek, Then
  <2>c. w1 = IF s.res = "FR_OK" THEN seek_settle(s) ELSE s
    <3> HIDE DEF l1, s, d1, b1, k1
    <3> QED BY <2>a
  <2>2. f_lseek(t, to) = IF u.res = "FR_OK" THEN Abort(w1) ELSE u
    <3> HIDE DEF w1, s, u
    <3> QED BY <2>b, <2>c
  <2>3. w1 = w
    <3> HIDE DEF l1, l
    <3> QED BY <2>1
  <2> HIDE DEF w1, w, u
  <2> QED BY <2>2, <2>3
<1>2. /\ Works(t, u)
      /\ u.res = "FR_OK" => t.fp.open /\ t.fs.fs_type # 0 /\ t.fp.err = "FR_OK" /\ Sane(t.fp)
  BY Usable
<1> HIDE DEF u
<1>3. CASE u.res # "FR_OK"
  BY <1>1, <1>2, <1>3, WorksRuns
<1>4. CASE u.res = "FR_OK"
  <2>1. Goes(t, u) /\ u.fp = t.fp /\ Good(u) /\ u.fs.fs_type # 0 /\ Pinned(u.fp) /\ ofs \in Nat
    <3>1. Goes(t, u) /\ u.fp = t.fp /\ Good(u) /\ u.fs.fs_type # 0 /\ Pinned(u.fp)
      BY <1>2, <1>4, WorksGoes, SaneOK DEF Goes
    <3>2. u.fp.objsize \in Nat
      BY <3>1, ObjectTypes DEF Good, States
    <3> QED BY <3>1, <3>2
  <2> HIDE DEF ofs
  <2>2. Seeks(u, s)
    BY <2>1, SeekStart
  <2> HIDE DEF s
  <2>3. Goes(u, s) /\ Good(s) /\ s.fs.fs_type # 0 /\ Pinned(s.fp)
    BY <2>1, <2>2 DEF Seeks, Goes
  <2>4. s.fp \in Objects /\ s.fp.fptr \in Nat /\ s.fp.objsize \in Nat
    BY <2>3, ObjectTypes DEF Good, States
  <2>5. /\ Goes(u, l) /\ Good(l) /\ l.fs.fs_type # 0 /\ Pinned(l.fp) /\ l.fp.fptr = s.fp.fptr
        /\ l.fp.fptr <= l.fp.objsize
    <3>1. CASE s.fp.fptr > s.fp.objsize
      <4> DEFINE v == Grown(s)
      <4>1. /\ Goes(s, v) /\ Pinned(v.fp) /\ v.fp.fptr = s.fp.fptr /\ v.fp.objsize = s.fp.fptr
        BY <2>3, GrownSet
      <4>2. l = v
        BY <3>1
      <4> HIDE DEF v, l
      <4>3. Goes(u, v)
        BY <2>3, <4>1, GoesTrans
      <4> QED BY <2>3, <2>4, <4>1, <4>2, <4>3 DEF Goes
    <3>2. CASE ~(s.fp.fptr > s.fp.objsize)
      <4>1. l = s
        BY <3>2
      <4> HIDE DEF l
      <4> QED BY <2>3, <2>4, <3>2, <4>1
    <3> QED BY <3>1, <3>2
  <2> HIDE DEF l
  <2>6. Flushed(l, b)
    BY <2>5, FlushBuf
  <2> HIDE DEF b
  <2>7. /\ Goes(u, b) /\ Good(b) /\ Pinned(b.fp) /\ b.fp.fptr <= b.fp.objsize
        /\ b.fp.fptr = l.fp.fptr
    <3>1. Goes(u, b) /\ SameFile(l.fp, b.fp)
      BY <2>5, <2>6, GoesTrans DEF Flushed
    <3> QED BY <2>5, <3>1, SamePinned DEF SameFile, Goes
  <2>8. ASSUME s.res = "FR_OK", l.fp.fptr % SS # 0
        PROVE  /\ s.val \in DataArea
               /\ Goes(u, d) /\ Pinned(d.fp)
               /\ Goes(u, k) /\ Pinned(k.fp) /\ k.fp.sect \in DataArea /\ k.fp.fptr <= k.fp.objsize
    <3>1. s.val \in DataArea
      BY <2>2, <2>5, <2>8 DEF Seeks
    <3> DEFINE x == s.val
    <3>2. x \in DataArea
      BY <3>1
    <3> HIDE DEF x
    <3> DEFINE d1 == fill_buf(b, x)
               k1 == [d1 EXCEPT !.fp.sect = x]
    <3>3. Filled(b, d1)
      BY <2>7, <3>2, FillBuf
    <3> HIDE DEF d1
    <3>4. /\ Goes(u, d1) /\ Good(d1) /\ Pinned(d1.fp) /\ d1.fp.fptr <= d1.fp.objsize
      <4>1. Goes(u, d1) /\ SameFile(b.fp, d1.fp)
        BY <2>7, <3>3, GoesTrans DEF Filled
      <4> QED BY <2>7, <4>1, SamePinned DEF SameFile, Goes
    <3>5. /\ Goes(d1, k1) /\ Pinned(k1.fp) /\ k1.fp.sect = x /\ k1.fp.fptr = d1.fp.fptr
          /\ k1.fp.objsize = d1.fp.objsize
      BY <3>2, <3>4, SectPinned
    <3> HIDE DEF k1
    <3>6. Goes(u, k1)
      BY <3>4, <3>5, GoesTrans
    <3>7. d = d1 /\ k = k1
      BY DEF x, d1, k1
    <3> HIDE DEF d, k
    <3> QED BY <3>1, <3>2, <3>4, <3>5, <3>6, <3>7
  <2> HIDE DEF k, d
  <2>9. /\ Goes(u, w) /\ Pinned(w.fp)
        /\ w.res = "FR_OK" => w.fp.fptr <= w.fp.objsize /\ (w.fp.fptr % SS # 0 => w.fp.sect \in DataArea)
    <3>1. CASE s.res # "FR_OK"
      <4>1. w = s
        BY <3>1
      <4> HIDE DEF w
      <4> QED BY <2>3, <3>1, <4>1
    <3>2. CASE s.res = "FR_OK" /\ (l.fp.fptr % SS = 0 \/ s.val = l.fp.sect)
      <4>1. w = l
        BY <3>2
      <4>2. l.fp.fptr % SS # 0 => l.fp.sect \in DataArea
        BY <2>8, <3>2
      <4> HIDE DEF w
      <4> QED BY <2>5, <4>1, <4>2
    <3>3. CASE s.res = "FR_OK" /\ ~(l.fp.fptr % SS = 0 \/ s.val = l.fp.sect)
      <4>1. w = IF b.res # "FR_OK" THEN b ELSE IF d.res = "FR_OK" THEN k ELSE d
        BY <3>3
      <4> HIDE DEF w
      <4> QED BY <2>7, <2>8, <3>3, <4>1
    <3> QED BY <3>1, <3>2, <3>3
  <2> HIDE DEF w
  <2>10. Good(w)
    BY <2>9 DEF Goes
  <2>11. /\ Goes(w, a) /\ a.res = w.res /\ a.fp.fptr = w.fp.fptr
         /\ a.fp.objsize = w.fp.objsize /\ a.fp.flag = w.fp.flag /\ a.fp.sect = w.fp.sect
         /\ a.fp.open = w.fp.open /\ a.fp.dir_sect = w.fp.dir_sect
         /\ (w.res # "FR_OK" => a.fp.err = w.res)
    BY <2>10, AbortGoes
  <2> HIDE DEF a
  <2>12. FileOK(a.fp)
    BY <2>9, <2>11 DEF FileOK, Pinned
  <2>13. Goes(t, a)
    BY <2>1, <2>9, <2>11, GoesTrans
  <2> QED BY <1>1, <1>4, <2>12, <2>13, GoesRuns
<1> QED BY <1>3, <1>4

(* Setting the size to the pointer leaves the volume as it is. *)
LEMMA CutSet ==
  ASSUME NEW r, Good(r), Pinned(r.fp), NEW y, y \in BOOLEAN
  PROVE  LET f == [r.fp EXCEPT !.objsize = r.fp.fptr, !.flag = r.fp.flag \cup {"modified"}]
             u == Marked(r, f, y) IN
         /\ Goes(r, u) /\ Pinned(u.fp) /\ u.fp.sect = r.fp.sect /\ u.fp.fptr = r.fp.fptr
         /\ u.fp.objsize = r.fp.fptr /\ u.res = r.res
<1> DEFINE fl == r.fp.flag \cup {"modified"}
           f == [r.fp EXCEPT !.objsize = r.fp.fptr, !.flag = fl]
           u == Marked(r, f, y)
<1>1. r \in States /\ r.fp \in Objects
  BY DEF Good, States
<1>2. fl \in SUBSET Flags /\ ("dirty" \in fl => "dirty" \in r.fp.flag) /\ r.fp.fptr \in Nat
  <2>1. r.fp.flag \in SUBSET Flags /\ r.fp.fptr \in Nat
    BY <1>1, ObjectTypes
  <2> QED BY <2>1 DEF Flags
<1> HIDE DEF fl
<1>4. /\ f \in Objects /\ f.sect = r.fp.sect /\ f.fptr = r.fp.fptr /\ f.objsize = r.fp.fptr
      /\ f.flag = fl /\ f.open = r.fp.open /\ f.dir_sect = r.fp.dir_sect
  BY <1>1, <1>2 DEF Objects
<1> HIDE DEF f
<1>5. Goes(r, u) /\ u.fp = f /\ u.res = r.res
  BY <1>4, MarkedGoes
<1> HIDE DEF u
<1>6. Pinned(u.fp)
  BY <1>2, <1>4, <1>5 DEF Pinned
<1> QED BY <1>4, <1>5, <1>6 DEF u, f, fl

(* f_truncate frees the clusters behind the pointer and keeps the volume   *)
(* in order.                                                               *)
LEMMA FTruncate ==
  ASSUME NEW t, Good(t), FileOK(t.fp)
  PROVE  Runs(t, f_truncate(t))
<1> DEFINE u == granted(t, "write")
           o == 0
           y == TRUE
           m == remove_chain(u, u.fp.sclust, o)
           n == [m EXCEPT !.fp.sclust = o]
           g == get_fat(u, u.fp.clust)
           c == Ret(g, ClusterError(g.val))
           p == remove_chain(c, c.val, c.fp.clust)
           r == IF u.fp.fptr = 0 THEN n
                ELSE IF c.res = "FR_OK" /\ c.val < NFatent THEN p ELSE c
           f == [r.fp EXCEPT !.objsize = r.fp.fptr, !.flag = r.fp.flag \cup {"modified"}]
           h == Marked(r, f, y)
           b == flush_buf(h)
           q == IF h.res = "FR_OK" THEN b ELSE h
           a == Abort(q)
<1>1. f_truncate(t) = IF u.res # "FR_OK" \/ u.fp.fptr >= u.fp.objsize THEN u ELSE a
  <2> DEFINE r1 == IF u.fp.fptr = 0 THEN n
                   ELSE IF c.res = "FR_OK" THEN IF c.val < NFatent THEN p ELSE c ELSE c
  <2>1. r1 = r
    <3> HIDE DEF n, c, p, u
    <3> QED OBVIOUS
  <2> DEFINE h1 == [r1 EXCEPT !.fp.objsize = r1.fp.fptr, !.fp.flag = @ \cup {"modified"}, !.cut = TRUE]
  <2>2. f_truncate(t) = IF u.res = "FR_OK"
                        THEN IF u.fp.fptr >= u.fp.objsize THEN u
                             ELSE Abort(IF h1.res = "FR_OK" THEN flush_buf(h1) ELSE h1)
                        ELSE u
    BY DEF f_truncate, Then, Upon
  <2>3. h1 = h
    <3> HIDE DEF r1, r
    <3> QED BY <2>1 DEF Marked
  <2> HIDE DEF h1, h, u
  <2> QED BY <2>2, <2>3
<1>2. /\ Works(t, u)
      /\ u.res = "FR_OK" => t.fp.open /\ t.fs.fs_type # 0 /\ t.fp.err = "FR_OK" /\ Sane(t.fp)
  BY Granted
<1> HIDE DEF u
<1>3. CASE u.res # "FR_OK" \/ u.fp.fptr >= u.fp.objsize
  BY <1>1, <1>2, <1>3, WorksRuns
<1>4. CASE ~(u.res # "FR_OK" \/ u.fp.fptr >= u.fp.objsize)
  <2>1. Goes(t, u) /\ u.fp = t.fp /\ Good(u) /\ u.fs.fs_type # 0 /\ Sane(u.fp) /\ u.fp \in Objects
    BY <1>2, <1>4, WorksGoes DEF Goes, Good, States
  <2>2. u.fp.sclust \in Nat /\ u.fp.clust \in Nat /\ o \in Nat /\ o \notin Clusters /\ y \in BOOLEAN
        /\ o \in {0} \cup Clusters
    BY <2>1, ObjectTypes DEF Clusters
  <2> HIDE DEF y
  <2>3. Works(u, m)
    <3> HIDE DEF o
    <3> QED BY <2>1, <2>2, RemoveChain
  <2> HIDE DEF m
  <2>4. Goes(u, n) /\ SameFile(u.fp, n.fp) /\ n.fp.flag = u.fp.flag
    <3>1. Good(m) /\ Goes(u, m) /\ m.fp = u.fp
      BY <2>3, WorksGoes DEF Goes
    <3> DEFINE e == [m.fp EXCEPT !.sclust = o]
               v == [m EXCEPT !.fp = e]
    <3>2. e \in Objects /\ SameFile(u.fp, e) /\ e.flag = u.fp.flag
      BY <2>1, <2>2, <3>1 DEF Objects, SameFile
    <3>3. n = v
      BY <3>1 DEF Good, States
    <3> HIDE DEF e, n
    <3>4. Goes(m, v) /\ v.fp = e
      BY <3>1, <3>2, FpSet
    <3> HIDE DEF v
    <3> QED BY <3>1, <3>2, <3>3, <3>4, GoesTrans
  <2> HIDE DEF n
  <2>5. GetDone(u, g, u.fp.clust)
    BY <2>1, GetFat
  <2> HIDE DEF g
  <2>6. Works(u, g) /\ Good(g) /\ g.val \in Nat
    BY <2>5 DEF GetDone, Works
  <2>7. ClusterError(g.val) \in Results
    BY ClusterErrors DEF Results
  <2>8. Works(g, c) /\ SameFat(g, c) /\ c.val = g.val /\ c.res = ClusterError(g.val)
    BY <2>6, <2>7, RetWorks
  <2> HIDE DEF c
  <2>9. Works(u, c) /\ Good(c) /\ c.fp = u.fp /\ c.fs.fs_type # 0 /\ Goes(u, c)
    <3>1. Works(u, c)
      BY <2>6, <2>8, WorksTrans
    <3> QED BY <2>1, <3>1, WorksGoes DEF Works
  <2>10. ASSUME c.res = "FR_OK" PROVE Goes(u, p) /\ p.fp = u.fp
    <3>1. c.val \in Clusters /\ c.fp.clust \in Clusters => Value(c, c.fp.clust) # 0
      <4>1. ASSUME c.val \in Clusters, c.fp.clust \in Clusters PROVE Value(c, c.fp.clust) # 0
        <5> DEFINE j == u.fp.clust
        <5>1. j \in Clusters /\ c.fp.clust = j
          BY <2>9, <4>1
        <5> HIDE DEF j
        <5>2. GetDone(u, g, j)
          BY <2>5 DEF j
        <5>3. g.res = "FR_OK"
          <6>1. ClusterError(Ones) # "FR_OK"
            BY DEF ClusterError, Ones, IntErr
          <6> QED BY <2>8, <2>10, <5>1, <5>2, <6>1 DEF GetDone
        <5>4. g.val = Value(u, j)
          BY <5>1, <5>2, <5>3 DEF GetDone
        <5>5. j \in 0 .. NFatent - 1
          BY <5>1, InFat
        <5>6. Value(c, j) = Value(u, j)
          <6>1. SameFat(u, g)
            BY <5>2 DEF GetDone
          <6>2. SameFat(u, c)
            BY <2>8, <6>1, SameFatTrans
          <6> QED BY <5>5, <6>2 DEF SameFat, Value
        <5>7. c.val # 0
          BY <4>1, InFat
        <5> QED BY <2>8, <5>1, <5>4, <5>6, <5>7
      <4> QED BY <4>1
    <3>2. c.val \in Nat /\ c.fp.clust \in Nat
      BY <2>2, <2>6, <2>8, <2>9
    <3>3. Works(c, p)
      BY <2>9, <3>1, <3>2, RemoveChain
    <3> HIDE DEF p
    <3> QED BY <2>9, <3>3, WorksGoes, GoesTrans
  <2> HIDE DEF p
  <2>11. Goes(u, r) /\ SameFile(u.fp, r.fp) /\ r.fp.flag = u.fp.flag
    <3>1. SameFile(u.fp, u.fp)
      BY DEF SameFile
    <3> QED BY <2>4, <2>9, <2>10, <3>1
  <2> HIDE DEF r
  <2>12. Good(r) /\ Sane(r.fp) /\ Pinned(r.fp) /\ r.fs.fs_type # 0
    BY <2>1, <2>11, SameSane, SaneOK DEF Goes
  <2>13. /\ Goes(r, h) /\ Pinned(h.fp) /\ h.fp.sect = r.fp.sect /\ h.fp.fptr = r.fp.fptr
         /\ h.fp.objsize = r.fp.fptr
    BY <2>2, <2>12, CutSet
  <2> HIDE DEF h
  <2>14. Good(h) /\ Sane(h.fp) /\ h.fs.fs_type # 0
    <3>1. Good(h) /\ h.fs.fs_type # 0 /\ h.fp \in Objects
      BY <2>12, <2>13 DEF Goes, Good, States
    <3>2. h.fp.fptr \in Nat
      BY <3>1, ObjectTypes
    <3>3. h.fp.fptr <= h.fp.objsize
      BY <2>13, <3>2
    <3> QED BY <2>12, <2>13, <3>1, <3>3 DEF Sane
  <2>15. Flushed(h, b)
    BY <2>14, FlushBuf, SaneOK
  <2> HIDE DEF b
  <2>16. Goes(h, q) /\ Sane(q.fp)
    <3>1. Goes(h, b) /\ Sane(b.fp)
      BY <2>14, <2>15, SameSane DEF Flushed
    <3>2. Goes(h, h)
      BY <2>14, SelfWorks, WorksGoes
    <3> QED BY <2>14, <3>1, <3>2
  <2> HIDE DEF q
  <2>17. Good(q)
    BY <2>16 DEF Goes
  <2>18. /\ Goes(q, a) /\ a.fp.fptr = q.fp.fptr
         /\ a.fp.objsize = q.fp.objsize /\ a.fp.flag = q.fp.flag /\ a.fp.sect = q.fp.sect
         /\ a.fp.open = q.fp.open /\ a.fp.dir_sect = q.fp.dir_sect
    BY <2>17, AbortGoes
  <2> HIDE DEF a
  <2>19. FileOK(a.fp)
    BY <2>16, <2>18 DEF FileOK, Sane, Pinned
  <2>20. Goes(t, a)
    BY <2>1, <2>11, <2>13, <2>16, <2>18, GoesTrans
  <2> QED BY <1>1, <1>4, <2>19, <2>20, GoesRuns
<1> QED BY <1>3, <1>4

-----------------------------------------------------------------------------
(* An entry that f_open makes or empties. *)

(* The counters are set, the count of free clusters to the right one or    *)
(* left as it is.                                                          *)
LEMMA CountedWorks ==
  ASSUME NEW p, Good(p), NEW n, n \in FreeCounts, NEW l, l \in LastClusters, NEW g, g \in Nat,
         Exact(p) => n = p.fs.free_clst \/ n = NFree(p)
  PROVE  LET u == Counted(p, n, l, g) IN
         Works(p, u) /\ u.dp = p.dp /\ u.val = p.val /\ u.res = p.res /\ u.fs.winsect = p.fs.winsect
<1> DEFINE u == Counted(p, n, l, g)
           f == [p.fs EXCEPT !.free_clst = n, !.last_clst = l, !.fsi_flag = g]
<1>1. /\ Alters(p, u) /\ u.val = p.val /\ u.res = p.res /\ u.fs.free_clst = n
      /\ \A e : Value(u, e) = Value(p, e)
  BY CountsSet
<1>2. u.fs.winsect = p.fs.winsect
  <2>1. p \in States /\ p.fs \in Volumes
    BY FsTypes DEF Good
  <2>2. f.winsect = p.fs.winsect
    BY <2>1 DEF Volumes
  <2>3. u = [p EXCEPT !.fs = f]
    BY DEF Counted
  <2> HIDE DEF f, u
  <2>4. u.fs = f
    BY <2>1, <2>3 DEF States
  <2> QED BY <2>2, <2>4
<1> HIDE DEF u
<1>3. NFree(u) = NFree(p)
  <2>1. \A x \in Clusters : Value(u, x) = 0 <=> Value(p, x) = 0
    BY <1>1
  <2> QED BY <2>1, FreeSame
<1>4. Exact(p) => Exact(u)
  <2>1. Neat(p) => Neat(u)
    BY <1>1 DEF Alters
  <2>2. u.fs.fs_type = p.fs.fs_type
    BY <1>1 DEF Alters
  <2> QED BY <1>1, <1>3, <2>1, <2>2 DEF Exact, CountRight, NFree
<1>5. Works(p, u) /\ u.dp = p.dp
  BY <1>1, <1>4 DEF Works, Alters
<1> QED BY <1>1, <1>2, <1>5 DEF u

(* The window is on the entry that the DIR object is at. *)
AtWindow(t) == AtEntry(t.dp) /\ t.fs.winsect = t.dp.sect

(* Then the window is on the data area. *)
LEMMA WindowSector ==
  ASSUME NEW t, Good(t), AtWindow(t)
  PROVE  t.fs.winsect \in DataArea /\ t.fs.winsect \in Nat
<1>1. t.dp \in Dirs
  BY DEF Good, States
<1>2. t.dp.sect \in DataArea
  BY <1>1, EntrySector DEF AtWindow
<1> QED BY <1>2, Areas, Sectors DEF AtWindow, DataArea

(* open_create makes an entry, or empties the one that was found and frees *)
(* its clusters.                                                           *)
LEMMA OpenCreate ==
  ASSUME NEW t, Good(t), t.fs.fs_type # 0, t.res = "FR_OK", AtWindow(t), NEW mode, NEW found
  PROVE  LET u == open_create(t, mode, found) IN
         Works(t, u) /\ (u.res = "FR_OK" => AtWindow(u))
<1> DEFINE e == Entry(t)
           n == [e EXCEPT !.attr = "file", !.clust = 0, !.size = 0]
           o == 0
           v == SetEntry(t, n)
           r == remove_chain(v, e.clust, o)
           m == move_window(r, t.fs.winsect)
           l == e.clust - 1
           k == [m EXCEPT !.fs.last_clst = l]
           w == IF r.res = "FR_OK" THEN k ELSE r
           u == open_create(t, mode, found)
<1> SUFFICES Works(t, u) /\ (u.res = "FR_OK" => AtWindow(u))
  OBVIOUS
<1>1. u = IF found /\ "always" \notin mode THEN t ELSE IF e.clust = 0 THEN v ELSE w
  BY DEF open_create, Then, Upon
<1> HIDE DEF u
<1>2. e \in Entries
  BY SlotType
<1>3. n \in Entries
  BY <1>2 DEF Entries, Attributes
<1>4. Works(t, v) /\ v.dp = t.dp /\ v.res = "FR_OK" /\ AtWindow(v) /\ Good(v) /\ v.fs.fs_type # 0
  <2> HIDE DEF n, r, m, k, w, l
  <2>1. Works(t, v) /\ v.dp = t.dp /\ v.res = t.res /\ v.fs.winsect = v.dp.sect
    BY <1>3, EntrySet1 DEF AtWindow
  <2> HIDE DEF v
  <2> QED BY <2>1 DEF AtWindow, Works
<1> HIDE DEF v
<1>5. CASE e.clust # 0
  <2>1. e.clust \in Clusters /\ e.clust \in Nat /\ o \in Nat /\ o \notin Clusters
    BY <1>2, <1>5, InFat DEF Entries, Clusters
  <2>2. l \in LastClusters
    <3> DEFINE c == e.clust
    <3>1. c \in Clusters
      BY <2>1
    <3> HIDE DEF c
    <3>2. c - 1 \in 0 .. NFatent - 1
      BY <3>1, Sectors DEF Clusters
    <3> QED BY <3>2 DEF c, LastClusters
  <2> HIDE DEF o, l
  <2> DEFINE c == e.clust
  <2> HIDE DEF e
  <2>3. c \in Nat
    BY <2>1
  <2> HIDE DEF c
  <2> DEFINE r1 == remove_chain(v, c, o)
  <2>4. Works(v, r1) /\ r1.dp = v.dp
    BY <1>4, <2>1, <2>3, RemoveChain
  <2>5. Works(v, r) /\ r.dp = v.dp
    BY <2>4 DEF c
  <2> HIDE DEF r, r1
  <2>6. Good(r) /\ Works(t, r) /\ r.dp = t.dp
    BY <1>4, <2>5, WorksTrans DEF Works
  <2>7. MoveDone(r, m, t.fs.winsect)
    BY <2>6, MoveWindow, WindowSector
  <2> HIDE DEF m
  <2>8. Good(m) /\ Works(t, m) /\ m.dp = t.dp /\ (m.res = "FR_OK" => m.fs.winsect = t.fs.winsect)
    BY <2>6, <2>7, WorksTrans DEF MoveDone, Works
  <2> DEFINE x == m.fs.free_clst
             y == m.fs.fsi_flag
  <2>9. x \in FreeCounts /\ y \in Nat /\ m.fs \in Volumes
    BY <2>8, FsTypes DEF Good
  <2>10. k = Counted(m, x, l, y)
    <3>1. [m.fs EXCEPT !.last_clst = l] = [m.fs EXCEPT !.free_clst = x, !.last_clst = l, !.fsi_flag = y]
      BY <2>9 DEF Volumes
    <3>2. k = [m EXCEPT !.fs = [m.fs EXCEPT !.last_clst = l]]
      BY <2>8 DEF Good, States
    <3> HIDE DEF k
    <3> QED BY <3>1, <3>2, Zenon DEF Counted
  <2>11. Works(m, Counted(m, x, l, y)) /\ Counted(m, x, l, y).dp = m.dp
         /\ Counted(m, x, l, y).res = m.res /\ Counted(m, x, l, y).fs.winsect = m.fs.winsect
    <3>1. x = m.fs.free_clst
      OBVIOUS
    <3> HIDE DEF x, y
    <3> QED BY <2>2, <2>8, <2>9, <3>1, CountedWorks
  <2> HIDE DEF k, x, y
  <2>12. Works(t, k) /\ (k.res = "FR_OK" => AtWindow(k))
    BY <2>8, <2>10, <2>11, WorksTrans DEF AtWindow
  <2>13. Works(t, w) /\ (w.res = "FR_OK" => AtWindow(w))
    <3>1. CASE r.res = "FR_OK"
      BY <2>12, <3>1
    <3>2. CASE r.res # "FR_OK"
      BY <2>6, <3>2
    <3> QED BY <3>1, <3>2
  <2> HIDE DEF w
  <2> QED BY <1>1, <1>4, <1>5, <2>13, SelfWorks
<1>6. CASE e.clust = 0
  <2> HIDE DEF w
  <2> QED BY <1>1, <1>4, <1>6, SelfWorks
<1> QED BY <1>5, <1>6

-----------------------------------------------------------------------------
(* The end of a file that f_open appends to. *)

(* The end of a file is sought for f_open: t.val is a cluster, and the     *)
(* rest of the file begins there.                                          *)
Opens(t, u) ==
  /\ Goes(t, u) /\ Pinned(u.fp)
  /\ u.fp.fptr = t.fp.fptr /\ u.fp.objsize = t.fp.objsize
  /\ u.res = "FR_OK" /\ u.fp.fptr % SS # 0 => u.fp.sect \in DataArea

(* The search for the end goes on after a step of it. *)
LEMMA OpensTrans ==
  ASSUME NEW t, NEW u, NEW v, Goes(t, u), u.fp.fptr = t.fp.fptr, u.fp.objsize = t.fp.objsize, Opens(u, v)
  PROVE  Opens(t, v)
  BY GoesTrans DEF Opens

(* pass_cluster goes one cluster on. *)
LEMMA PassCluster ==
  ASSUME NEW t, Good(t), Pinned(t.fp), NEW ofs, ofs \in Nat, t.res = "FR_OK",
         t.fp.fptr % SS = ofs % SS
  PROVE  LET u == pass_cluster(t, ofs) IN
         Opens(t, u) /\ (u.res = "more" => ofs > Csize * SS)
<1> DEFINE c == t.val
           s == clst2sect(c) + (ofs \div SS)
           g == get_fat(t, c)
           x == IF g.val = Ones THEN "FR_DISK_ERR" ELSE "FR_INT_ERR"
           k == [t EXCEPT !.fp.clust = c]
           i == Ret(k, "FR_INT_ERR")
           j == [k EXCEPT !.fp.sect = s]
           f == fill_buf(j, s)
           u == pass_cluster(t, ofs)
<1> SUFFICES Opens(t, u) /\ (u.res = "more" => ofs > Csize * SS)
  OBVIOUS
<1>1. u = IF ofs > Csize * SS
          THEN IF g.val \in {0, IntErr, Ones} THEN Ret(g, x) ELSE More(g)
          ELSE IF ofs % SS = 0 THEN k
          ELSE IF clst2sect(c) = 0 THEN i ELSE f
  BY DEF pass_cluster, Upon
<1> HIDE DEF u
<1>2. c \in Nat /\ t.fp.fptr \in Nat
  BY ObjectTypes DEF Good, States
<1>3. CASE ofs > Csize * SS
  <2>1. Works(t, g) /\ Good(g)
    BY GetFat DEF GetDone, Works
  <2> HIDE DEF g
  <2>2. x \in Results /\ x # "FR_OK" /\ x # "more" /\ "more" \in Results
    BY DEF Results
  <2> HIDE DEF x
  <2>3. ASSUME NEW y, y \in Results, y # "FR_OK" PROVE Opens(t, Ret(g, y))
    <3> DEFINE v == Ret(g, y)
    <3>1. Works(g, v) /\ v.res = y
      BY <2>1, <2>3, RetWorks
    <3> HIDE DEF v
    <3>2. Goes(t, v) /\ v.fp = t.fp
      BY <2>1, <3>1, WorksTrans, WorksGoes
    <3>3. Opens(t, v)
      BY <2>3, <3>1, <3>2 DEF Opens
    <3> QED BY <3>3 DEF v
  <2>4. Opens(t, Ret(g, x)) /\ Opens(t, Ret(g, "more"))
    BY <2>2, <2>3
  <2> QED BY <1>1, <1>3, <2>4 DEF More
<1>4. CASE ~(ofs > Csize * SS)
  <2>1. /\ Goes(t, k) /\ SameFile(t.fp, k.fp) /\ k.fp.flag = t.fp.flag /\ k.res = t.res
    BY <1>2, ClustSet
  <2> HIDE DEF k
  <2>2. Good(k) /\ Pinned(k.fp) /\ k.fp.fptr = t.fp.fptr /\ k.fp.objsize = t.fp.objsize
    BY <2>1, SamePinned DEF Goes, SameFile
  <2>3. CASE ofs % SS = 0
    <3>1. Opens(t, k) /\ k.res = "FR_OK"
      BY <2>1, <2>2, <2>3 DEF Opens
    <3> QED BY <1>1, <1>4, <2>3, <3>1
  <2>4. CASE ofs % SS # 0 /\ clst2sect(c) = 0
    <3>1. Works(k, i) /\ i.res = "FR_INT_ERR"
      BY <2>2, RetWorks DEF Results
    <3> HIDE DEF i
    <3>2. Goes(t, i) /\ i.fp = k.fp
      BY <2>1, <3>1, WorksGoes, GoesTrans
    <3>3. Opens(t, i)
      BY <2>2, <3>1, <3>2 DEF Opens
    <3> QED BY <1>1, <1>4, <2>4, <3>1, <3>3
  <2>5. CASE ofs % SS # 0 /\ clst2sect(c) # 0
    <3>1. ofs <= Csize * SS
      BY <1>4, ClusterBytes
    <3>2. s \in DataArea
      BY <2>5, <3>1, SectorAt
    <3> HIDE DEF s
    <3>3. /\ Goes(k, j) /\ Pinned(j.fp) /\ j.fp.sect = s /\ j.fp.fptr = k.fp.fptr
          /\ j.fp.objsize = k.fp.objsize /\ Good(j)
      BY <2>2, <3>2, SectPinned DEF Goes
    <3> HIDE DEF j
    <3>4. Filled(j, f)
      BY <3>2, <3>3, FillBuf
    <3> HIDE DEF f
    <3>5. Goes(t, f) /\ SameFile(j.fp, f.fp) /\ f.res # "more"
      BY <2>1, <3>3, <3>4, GoesTrans DEF Filled
    <3>6. Opens(t, f)
      BY <2>2, <3>2, <3>3, <3>5, SamePinned DEF Opens, SameFile
    <3> QED BY <1>1, <1>4, <2>5, <3>5, <3>6
  <2> QED BY <2>3, <2>4, <2>5
<1> QED BY <1>3, <1>4

(* seek_end comes to the last cluster of the file and fills the buffer     *)
(* with its last sector.                                                   *)
LEMMA SeekEnd ==
  ASSUME NEW t, Good(t), Pinned(t.fp), NEW c, c \in Nat, NEW size, size \in Nat,
         t.fp.fptr = size, size > 0
  PROVE  Opens(t, seek_end(t, c, size))
<1> DEFINE bcs == Csize * SS
           ofs(i) == size - (i - 1) * Csize * SS
           R == {s \in States : Opens(t, s)}
           S == [i \in 0 .. size |-> {s \in R : s.res = "more" => i * bcs < size}]
           x == More(Val(t, c))
           Turn(s, i) == IF s.res = "more" THEN pass_cluster(Ret(s, "FR_OK"), ofs(i)) ELSE s
           F == [p \in R \X Nat |-> Turn(p[1], p[2])]
           Is(g) == g = [i \in 0 .. size |-> IF i = 0 THEN x ELSE Turn(g[i - 1], i)]
           at == CHOOSE g : Is(g)
<1>0. size \in Nat
  OBVIOUS
<1>b. bcs \in Nat /\ bcs > 0
  BY ClusterBytes
<1>1. x \in S[0]
  <2> DEFINE v == Val(t, c)
  <2>1. Works(t, v) /\ Good(v)
    BY ValWorks DEF Works
  <2> HIDE DEF v
  <2>2. Works(v, x) /\ x.res = "more"
    BY <2>1, RetWorks DEF More, Results, v
  <2> HIDE DEF x
  <2>3. Goes(t, x) /\ x.fp = t.fp /\ x \in States
    BY <2>1, <2>2, WorksTrans, WorksGoes DEF Goes, Good
  <2>4. Opens(t, x)
    BY <2>2, <2>3 DEF Opens
  <2>5. 0 * bcs < size
    BY <1>b
  <2> HIDE DEF bcs
  <2> QED BY <2>3, <2>4, <2>5
<1>2. ASSUME NEW i \in 1 .. size, NEW s \in S[i - 1]
      PROVE  Turn(s, i) \in S[i] /\ s \in R
  <2> DEFINE r == Ret(s, "FR_OK")
             j == i - 1
             q == ofs(i)
             u == pass_cluster(r, q)
  <2>0. j \in 0 .. size /\ i \in 0 .. size /\ j \in Nat
    OBVIOUS
  <2>1. Opens(t, s) /\ s \in States /\ (s.res = "more" => j * bcs < size)
    <3> HIDE DEF bcs
    <3>1. S[j] = {y \in R : y.res = "more" => j * bcs < size}
      BY <2>0
    <3> QED BY <3>1
  <2>2. CASE s.res # "more"
    BY <2>0, <2>1, <2>2
  <2>3. CASE s.res = "more"
    <3>1. Works(s, r) /\ r.res = "FR_OK"
      BY <2>1, RetWorks DEF Results, Opens, Goes
    <3>2. s \in R /\ Turn(s, i) = u
      BY <2>1, <2>3
    <3> HIDE DEF r, S, Turn
    <3>3. Goes(t, r) /\ Good(r) /\ r.fp = s.fp
      BY <2>1, <3>1, WorksGoes, GoesTrans DEF Opens, Goes
    <3>4. q \in Nat /\ j * bcs \in Nat /\ (j * bcs) % SS = 0 /\ j * bcs + q = size
      <4>1. j * bcs \in Nat /\ (j * bcs) % SS = 0
        BY <2>0, ClusterBytes
      <4>2. j * bcs = j * Csize * SS
        BY <2>0, Sectors
      <4>3. q = size - j * Csize * SS
        OBVIOUS
      <4> HIDE DEF q, j, bcs
      <4> QED BY <2>1, <2>3, <4>1, <4>2, <4>3
    <3> HIDE DEF q
    <3>5. r.fp.fptr % SS = q % SS
      <4> DEFINE p == j * bcs
      <4>1. p \in Nat /\ p % SS = 0 /\ p + q = size
        BY <3>4
      <4> HIDE DEF p
      <4>2. (p + q) % SS = q % SS
        BY <3>4, <4>1, OffsetIn
      <4>3. r.fp.fptr = size
        BY <2>1, <3>3 DEF Opens
      <4> QED BY <4>1, <4>2, <4>3
    <3>6. Pinned(r.fp) /\ r.fp.fptr = t.fp.fptr /\ r.fp.objsize = t.fp.objsize
      BY <2>1, <3>3 DEF Opens
    <3>7. Opens(r, u) /\ (u.res = "more" => q > Csize * SS)
      BY <3>1, <3>3, <3>4, <3>5, <3>6, PassCluster
    <3> HIDE DEF u
    <3>8. Opens(t, u) /\ u \in States
      BY <3>3, <3>6, <3>7, OpensTrans DEF Opens, Goes, Good
    <3>9. u.res = "more" => i * bcs < size
      <4>1. i * bcs = j * bcs + bcs
        BY <1>b
      <4>2. u.res = "more" => q > bcs
        BY <3>7
      <4> HIDE DEF bcs, j
      <4> QED BY <1>b, <3>4, <4>1, <4>2
    <3> HIDE DEF bcs
    <3>10. S[i] = {y \in R : y.res = "more" => i * bcs < size}
      BY <2>0 DEF S
    <3>11. u \in S[i]
      BY <3>8, <3>9, <3>10
    <3> QED BY <3>2, <3>11
  <2> QED BY <2>2, <2>3
<1> HIDE DEF ofs
<1> HIDE DEF x, Turn, S
<1>3. \A i \in 1 .. size : \A s \in S[i - 1] : F[<<s, i>>] = Turn(s, i) /\ F[<<s, i>>] \in S[i]
  BY <1>2
<1> HIDE DEF F
<1>4. PICK g : LoopedIn(S, F, x, size, g)
  BY <1>0, <1>1, <1>3, LoopIn
<1>5. Is(g)
  <2>1. /\ g = [i \in 0 .. size |-> g[i]]
        /\ \A i \in 0 .. size : g[i] = IF i = 0 THEN x ELSE Turn(g[i - 1], i)
    <3>1. \A i \in 0 .. size : i # 0 => i \in 1 .. size
      BY <1>0
    <3>2. \A i \in 0 .. size : i # 0 => F[<<g[i - 1], i>>] = Turn(g[i - 1], i)
      BY <1>3, <1>4, <3>1 DEF LoopedIn
    <3> QED BY <1>4, <3>2 DEF LoopedIn
  <2>2. g = [i \in 0 .. size |-> IF i = 0 THEN x ELSE Turn(g[i - 1], i)]
    BY <2>1
  <2> QED BY <2>2
<1>6. Is(at)
  BY <1>5
<1>7. at[size] \in S[size]
  <2> HIDE DEF at
  <2>1. \A i \in 0 .. size : at[i] = IF i = 0 THEN x ELSE Turn(at[i - 1], i)
    BY <1>6
  <2>2. at[0] \in S[0]
    BY <1>0, <1>1, <2>1
  <2>3. ASSUME NEW i \in 1 .. size, at[i - 1] \in S[i - 1] PROVE at[i] \in S[i]
    <3>1. i \in 0 .. size /\ i # 0
      BY <1>0
    <3>2. at[i] = Turn(at[i - 1], i)
      BY <2>1, <3>1
    <3> QED BY <1>2, <2>3, <3>2
  <2> QED BY <1>0, <2>2, <2>3, StaysIn
<1>8. seek_end(t, c, size) = at[size]
  BY DEF seek_end, ofs, Repeat, x, Turn
<1>9. size \in 0 .. size
  BY <1>0
<1> QED BY <1>7, <1>8, <1>9 DEF S

-----------------------------------------------------------------------------
(* f_open. *)

(* What f_open does after the mount: on success the file object is in order. *)
Opened(t, u) == Goes(t, u) /\ (u.res = "FR_OK" => FileOK(u.fp))

(* Opening goes on after a step of it. *)
LEMMA OpenedTrans ==
  ASSUME NEW t, NEW u, NEW v, Goes(t, u), Opened(u, v)
  PROVE  Opened(t, v)
  BY GoesTrans DEF Opened

(* open_object fills the file object from the entry. *)
LEMMA OpenObject ==
  ASSUME NEW t, Good(t), t.res = "FR_OK", AtWindow(t), NEW mode
  PROVE  Opened(t, open_object(t, mode))
<1> DEFINE e == Entry(t)
           fl == mode \cap {"read", "write", "modified"}
           f == [Closed EXCEPT !.open = TRUE, !.flag = fl, !.sclust = e.clust, !.objsize = e.size,
                               !.dir_sect = t.fs.winsect, !.dir_ptr = Slot(t)]
           o == [t EXCEPT !.fp = f]
           p == [o EXCEPT !.fp.fptr = e.size]
           s == seek_end(p, e.clust, e.size)
           u == open_object(t, mode)
<1> SUFFICES Opened(t, u)
  OBVIOUS
<1>1. u = IF "seekend" \in mode /\ e.size > 0 THEN s ELSE o
  BY DEF open_object
<1> HIDE DEF u
<1>2. e \in Entries /\ Slot(t) \in 0 .. DirPerSector - 1
  BY SlotType
<1>3. t.fs.winsect \in DataArea /\ t.fs.winsect \in Nat
  BY WindowSector
<1>4. fl \in SUBSET Flags /\ "dirty" \notin fl
  BY DEF Flags
<1> HIDE DEF fl
<1>5. e.clust \in {0} \cup Clusters /\ e.clust \in Nat /\ e.size \in Nat
  BY <1>2, InFat DEF Entries
<1> HIDE DEF e
<1>6. /\ f \in Objects /\ f.fptr = 0 /\ f.objsize = e.size /\ f.flag = fl /\ f.err = "FR_OK"
      /\ f.dir_sect = t.fs.winsect /\ f.open = TRUE
  <2>1. Closed \in Objects /\ Closed.fptr = 0 /\ Closed.err = "FR_OK"
    BY ClosedOK DEF Closed
  <2> HIDE DEF Closed
  <2> DEFINE a == t.fs.winsect
             b == Slot(t)
             c == e.clust
             d == e.size
  <2>2. a \in Nat /\ b \in 0 .. DirPerSector - 1 /\ c \in {0} \cup Clusters /\ d \in Nat
    BY <1>2, <1>3, <1>5
  <2> HIDE DEF a, b, c, d
  <2> DEFINE g == [Closed EXCEPT !.open = TRUE, !.flag = fl, !.sclust = c, !.objsize = d,
                                 !.dir_sect = a, !.dir_ptr = b]
  <2>3. g \in Objects /\ g.fptr = 0 /\ g.objsize = d /\ g.flag = fl /\ g.err = "FR_OK"
        /\ g.dir_sect = a /\ g.open = TRUE
    BY <1>4, <2>1, <2>2 DEF Objects
  <2>4. f = g
    BY DEF a, b, c, d
  <2> HIDE DEF f, g
  <2> QED BY <2>3, <2>4 DEF a, d
<1> HIDE DEF f
<1>7. Goes(t, o) /\ o.fp = f /\ o.res = t.res
  BY <1>6, FpSet
<1> HIDE DEF o
<1>8. Pinned(o.fp) /\ FileOK(o.fp) /\ Good(o)
  BY <1>3, <1>4, <1>5, <1>6, <1>7, ZeroAligned DEF Pinned, FileOK, Goes
<1>9. CASE "seekend" \in mode /\ e.size > 0
  <2> DEFINE z == e.size
             c == e.clust
  <2>1. z \in Nat /\ c \in Nat /\ z > 0
    BY <1>5, <1>9
  <2> HIDE DEF z, c
  <2> DEFINE q == [o EXCEPT !.fp.fptr = z]
             v == seek_end(q, c, z)
  <2>2. u = v
    BY <1>1, <1>9 DEF z, c
  <2>3. Goes(o, q) /\ q.fp.fptr = z /\ Pinned(q.fp) /\ q.fp.objsize = z
    <3>1. Goes(o, q) /\ q.fp.fptr = z /\ Pinned(q.fp)
      BY <1>8, <2>1, FptrSet
    <3>2. q.fp.objsize = o.fp.objsize
      <4>1. o.fp \in Objects /\ o \in States
        BY <1>8 DEF Good, States
      <4> QED BY <4>1 DEF Objects, States
    <3> QED BY <1>6, <1>7, <3>1, <3>2 DEF z
  <2> HIDE DEF q
  <2>4. Good(q)
    BY <2>3 DEF Goes
  <2>5. Opens(q, v)
    BY <2>1, <2>3, <2>4, SeekEnd
  <2> HIDE DEF v
  <2>6. v.res = "FR_OK" => FileOK(v.fp)
    BY <2>1, <2>3, <2>5 DEF Opens, FileOK, Pinned
  <2>7. Goes(t, v)
    BY <1>7, <2>3, <2>5, GoesTrans DEF Opens
  <2> QED BY <2>2, <2>6, <2>7 DEF Opened
<1>10. CASE ~("seekend" \in mode /\ e.size > 0)
  BY <1>1, <1>7, <1>8, <1>10 DEF Opened
<1> QED BY <1>9, <1>10

(* open_found checks the entry against the mode, makes or empties it, and  *)
(* opens the file.                                                         *)
LEMMA OpenFound ==
  ASSUME NEW s, Good(s), s.fs.fs_type # 0, s.res = "FR_OK" => AtWindow(s), NEW mode
  PROVE  Opened(s, open_found(s, mode))
<1> DEFINE g == dir_register(s)
           a == IF s.res = "FR_NO_FILE" THEN g ELSE s
           c == open_create(a, mode, FALSE)
           b == IF a.res = "FR_OK" THEN c ELSE a
           k == open_create(s, mode, TRUE)
           m == mode \cup {"always", "modified"}
           n == IF "always" \in mode THEN mode \cup {"modified"} ELSE mode
           x == IF b.res = "FR_OK" THEN open_object(b, m) ELSE b
           y == IF k.res = "FR_OK" THEN open_object(k, n) ELSE k
           z == open_object(s, mode)
           u == open_found(s, mode)
<1> SUFFICES Opened(s, u)
  OBVIOUS
<1>1. /\ s.res # "FR_OK" => u \in {x, s}
      /\ s.res = "FR_OK" => u \in {y, z, Ret(s, "FR_DENIED"), Ret(s, "FR_EXIST"), Ret(s, "FR_NO_FILE")}
  <2>1. u = IF mode \cap {"always", "openalways", "new"} # {}
            THEN IF s.res # "FR_OK" THEN x
                 ELSE IF s.dp.attr \in {"dir", "ro"} THEN Ret(s, "FR_DENIED")
                 ELSE IF "new" \in mode THEN Ret(s, "FR_EXIST")
                 ELSE y
            ELSE IF s.res # "FR_OK" THEN s
            ELSE IF s.dp.attr = "dir" THEN Ret(s, "FR_NO_FILE")
            ELSE IF "write" \in mode /\ s.dp.attr = "ro" THEN Ret(s, "FR_DENIED")
            ELSE z
    BY DEF open_found, Then
  <2> HIDE DEF u, x, y, z
  <2> QED BY <2>1
<1> HIDE DEF u, n, m
<1>2. ASSUME NEW r, r \in Results, r # "FR_OK" PROVE Opened(s, Ret(s, r))
  <2> DEFINE v == Ret(s, r)
  <2>1. Works(s, v) /\ v.res = r
    BY <1>2, RetWorks
  <2> HIDE DEF v
  <2>2. Opened(s, v)
    BY <1>2, <2>1, WorksGoes DEF Opened
  <2> QED BY <2>2 DEF v
<1>3. Goes(s, s)
  BY SelfWorks, WorksGoes
<1>4. CASE s.res # "FR_OK"
  <2>1. /\ Works(s, a) /\ (a.res = "FR_OK" => AtWindow(a))
    <3>1. CASE s.res = "FR_NO_FILE"
      <4>1. DirDone(s, g)
        BY DirRegister
      <4>2. a = g
        BY <3>1
      <4> HIDE DEF g, a
      <4> QED BY <4>1, <4>2 DEF DirDone, ScanDone, AtWindow
    <3>2. CASE s.res # "FR_NO_FILE"
      <4>1. a = s
        BY <3>2
      <4> HIDE DEF a
      <4> QED BY <1>4, <4>1, SelfWorks
    <3> QED BY <3>1, <3>2
  <2> HIDE DEF a
  <2>2. Works(s, b) /\ (b.res = "FR_OK" => AtWindow(b))
    <3>1. CASE a.res = "FR_OK"
      <4> DEFINE no == FALSE
                 c1 == open_create(a, mode, no)
      <4>1. Good(a) /\ a.fs.fs_type # 0
        BY <2>1 DEF Works
      <4> HIDE DEF no
      <4>2. Works(a, c1) /\ (c1.res = "FR_OK" => AtWindow(c1))
        BY <2>1, <3>1, <4>1, OpenCreate
      <4>3. b = c1
        BY <3>1 DEF no
      <4> HIDE DEF b, c1
      <4> QED BY <2>1, <4>2, <4>3, WorksTrans
    <3>2. CASE a.res # "FR_OK"
      BY <2>1, <3>2
    <3> QED BY <3>1, <3>2
  <2> HIDE DEF b
  <2>3. Goes(s, b) /\ Good(b)
    BY <2>2, WorksGoes DEF Goes
  <2>4. Opened(s, x)
    <3>1. CASE b.res = "FR_OK"
      <4>1. Opened(b, open_object(b, m))
        BY <2>2, <2>3, <3>1, OpenObject
      <4> QED BY <2>3, <3>1, <4>1, OpenedTrans
    <3>2. CASE b.res # "FR_OK"
      BY <2>3, <3>2 DEF Opened
    <3> QED BY <3>1, <3>2
  <2> HIDE DEF x
  <2> QED BY <1>1, <1>3, <1>4, <2>4 DEF Opened
<1>5. CASE s.res = "FR_OK"
  <2>1. Works(s, k) /\ (k.res = "FR_OK" => AtWindow(k))
    <3> DEFINE yes == TRUE
               k1 == open_create(s, mode, yes)
    <3> HIDE DEF yes
    <3>1. Works(s, k1) /\ (k1.res = "FR_OK" => AtWindow(k1))
      BY <1>5, OpenCreate
    <3>2. k = k1
      BY DEF yes
    <3> HIDE DEF k, k1
    <3> QED BY <3>1, <3>2
  <2> HIDE DEF k
  <2>2. Goes(s, k) /\ Good(k)
    BY <2>1, WorksGoes DEF Goes
  <2>3. Opened(s, y)
    <3>1. CASE k.res = "FR_OK"
      <4>1. Opened(k, open_object(k, n))
        BY <2>1, <2>2, <3>1, OpenObject
      <4> QED BY <2>2, <3>1, <4>1, OpenedTrans
    <3>2. CASE k.res # "FR_OK"
      BY <2>2, <3>2 DEF Opened
    <3> QED BY <3>1, <3>2
  <2>4. Opened(s, z)
    BY <1>5, OpenObject
  <2> HIDE DEF y, z
  <2>5. {"FR_DENIED", "FR_EXIST", "FR_NO_FILE"} \subseteq Results
    BY DEF Results
  <2> QED BY <1>1, <1>2, <1>5, <2>3, <2>4, <2>5
<1> QED BY <1>4, <1>5

(* f_open keeps the volume and the file object in order. *)
LEMMA FOpen ==
  ASSUME NEW t, Good(t), NEW path, path \in Seq(Names), NEW mode
  PROVE  Runs(t, f_open(t, path, mode))
<1> DEFINE m == mount_volume(t)
           s == follow_path(m, path)
           i == IF s.res = "FR_OK" /\ s.dp.noname THEN Ret(s, "FR_INVALID_NAME") ELSE s
           f == open_found(i, mode)
           r == IF m.res = "FR_OK" THEN f ELSE m
           c == [r EXCEPT !.fp = Closed]
<1>1. f_open(t, path, mode) = IF r.res = "FR_OK" THEN r ELSE c
  BY DEF f_open, Upon, Then
<1>2. Mounted(t, m)
  BY MountVolume
<1> HIDE DEF m
<1>3. Runs(t, m) /\ Good(m)
  BY <1>2 DEF Mounted, Runs
<1>4. CASE m.res # "FR_OK"
  <2>1. r = m
    BY <1>4
  <2>2. Runs(m, [m EXCEPT !.fp = Closed])
    BY <1>3, FpClosed
  <2> HIDE DEF r
  <2> QED BY <1>1, <1>3, <1>4, <2>1, <2>2, RunsTrans
<1>5. CASE m.res = "FR_OK"
  <2>1. r = f /\ m.fs.fs_type # 0
    BY <1>2, <1>5 DEF Mounted
  <2>2. PathDone(m, s, path)
    BY <1>3, <2>1, FollowPath
  <2> HIDE DEF s, r
  <2>3. Works(m, s) /\ Good(s)
    BY <2>2 DEF PathDone, Works
  <2>4. Works(m, i) /\ (i.res = "FR_OK" => AtWindow(i))
    <3>1. CASE s.res = "FR_OK" /\ s.dp.noname
      <4> DEFINE v == Ret(s, "FR_INVALID_NAME")
      <4>1. Works(s, v) /\ v.res = "FR_INVALID_NAME"
        BY <2>3, RetWorks DEF Results
      <4>2. i = v
        BY <3>1
      <4> HIDE DEF v, i
      <4> QED BY <2>3, <4>1, <4>2, WorksTrans
    <3>2. CASE ~(s.res = "FR_OK" /\ s.dp.noname)
      <4>1. i = s
        BY <3>2
      <4> HIDE DEF i
      <4> QED BY <2>2, <2>3, <3>2, <4>1 DEF PathDone, AtWindow
    <3> QED BY <3>1, <3>2
  <2> HIDE DEF i
  <2>5. Good(i) /\ i.fs.fs_type # 0 /\ Goes(m, i)
    BY <2>1, <2>4, WorksGoes DEF Works
  <2>6. Opened(i, f)
    BY <2>4, <2>5, OpenFound
  <2> HIDE DEF f
  <2>7. Opened(m, r) /\ Good(r)
    BY <2>1, <2>5, <2>6, OpenedTrans DEF Opened, Goes
  <2>8. r.res = "FR_OK" => Runs(m, r)
    BY <2>7, GoesRuns DEF Opened
  <2>9. Runs(m, c)
    <3>1. Goes(r, c) /\ c.fp = Closed
      BY <2>7, FpSet, ClosedOK
    <3> HIDE DEF c
    <3>2. Goes(m, c)
      BY <2>7, <3>1, GoesTrans DEF Opened
    <3> QED BY <3>1, <3>2, ClosedOK, GoesRuns
  <2> HIDE DEF c
  <2> QED BY <1>1, <1>3, <2>8, <2>9, RunsTrans
<1> QED BY <1>4, <1>5

-----------------------------------------------------------------------------
(* f_unlink and f_stat. *)

(* Mounted, and the path followed. *)
Entered(t, m, s, path) ==
  /\ Runs(t, m) /\ Good(m) /\ m.out = t.out /\ m.fp = t.fp
  /\ m.res = "FR_OK" => m.fs.fs_type # 0 /\ s.fs.fs_type # 0 /\ Good(s) /\ PathDone(m, s, path)

(* Mounting and following a path. *)
LEMMA Enter ==
  ASSUME NEW t, Good(t), NEW path, path \in Seq(Names)
  PROVE  Entered(t, mount_volume(t), follow_path(mount_volume(t), path), path)
<1> DEFINE m == mount_volume(t)
           s == follow_path(m, path)
<1>1. Mounted(t, m)
  BY MountVolume
<1> HIDE DEF m
<1>2. Runs(t, m) /\ Good(m) /\ m.out = t.out /\ m.fp = t.fp
  BY <1>1 DEF Mounted, Runs
<1>3. ASSUME m.res = "FR_OK" PROVE m.fs.fs_type # 0 /\ s.fs.fs_type # 0 /\ Good(s) /\ PathDone(m, s, path)
  <2>1. m.fs.fs_type # 0
    BY <1>1, <1>3 DEF Mounted
  <2>2. PathDone(m, s, path)
    BY <1>2, <2>1, FollowPath
  <2> HIDE DEF s
  <2> QED BY <2>1, <2>2 DEF PathDone, Works
<1> HIDE DEF s
<1>4. Entered(t, m, s, path)
  BY <1>2, <1>3 DEF Entered
<1> QED BY <1>4 DEF m, s

(* A call goes on with work on the volume. *)
LEMMA RunsWorks ==
  ASSUME NEW t, NEW m, NEW u, Runs(t, m), Works(m, u)
  PROVE  Runs(t, u)
  BY WorksRuns, RunsTrans

(* A call returns a result. *)
LEMMA RunsRet ==
  ASSUME NEW t, NEW m, Runs(t, m), NEW r, r \in Results
  PROVE  Runs(t, Ret(m, r))
<1>1. Works(m, Ret(m, r))
  BY RetWorks DEF Runs
<1> QED BY <1>1, RunsWorks

(* Setting what the call returns leaves the volume as it is. *)
LEMMA OutSet ==
  ASSUME NEW t, Good(t), NEW o, o \in Outs
  PROVE  Runs(t, [t EXCEPT !.out = o])
<1> DEFINE u == [t EXCEPT !.out = o]
<1>1. t \in States
  BY DEF Good
<1>2. u \in States /\ u.disk = t.disk /\ u.fs = t.fs /\ u.fp = t.fp /\ u.fault = t.fault
  BY <1>1 DEF States
<1> HIDE DEF u
<1>3. Runs(t, u)
  BY <1>2 DEF Runs, Good, Exact, Neat
<1> QED BY <1>3 DEF u

(* Setting the DIR object of f_readdir leaves the volume as it is. *)
LEMMA DjSet ==
  ASSUME NEW t, Good(t), NEW d, d \in Dirs
  PROVE  Runs(t, [t EXCEPT !.dj = d])
<1> DEFINE u == [t EXCEPT !.dj = d]
<1>1. t \in States
  BY DEF Good
<1>2. u \in States /\ u.disk = t.disk /\ u.fs = t.fs /\ u.fp = t.fp /\ u.fault = t.fault
  BY <1>1 DEF States
<1> HIDE DEF u
<1>3. Runs(t, u)
  BY <1>2 DEF Runs, Good, Exact, Neat
<1> QED BY <1>3 DEF u

(* unlink_allowed refuses a directory that is not empty, and leaves the    *)
(* DIR object at the entry.                                                *)
LEMMA UnlinkAllowed ==
  ASSUME NEW t, Good(t), t.fs.fs_type # 0
  PROVE  Works(t, unlink_allowed(t)) /\ (unlink_allowed(t).res = "FR_OK" => unlink_allowed(t).dp = t.dp)
<1> DEFINE c == Entry(t).clust
           k == [NewDir EXCEPT !.sclust = c]
           q == [t EXCEPT !.dp = k]
           i == dir_sdi(q)
           j == dir_read(i)
           d == IF i.res = "FR_OK" THEN j ELSE i
           b == [d EXCEPT !.dp = t.dp]
           x == CASE d.res = "FR_OK" -> "FR_DENIED"
                  [] d.res = "FR_NO_FILE" -> "FR_OK"
                  [] OTHER -> d.res
           v == Ret(b, x)
           u == unlink_allowed(t)
<1> SUFFICES Works(t, u) /\ (u.res = "FR_OK" => u.dp = t.dp)
  OBVIOUS
<1>1. u \in {Ret(t, "FR_INVALID_NAME"), Ret(t, "FR_DENIED"), t, v}
  <2>1. u = IF t.dp.noname THEN Ret(t, "FR_INVALID_NAME")
            ELSE IF t.dp.attr = "ro" THEN Ret(t, "FR_DENIED")
            ELSE IF t.dp.attr # "dir" THEN t ELSE v
    BY DEF unlink_allowed, Upon, Then
  <2> HIDE DEF u, v
  <2> QED BY <2>1
<1> HIDE DEF u
<1>2. c \in {0} \cup Clusters
  BY SlotType DEF Entries
<1> HIDE DEF c
<1>3. k \in Dirs
  BY <1>2, FreshDir
<1> HIDE DEF k
<1>4. Works(t, q) /\ Good(q)
  BY <1>3, DpWorks DEF Works
<1> HIDE DEF q
<1>5. Works(q, i) /\ i.res = "FR_OK"
  BY <1>4, DirSdi
<1> HIDE DEF i
<1>6. Works(t, i) /\ Good(i) /\ i.fs.fs_type # 0
  BY <1>4, <1>5, WorksTrans DEF Works
<1>7. Works(i, j)
  BY <1>6, DirRead
<1>8. d = j
  BY <1>5
<1> HIDE DEF j, d
<1>9. Works(t, d) /\ Good(d)
  BY <1>6, <1>7, <1>8, WorksTrans DEF Works
<1>10. t.dp \in Dirs /\ d.res \in Results
  BY <1>9, FsTypes DEF Good
<1>11. Works(d, b) /\ b.dp = t.dp
  <2> DEFINE p == t.dp
  <2> HIDE DEF p
  <2>1. Works(d, [d EXCEPT !.dp = p]) /\ [d EXCEPT !.dp = p].dp = p
    <3>1. p \in Dirs
      BY <1>10 DEF p
    <3> QED BY <1>9, <3>1, DpWorks
  <2> QED BY <2>1 DEF p
<1> HIDE DEF b
<1>12. x \in Results
  BY <1>10 DEF Results
<1> HIDE DEF x
<1>13. Works(t, v) /\ v.dp = t.dp
  <2>1. Good(b) /\ Works(t, b)
    BY <1>9, <1>11, WorksTrans DEF Works
  <2>2. Works(b, v) /\ v.dp = b.dp
    BY <1>12, <2>1, RetWorks
  <2> HIDE DEF v
  <2> QED BY <1>11, <2>1, <2>2, WorksTrans
<1> HIDE DEF v
<1>14. ASSUME NEW r, r \in Results PROVE Works(t, Ret(t, r)) /\ Ret(t, r).dp = t.dp
  BY <1>14, RetWorks
<1>15. {"FR_DENIED", "FR_INVALID_NAME"} \subseteq Results
  BY DEF Results
<1> QED BY <1>1, <1>13, <1>14, <1>15, SelfWorks

(* f_unlink removes the entry, frees the chain and keeps the volume in     *)
(* order.                                                                  *)
LEMMA FUnlink ==
  ASSUME NEW t, Good(t), NEW path, path \in Seq(Names)
  PROVE  Runs(t, f_unlink(t, path))
<1> DEFINE m == mount_volume(t)
           s == follow_path(m, path)
           c == Entry(s).clust
           z == 0
           a == unlink_allowed(s)
           d == dir_remove(a)
           r == remove_chain(d, c, z)
           e == IF c # 0 THEN r ELSE d
           y == sync_fs(e)
           u == f_unlink(t, path)
<1> SUFFICES Runs(t, u)
  OBVIOUS
<1>1. u = IF m.res # "FR_OK" THEN m ELSE IF s.res # "FR_OK" THEN s
          ELSE IF a.res # "FR_OK" THEN a ELSE IF d.res # "FR_OK" THEN d
          ELSE IF e.res # "FR_OK" THEN e ELSE y
  BY DEF f_unlink, Then
<1> HIDE DEF u, z
<1>2. Entered(t, m, s, path)
  BY Enter
<1> HIDE DEF m, s
<1>3. CASE m.res # "FR_OK"
  BY <1>1, <1>2, <1>3 DEF Entered
<1>4. CASE m.res = "FR_OK"
  <2>1. Runs(t, m) /\ Works(m, s) /\ s.fs.fs_type # 0 /\ Good(s) /\ (s.res = "FR_OK" => AtEntry(s.dp))
    BY <1>2, <1>4 DEF Entered, PathDone
  <2>2. Runs(t, s)
    BY <2>1, RunsWorks
  <2>3. CASE s.res # "FR_OK"
    BY <1>1, <1>4, <2>2, <2>3
  <2>4. CASE s.res = "FR_OK"
    <3>1. c \in {0} \cup Clusters
      BY <2>1, SlotType DEF Entries
    <3> HIDE DEF c
    <3>2. Works(s, a) /\ (a.res = "FR_OK" => a.dp = s.dp)
      BY <2>1, UnlinkAllowed
    <3> HIDE DEF a
    <3>3. Runs(t, a) /\ Good(a) /\ a.fs.fs_type # 0
      BY <2>1, <2>2, <3>2, RunsWorks DEF Works
    <3>4. CASE a.res # "FR_OK"
      BY <1>1, <1>4, <2>4, <3>3, <3>4
    <3>5. CASE a.res = "FR_OK"
      <4>1. Works(a, d)
        BY <2>1, <2>4, <3>2, <3>3, <3>5, DirRemove
      <4> HIDE DEF d
      <4>2. Runs(t, d) /\ Good(d) /\ d.fs.fs_type # 0
        BY <3>3, <4>1, RunsWorks DEF Works
      <4>3. Works(d, e)
        <5>1. CASE c # 0
          <6>1. c \in Clusters /\ c \in Nat /\ z \in Nat /\ z \notin Clusters
            BY <3>1, <5>1, InFat DEF z
          <6>2. Works(d, r)
            BY <4>2, <6>1, RemoveChain
          <6> HIDE DEF r
          <6> QED BY <5>1, <6>2
        <5>2. CASE c = 0
          BY <4>2, <5>2, SelfWorks
        <5> QED BY <5>1, <5>2
      <4> HIDE DEF e
      <4>4. Runs(t, e) /\ Good(e) /\ e.fs.fs_type # 0
        BY <4>2, <4>3, RunsWorks DEF Works
      <4>5. SyncFsDone(e, y)
        BY <4>4, SyncFs
      <4> HIDE DEF y
      <4>6. Runs(t, y)
        BY <4>4, <4>5, RunsWorks DEF SyncFsDone
      <4> QED BY <1>1, <1>4, <2>4, <3>5, <4>2, <4>4, <4>6
    <3> QED BY <3>4, <3>5
  <2> QED BY <2>3, <2>4
<1> QED BY <1>3, <1>4

(* f_stat keeps the volume in order. *)
LEMMA FStat ==
  ASSUME NEW t, Good(t), NEW path, path \in Seq(Names)
  PROVE  Runs(t, f_stat(t, path))
<1> DEFINE m == mount_volume(t)
           s == follow_path(m, path)
           i == get_fileinfo(s)
           v == Ret(s, "FR_INVALID_NAME")
           w == [s EXCEPT !.out = i]
           u == f_stat(t, path)
<1> SUFFICES Runs(t, u)
  OBVIOUS
<1>1. u = IF m.res # "FR_OK" THEN m ELSE IF s.res # "FR_OK" THEN s
          ELSE IF s.dp.noname THEN v ELSE w
  BY DEF f_stat, Then
<1> HIDE DEF u
<1>2. Entered(t, m, s, path)
  BY Enter
<1> HIDE DEF m, s
<1>3. CASE m.res # "FR_OK"
  BY <1>1, <1>2, <1>3 DEF Entered
<1>4. CASE m.res = "FR_OK"
  <2>1. Runs(t, m) /\ Works(m, s) /\ Good(s)
    BY <1>2, <1>4 DEF Entered, PathDone
  <2>2. Runs(t, s)
    BY <2>1, RunsWorks
  <2>3. i \in Outs
    BY <2>1, SlotType DEF Outs
  <2> HIDE DEF i
  <2>4. Runs(s, w)
    BY <2>1, <2>3, OutSet
  <2>5. Runs(t, v)
    BY <2>2, RunsRet DEF Results
  <2> HIDE DEF v, w
  <2> QED BY <1>1, <1>4, <2>2, <2>4, <2>5, RunsTrans
<1> QED BY <1>3, <1>4

-----------------------------------------------------------------------------
(* f_opendir, f_readdir, f_closedir and f_rename. *)

(* Setting the directory of the DIR object leaves the volume as it is. *)
LEMMA SclustSet ==
  ASSUME NEW t, Good(t), NEW c, c \in {0} \cup Clusters
  PROVE  Works(t, [t EXCEPT !.dp.sclust = c])
<1> DEFINE d == [t.dp EXCEPT !.sclust = c]
<1>1. d \in Dirs
  <2>1. t.dp \in Dirs
    BY FsTypes DEF Good
  <2> QED BY <2>1 DEF Dirs
<1>2. [t EXCEPT !.dp.sclust = c] = [t EXCEPT !.dp = d]
  OBVIOUS
<1> HIDE DEF d
<1>3. Works(t, [t EXCEPT !.dp = d])
  BY <1>1, DpWorks
<1> QED BY <1>2, <1>3

(* The DIR object of a listing, from that of the call. *)
LEMMA Listed ==
  ASSUME NEW d, d \in Dirs
  PROVE  /\ [d EXCEPT !.open = TRUE, !.fn = "", !.attr = ""] \in Dirs
         /\ [d EXCEPT !.fn = "", !.attr = ""] \in Dirs
<1>1. "" \in Names
  BY NamesAssumption
<1>2. "" \in Attributes
  BY DEF Attributes
<1> QED BY <1>1, <1>2 DEF Dirs

(* f_opendir keeps the volume in order. *)
LEMMA FOpendir ==
  ASSUME NEW t, Good(t), NEW path, path \in Seq(Names)
  PROVE  Runs(t, f_opendir(t, path))
<1> DEFINE m == mount_volume(t)
           s == follow_path(m, path)
           c == Entry(s).clust
           q == [s EXCEPT !.dp.sclust = c]
           a == dir_sdi(s)
           b == dir_sdi(q)
           n == Ret(s, "FR_NO_PATH")
           k == IF s.dp.noname THEN a ELSE IF s.dp.attr = "dir" THEN b ELSE n
           r == IF m.res # "FR_OK" THEN m ELSE IF s.res # "FR_OK" THEN s ELSE k
           d == [r.dp EXCEPT !.open = TRUE, !.fn = "", !.attr = ""]
           v == [r EXCEPT !.dj = d]
           w == Ret(r, "FR_NO_PATH")
           u == f_opendir(t, path)
<1> SUFFICES Runs(t, u)
  OBVIOUS
<1>1. u \in {v, w, r}
  <2>1. u = CASE r.res = "FR_OK" -> v [] r.res = "FR_NO_FILE" -> w [] OTHER -> r
    BY DEF f_opendir, Then, Upon
  <2> HIDE DEF u, v, w, r
  <2> QED BY <2>1
<1> HIDE DEF u
<1>2. Entered(t, m, s, path)
  BY Enter
<1> HIDE DEF m, s
<1>3. Runs(t, r)
  <2>1. CASE m.res # "FR_OK"
    BY <1>2, <2>1 DEF Entered
  <2>2. CASE m.res = "FR_OK"
    <3>1. Runs(t, m) /\ Works(m, s) /\ Good(s)
      BY <1>2, <2>2 DEF Entered, PathDone
    <3>2. Runs(t, s)
      BY <3>1, RunsWorks
    <3>3. Runs(t, n)
      BY <3>2, RunsRet DEF Results
    <3> HIDE DEF n
    <3>4. Works(s, a)
      BY <3>1, DirSdi
    <3> HIDE DEF a
    <3>5. c \in {0} \cup Clusters
      BY <3>1, SlotType DEF Entries
    <3> HIDE DEF c
    <3>6. Works(s, q) /\ Good(q)
      <4>1. Works(s, q)
        BY <3>1, <3>5, SclustSet
      <4> QED BY <4>1 DEF Works
    <3> HIDE DEF q
    <3>7. Works(q, b)
      BY <3>6, DirSdi
    <3> HIDE DEF b
    <3>8. Runs(t, a) /\ Runs(t, b)
      BY <3>2, <3>4, <3>6, <3>7, RunsWorks
    <3>9. Runs(t, k)
      BY <3>3, <3>8
    <3> HIDE DEF k
    <3> QED BY <2>2, <3>2, <3>9
  <2> QED BY <2>1, <2>2
<1> HIDE DEF r
<1>4. Good(r) /\ r.dp \in Dirs
  BY <1>3, FsTypes DEF Runs, Good
<1>5. d \in Dirs
  BY <1>4, Listed
<1> HIDE DEF d
<1>6. Runs(r, v)
  BY <1>4, <1>5, DjSet
<1>7. Runs(t, w)
  BY <1>3, RunsRet DEF Results
<1> HIDE DEF v, w
<1> QED BY <1>1, <1>3, <1>6, <1>7, RunsTrans

(* f_readdir keeps the volume in order. *)
LEMMA FReaddir ==
  ASSUME NEW t, Good(t), dj \in Dirs
  PROVE  Runs(t, f_readdir(t))
<1> DEFINE p == [t EXCEPT !.dp = dj]
           x == IF dj.open /\ t.fs.fs_type # 0 THEN "FR_OK" ELSE "FR_INVALID_OBJECT"
           v == Ret(p, x)
           a == dir_read(v)
           b == IF v.res = "FR_OK" THEN a ELSE v
           e == IF b.res = "FR_NO_FILE" THEN Ret(b, "FR_OK") ELSE b
           o == get_fileinfo(e).name
           g == [e EXCEPT !.out = o]
           h == dir_next(g, FALSE)
           n == IF h.res = "FR_NO_FILE" THEN Ret(h, "FR_OK") ELSE h
           r == IF e.res = "FR_OK" THEN n ELSE e
           d == [r.dp EXCEPT !.fn = "", !.attr = ""]
           u == [r EXCEPT !.dj = d]
<1>1. f_readdir(t) = u
  BY DEF f_readdir, Then, Upon
<1> SUFFICES Runs(t, u)
  BY <1>1
<1>2. x \in Results /\ (x = "FR_OK" => t.fs.fs_type # 0)
  BY DEF Results
<1> HIDE DEF x
<1>3. Works(t, p) /\ Good(p)
  BY DpWorks DEF Works
<1> HIDE DEF p
<1>4. Works(p, v) /\ v.res = x
  BY <1>2, <1>3, RetWorks
<1> HIDE DEF v
<1>5. Works(t, v) /\ Good(v) /\ (v.res = "FR_OK" => v.fs.fs_type # 0)
  BY <1>2, <1>3, <1>4, WorksTrans DEF Works
<1>6. Works(t, b) /\ Good(b) /\ (v.res = "FR_OK" \/ b.res = "FR_INVALID_OBJECT")
  <2>1. CASE v.res = "FR_OK"
    <3>1. Works(v, a)
      BY <1>5, <2>1, DirRead
    <3> HIDE DEF a
    <3>2. Works(t, a)
      BY <1>5, <3>1, WorksTrans
    <3> QED BY <2>1, <3>2 DEF Works
  <2>2. CASE v.res # "FR_OK"
    <3>1. b = v
      BY <2>2
    <3>2. x = "FR_INVALID_OBJECT"
      BY <1>4, <2>2 DEF x
    <3> QED BY <1>4, <1>5, <3>1, <3>2
  <2> QED BY <2>1, <2>2
<1> HIDE DEF b, a
<1>7. Works(t, e) /\ Good(e) /\ (e.res = "FR_OK" => e.fs.fs_type # 0)
  <2>1. CASE b.res = "FR_NO_FILE"
    <3> DEFINE f == Ret(b, "FR_OK")
    <3>1. Works(b, f)
      BY <1>6, RetWorks DEF Results
    <3>2. e = f
      BY <2>1
    <3> HIDE DEF e, f
    <3>3. Works(t, f)
      BY <1>6, <3>1, WorksTrans
    <3>4. v.fs.fs_type = t.fs.fs_type /\ f.fs.fs_type = t.fs.fs_type
      BY <1>5, <3>3 DEF Works
    <3>5. v.res = "FR_OK"
      BY <1>6, <2>1
    <3> QED BY <1>5, <3>2, <3>3, <3>4, <3>5 DEF Works
  <2>2. CASE b.res # "FR_NO_FILE"
    <3>1. e = b
      BY <2>2
    <3> HIDE DEF e
    <3>2. v.fs.fs_type = t.fs.fs_type /\ b.fs.fs_type = t.fs.fs_type
      BY <1>5, <1>6 DEF Works
    <3> QED BY <1>5, <1>6, <3>1, <3>2
  <2> QED BY <2>1, <2>2
<1> HIDE DEF e
<1>8. Runs(t, e)
  BY <1>7, WorksRuns
<1>9. o \in Outs
  <2>1. get_fileinfo(e) \in Entries
    BY <1>7, SlotType
  <2> QED BY <2>1 DEF Outs, Entries
<1> HIDE DEF o
<1>10. Runs(t, r)
  <2>1. CASE e.res = "FR_OK"
    <3>1. Runs(e, g)
      BY <1>7, <1>9, OutSet
    <3>2. g.fs = e.fs
      BY <1>7 DEF Good, States
    <3> HIDE DEF g
    <3>3. Runs(t, g) /\ Good(g) /\ g.fs.fs_type # 0
      BY <1>7, <1>8, <2>1, <3>1, <3>2, RunsTrans DEF Runs
    <3>4. Works(g, h)
      <4> DEFINE y == FALSE
      <4> HIDE DEF y
      <4>1. NextDone(g, dir_next(g, y))
        BY <3>3, DirNext
      <4> QED BY <4>1 DEF y, NextDone
    <3> HIDE DEF h
    <3>5. Runs(t, h)
      BY <3>3, <3>4, RunsWorks
    <3>6. Runs(t, Ret(h, "FR_OK"))
      BY <3>5, RunsRet DEF Results
    <3>7. Runs(t, n)
      BY <3>5, <3>6
    <3> HIDE DEF n
    <3> QED BY <2>1, <3>7
  <2>2. CASE e.res # "FR_OK"
    BY <1>8, <2>2
  <2> QED BY <2>1, <2>2
<1> HIDE DEF r
<1>11. Good(r) /\ r.dp \in Dirs
  BY <1>10, FsTypes DEF Runs, Good
<1>12. d \in Dirs
  BY <1>11, Listed
<1> HIDE DEF d
<1>13. Runs(r, u)
  BY <1>11, <1>12, DjSet
<1> QED BY <1>10, <1>13, RunsTrans

(* f_closedir keeps the volume in order. *)
LEMMA FClosedir ==
  ASSUME NEW t, Good(t)
  PROVE  Runs(t, f_closedir(t))
  BY FreshDir, DjSet DEF f_closedir

(* A sector that clst2sect gives is in the data area. *)
LEMMA ToCluster ==
  ASSUME NEW c, clst2sect(c) # 0
  PROVE  clst2sect(c) \in DataArea /\ clst2sect(c) \in Nat
<1>1. c \in Clusters
  BY NoCluster
<1> DEFINE o == 0
<1>2. o \in 0 .. Csize - 1 /\ o = 0
  BY Sectors
<1> HIDE DEF o
<1>3. clst2sect(c) + o \in DataArea /\ clst2sect(c) \in Nat
  BY <1>1, <1>2, ClusterSectors
<1> HIDE DEF o
<1> QED BY <1>2, <1>3

(* ".." of the directory at the cluster x is set to the one at y. *)
MovedUp(t, x, y) ==
  Then(move_window(t, clst2sect(x)), LAMBDA w:
    LET up == EntriesOf(w.fs.win)[1]
    IN IF up.name # ".." THEN w ELSE SetSlot(w, 1, [up EXCEPT !.clust = y]))

(* Setting ".." leaves the FAT as it is. *)
LEMMA MoveUp ==
  ASSUME NEW t, Good(t), t.fs.fs_type # 0, NEW x, clst2sect(x) # 0, NEW y, y \in {0} \cup Clusters
  PROVE  Works(t, MovedUp(t, x, y))
<1> DEFINE w == move_window(t, clst2sect(x))
           i == 1
           e == EntriesOf(w.fs.win)[i]
           f == [e EXCEPT !.clust = y]
           s == SetSlot(w, i, f)
           u == MovedUp(t, x, y)
<1> SUFFICES Works(t, u)
  OBVIOUS
<1>1. u = IF w.res # "FR_OK" THEN w ELSE IF e.name # ".." THEN w ELSE s
  BY DEF MovedUp, Then
<1> HIDE DEF u
<1>2. i \in 0 .. DirPerSector - 1
  BY Sectors
<1> HIDE DEF i
<1>3. MoveDone(t, w, clst2sect(x))
  BY ToCluster, MoveWindow
<1> HIDE DEF w
<1>4. Works(t, w) /\ Good(w) /\ w.fs.fs_type # 0 /\ (w.res = "FR_OK" => w.fs.winsect \in DataArea)
  BY <1>3, ToCluster DEF MoveDone, Works
<1>5. e \in Entries
  BY <1>2, <1>4, FsTypes, TableType DEF Good, EntryTable
<1> HIDE DEF e
<1>6. f \in Entries
  BY <1>5 DEF Entries
<1> HIDE DEF f
<1>7. w.res = "FR_OK" => SlotDone(w, s)
  BY <1>2, <1>4, <1>6, SetSlotWorks
<1> HIDE DEF s
<1>8. w.res = "FR_OK" => Works(t, s)
  BY <1>4, <1>7, WorksTrans DEF SlotDone
<1> QED BY <1>1, <1>4, <1>8

(* rename_to makes the new entry, sets ".." of a directory that moved and  *)
(* removes the old entry.                                                  *)
LEMMA RenameTo ==
  ASSUME NEW n, Good(n), n.fs.fs_type # 0, NEW o, Good(o)
  PROVE  Works(n, rename_to(o, n))
<1> DEFINE e == Entry(o)
           taken == n.res = "FR_OK" /\ ~(n.dp.sclust = o.dp.sclust /\ n.dp.dptr = o.dp.dptr)
           x == IF taken THEN "FR_EXIST" ELSE IF n.res = "FR_NO_FILE" THEN "FR_OK" ELSE n.res
           c == Ret(n, x)
           r == dir_register(c)
           b == r.dp.sect # o.dp.sect
           q == [r EXCEPT !.split = b]
           f == [e EXCEPT !.name = Entry(q).name]
           p == SetEntry(q, f)
           v == MovedUp(p, e.clust, n.dp.sclust)
           i == Ret(p, "FR_INT_ERR")
           u == rename_to(o, n)
<1> SUFFICES Works(n, u)
  OBVIOUS
<1>1. u = IF c.res # "FR_OK" THEN c ELSE IF r.res # "FR_OK" THEN r
          ELSE IF e.attr # "dir" \/ n.dp.sclust = o.dp.sclust THEN p
          ELSE IF clst2sect(e.clust) = 0 THEN i ELSE v
  BY DEF rename_to, Then, MovedUp
<1> HIDE DEF u
<1>2. x \in Results /\ e \in Entries /\ n.dp.sclust \in {0} \cup Clusters
  <2>1. n.res \in Results /\ n.dp \in Dirs
    BY FsTypes DEF Good
  <2> QED BY <2>1, SlotType DEF Results, Dirs
<1> HIDE DEF x, e
<1>3. Works(n, c) /\ Good(c) /\ c.fs.fs_type # 0
  <2>1. Works(n, c)
    BY <1>2, RetWorks
  <2> QED BY <2>1 DEF Works
<1> HIDE DEF c
<1>4. DirDone(c, r)
  BY <1>3, DirRegister
<1> HIDE DEF r
<1>5. Works(n, r) /\ Good(r) /\ r.fs.fs_type # 0
  BY <1>3, <1>4, WorksTrans DEF DirDone, ScanDone, Works
<1>6. CASE c.res # "FR_OK" \/ r.res # "FR_OK"
  BY <1>1, <1>3, <1>5, <1>6
<1>7. CASE c.res = "FR_OK" /\ r.res = "FR_OK"
  <2>1. AtEntry(r.dp) /\ r.fs.winsect = r.dp.sect
    BY <1>4, <1>7 DEF DirDone, ScanDone
  <2>2. b \in BOOLEAN
    OBVIOUS
  <2> HIDE DEF b
  <2>3. Works(r, q) /\ q.fs = r.fs /\ q.dp = r.dp
    BY <1>5, <2>2, SplitWorks
  <2> HIDE DEF q
  <2>4. Works(n, q) /\ Good(q) /\ q.fs.fs_type # 0 /\ AtEntry(q.dp) /\ q.fs.winsect = q.dp.sect
    BY <1>5, <2>1, <2>3, WorksTrans DEF Works
  <2>5. f \in Entries
    BY <1>2, <2>4, SlotType DEF Entries
  <2> HIDE DEF f
  <2>6. Works(q, p)
    BY <2>4, <2>5, EntrySet1
  <2> HIDE DEF p
  <2>7. Works(n, p) /\ Good(p) /\ p.fs.fs_type # 0
    BY <2>4, <2>6, WorksTrans DEF Works
  <2>8. Works(p, i)
    BY <2>7, RetWorks DEF Results
  <2>9. clst2sect(e.clust) # 0 => Works(p, v)
    BY <1>2, <2>7, MoveUp
  <2> HIDE DEF i, v
  <2> QED BY <1>1, <1>7, <2>7, <2>8, <2>9, WorksTrans
<1> QED BY <1>6, <1>7

(* f_rename keeps the volume in order. *)
LEMMA FRename ==
  ASSUME NEW t, Good(t), NEW from, from \in Seq(Names), NEW to, to \in Seq(Names)
  PROVE  Runs(t, f_rename(t, from, to))
<1> DEFINE m == mount_volume(t)
           o == follow_path(m, from)
           n == follow_path(o, to)
           l == rename_to(o, n)
           q == [l EXCEPT !.dp = o.dp]
           d == dir_remove(q)
           y == sync_fs(d)
           v == Ret(o, "FR_INVALID_NAME")
           u == f_rename(t, from, to)
<1> SUFFICES Runs(t, u)
  OBVIOUS
<1>1. u = IF m.res # "FR_OK" THEN m ELSE IF o.res # "FR_OK" THEN o
          ELSE IF o.dp.noname THEN v ELSE IF l.res # "FR_OK" THEN l
          ELSE IF d.res # "FR_OK" THEN d ELSE y
  BY DEF f_rename, Then, Upon
<1> HIDE DEF u
<1>2. Entered(t, m, o, from)
  BY Enter
<1> HIDE DEF m, o
<1>3. CASE m.res # "FR_OK"
  BY <1>1, <1>2, <1>3 DEF Entered
<1>4. CASE m.res = "FR_OK"
  <2>1. Runs(t, m) /\ Works(m, o) /\ o.fs.fs_type # 0 /\ Good(o) /\ (o.res = "FR_OK" => AtEntry(o.dp))
    BY <1>2, <1>4 DEF Entered, PathDone
  <2>2. Runs(t, o)
    BY <2>1, RunsWorks
  <2>3. Runs(t, v)
    BY <2>2, RunsRet DEF Results
  <2> HIDE DEF v
  <2>4. CASE o.res # "FR_OK"
    BY <1>1, <1>4, <2>2, <2>4
  <2>5. CASE o.res = "FR_OK"
    <3>1. PathDone(o, n, to)
      BY <2>1, FollowPath
    <3> HIDE DEF n
    <3>2. Works(o, n) /\ Good(n) /\ n.fs.fs_type # 0
      BY <2>1, <3>1 DEF PathDone, Works
    <3>3. Works(n, l)
      BY <2>1, <3>2, RenameTo
    <3> HIDE DEF l
    <3>4. Works(o, l) /\ Good(l) /\ l.fs.fs_type # 0
      BY <3>2, <3>3, WorksTrans DEF Works
    <3>5. Works(l, q) /\ q.dp = o.dp
      <4> DEFINE p == o.dp
      <4>1. p \in Dirs
        BY <2>1, FsTypes DEF Good
      <4> HIDE DEF p
      <4>2. Works(l, [l EXCEPT !.dp = p]) /\ [l EXCEPT !.dp = p].dp = p
        BY <3>4, <4>1, DpWorks
      <4> QED BY <4>2 DEF p
    <3> HIDE DEF q
    <3>6. Good(q) /\ q.fs.fs_type # 0 /\ AtEntry(q.dp)
      BY <2>1, <2>5, <3>4, <3>5 DEF Works
    <3>7. Works(q, d)
      BY <3>6, DirRemove
    <3> HIDE DEF d
    <3>8. Works(o, d) /\ Good(d) /\ d.fs.fs_type # 0
      BY <3>4, <3>5, <3>6, <3>7, WorksTrans DEF Works
    <3>9. SyncFsDone(d, y)
      BY <3>8, SyncFs
    <3> HIDE DEF y
    <3>10. Works(o, y)
      BY <3>8, <3>9, WorksTrans DEF SyncFsDone
    <3>11. Runs(t, l) /\ Runs(t, d) /\ Runs(t, y)
      BY <2>2, <3>4, <3>8, <3>10, RunsWorks
    <3> QED BY <1>1, <1>4, <2>3, <2>5, <3>11
  <2> QED BY <2>4, <2>5
<1> QED BY <1>3, <1>4

-----------------------------------------------------------------------------
(* f_mkdir. *)

(* Setting "." and ".." of a new directory leaves the FAT as it is. *)
LEMMA TableSet ==
  ASSUME NEW d, Good(d), d.fs.fs_type # 0, d.fs.winsect \in DataArea, NEW c, c \in Clusters,
         NEW y, y \in {0} \cup Clusters
  PROVE  Works(d, SetSlot(SetSlot(d, 0, Dot(c)), 1, [Dot(y) EXCEPT !.name = ".."]))
<1> DEFINE i == 0
           j == 1
           e == Dot(c)
           f == [Dot(y) EXCEPT !.name = ".."]
           s == SetSlot(d, i, e)
           u == SetSlot(s, j, f)
<1>1. i \in 0 .. DirPerSector - 1 /\ j \in 0 .. DirPerSector - 1
  BY Sectors
<1>2. e \in Entries /\ f \in Entries
  <2>1. {".", ".."} \subseteq Names
    BY NamesAssumption
  <2>2. "dir" \in Attributes
    BY DEF Attributes
  <2> QED BY <2>1, <2>2 DEF Dot, Entries
<1> HIDE DEF i, j, e, f
<1>3. SlotDone(d, s)
  BY <1>1, <1>2, SetSlotWorks
<1> HIDE DEF s
<1>4. Works(d, s) /\ Good(s) /\ s.fs.fs_type # 0 /\ s.fs.winsect \in DataArea
  BY <1>3 DEF SlotDone, Works
<1>5. SlotDone(s, u)
  BY <1>1, <1>2, <1>4, SetSlotWorks
<1> HIDE DEF u
<1>6. Works(d, u)
  BY <1>4, <1>5, WorksTrans DEF SlotDone
<1> QED BY <1>6 DEF u, s, i, j, e, f

(* The table of a new directory is written, and its entry made. *)
Registers(s, c) ==
  Then(dir_clear(s, c), LAMBDA d:
    dir_register(SetSlot(SetSlot(d, 0, Dot(c)), 1, [Dot(d.dp.sclust) EXCEPT !.name = ".."])))

(* A new directory gets its table and its entry. *)
LEMMA RegistersDone ==
  ASSUME NEW s, Good(s), s.fs.fs_type # 0, NEW c, c \in Clusters
  PROVE  LET u == Registers(s, c) IN Works(s, u) /\ (u.res = "FR_OK" => AtWindow(u))
<1> DEFINE d == dir_clear(s, c)
           y == d.dp.sclust
           b == SetSlot(SetSlot(d, 0, Dot(c)), 1, [Dot(y) EXCEPT !.name = ".."])
           r == dir_register(b)
           u == Registers(s, c)
<1> SUFFICES Works(s, u) /\ (u.res = "FR_OK" => AtWindow(u))
  OBVIOUS
<1>1. u = IF d.res = "FR_OK" THEN r ELSE d
  BY DEF Registers, Then
<1> HIDE DEF u
<1>2. /\ Works(s, d) /\ Good(d) /\ d.fs.fs_type # 0
      /\ d.res = "FR_OK" => d.fs.winsect \in DataArea
  BY DirClear DEF ClearDone, Works
<1> HIDE DEF d
<1>3. y \in {0} \cup Clusters
  BY <1>2, FsTypes DEF Good, Dirs
<1> HIDE DEF y
<1>4. CASE d.res = "FR_OK"
  <2>1. Works(d, b)
    BY <1>2, <1>3, <1>4, TableSet
  <2> HIDE DEF b
  <2>2. Works(s, b) /\ Good(b) /\ b.fs.fs_type # 0
    BY <1>2, <2>1, WorksTrans DEF Works
  <2>3. DirDone(b, r)
    BY <2>2, DirRegister
  <2> HIDE DEF r
  <2>4. Works(s, r) /\ (r.res = "FR_OK" => AtWindow(r))
    BY <2>2, <2>3, WorksTrans DEF DirDone, ScanDone, AtWindow
  <2> QED BY <1>1, <1>4, <2>4
<1>5. CASE d.res # "FR_OK"
  BY <1>1, <1>2, <1>5
<1> QED BY <1>4, <1>5

(* f_mkdir keeps the volume in order. *)
LEMMA FMkdir ==
  ASSUME NEW t, Good(t), NEW path, path \in Seq(Names)
  PROVE  Runs(t, f_mkdir(t, path))
<1> DEFINE m == mount_volume(t)
           s == follow_path(m, path)
           a == create_chain(s, 0)
           c == a.val
           b == Ret(a, ClusterError(c))
           g == Registers(b, b.val)
           n == Ret(a, "FR_DENIED")
           r == IF c = 0 THEN n ELSE IF b.res = "FR_OK" THEN g ELSE b
           f == [Entry(r) EXCEPT !.attr = "dir", !.clust = c]
           e == SetEntry(r, f)
           y == sync_fs(e)
           z == 0
           w == remove_chain(r, c, z)
           x == Ret(w, r.res)
           v == Ret(s, "FR_EXIST")
           u == f_mkdir(t, path)
<1> SUFFICES Runs(t, u)
  OBVIOUS
<1>1. u = IF m.res # "FR_OK" THEN m ELSE IF s.res = "FR_OK" THEN v
          ELSE IF s.res # "FR_NO_FILE" THEN s
          ELSE IF r.res = "FR_OK" THEN y ELSE x
  BY DEF f_mkdir, Then, Upon, Registers
<1> HIDE DEF u, z
<1>2. Entered(t, m, s, path)
  BY Enter
<1> HIDE DEF m, s
<1>3. CASE m.res # "FR_OK"
  BY <1>1, <1>2, <1>3 DEF Entered
<1>4. CASE m.res = "FR_OK"
  <2>1. Runs(t, m) /\ Works(m, s) /\ s.fs.fs_type # 0 /\ Good(s)
    BY <1>2, <1>4 DEF Entered, PathDone
  <2>2. Runs(t, s)
    BY <2>1, RunsWorks
  <2>3. Runs(t, v)
    BY <2>2, RunsRet DEF Results
  <2> HIDE DEF v
  <2>4. ChainDone(s, a)
    <3> DEFINE o == 0
    <3>1. o \in Nat
      OBVIOUS
    <3> HIDE DEF o
    <3>2. ChainDone(s, create_chain(s, o))
      BY <2>1, <3>1, CreateChain
    <3> QED BY <3>2 DEF o
  <2> HIDE DEF a
  <2>5. Works(s, a) /\ Good(a) /\ a.fs.fs_type # 0 /\ c \in Codes /\ c \in Nat
    BY <2>1, <2>4, CodesNat DEF ChainDone, Works
  <2>6. Works(a, n) /\ n.res = "FR_DENIED"
    BY <2>5, RetWorks DEF Results
  <2> HIDE DEF n
  <2>7. Works(a, b) /\ Good(b) /\ b.fs.fs_type # 0 /\ b.val = c /\ b.res = ClusterError(c)
    <3> DEFINE k == ClusterError(c)
    <3>1. k \in Results
      BY ClusterErrors DEF Results
    <3> HIDE DEF k
    <3>2. Works(a, Ret(a, k)) /\ Ret(a, k).val = c /\ Ret(a, k).res = k
      BY <2>5, <3>1, RetWorks
    <3>3. Works(a, b) /\ b.val = c /\ b.res = ClusterError(c)
      BY <3>2 DEF k
    <3> HIDE DEF b
    <3> QED BY <2>5, <3>3 DEF Works
  <2> HIDE DEF b
  <2>8. Works(s, r) /\ Good(r) /\ r.fs.fs_type # 0 /\ (r.res = "FR_OK" => AtWindow(r) /\ c \in Clusters)
    <3>1. CASE c = 0
      <4>1. r = n
        BY <3>1
      <4> HIDE DEF r
      <4> QED BY <2>1, <2>5, <2>6, <4>1, WorksTrans DEF Works
    <3>2. CASE c # 0 /\ b.res = "FR_OK"
      <4>1. c \in Clusters
        BY <2>5, <2>7, <3>2, ClusterErrors
      <4>2. Works(b, g) /\ (g.res = "FR_OK" => AtWindow(g))
        BY <2>7, <4>1, RegistersDone
      <4>3. r = g
        BY <3>2
      <4> HIDE DEF r, g
      <4>4. Works(s, g)
        BY <2>5, <2>7, <4>2, WorksTrans
      <4> QED BY <2>1, <4>1, <4>2, <4>3, <4>4 DEF Works
    <3>3. CASE c # 0 /\ b.res # "FR_OK"
      <4>1. r = b
        BY <3>3
      <4> HIDE DEF r
      <4>2. Works(s, b)
        BY <2>5, <2>7, WorksTrans
      <4> QED BY <2>1, <3>3, <4>1, <4>2 DEF Works
    <3> QED BY <3>1, <3>2, <3>3
  <2> HIDE DEF r
  <2>9. CASE r.res = "FR_OK"
    <3>1. f \in Entries
      <4>1. Entry(r) \in Entries
        BY <2>8, SlotType
      <4>2. "dir" \in Attributes
        BY DEF Attributes
      <4> QED BY <2>8, <2>9, <4>1, <4>2 DEF Entries
    <3> HIDE DEF f
    <3>2. Works(r, e)
      BY <2>8, <2>9, <3>1, EntrySet1 DEF AtWindow
    <3> HIDE DEF e
    <3>3. Works(s, e) /\ Good(e) /\ e.fs.fs_type # 0
      BY <2>8, <3>2, WorksTrans DEF Works
    <3>4. SyncFsDone(e, y)
      BY <3>3, SyncFs
    <3> HIDE DEF y
    <3>5. Works(s, y)
      BY <3>3, <3>4, WorksTrans DEF SyncFsDone
    <3>6. Runs(t, y)
      BY <2>2, <3>5, RunsWorks
    <3> QED BY <1>1, <1>4, <2>2, <2>3, <2>9, <3>6
  <2>10. CASE r.res # "FR_OK"
    <3>1. z \in Nat /\ z \notin Clusters
      BY Sectors DEF z, Clusters
    <3>2. Works(r, w) /\ Good(w)
      <4>1. Works(r, w)
        BY <2>5, <2>8, <3>1, RemoveChain
      <4> QED BY <4>1 DEF Works
    <3> HIDE DEF w
    <3>3. r.res \in Results
      BY <2>8, FsTypes DEF Good
    <3>4. Runs(t, w)
      BY <2>2, <2>8, <3>2, RunsWorks
    <3>5. Runs(t, x)
      BY <3>3, <3>4, RunsRet
    <3> HIDE DEF x
    <3> QED BY <1>1, <1>4, <2>2, <2>3, <2>10, <3>5
  <2> QED BY <2>9, <2>10
<1> QED BY <1>3, <1>4

-----------------------------------------------------------------------------
(* f_getfree. *)

(* The free entries before that of the cluster i. *)
FreeUpTo(t, i) == Cardinality({e \in 0 .. i - 1 : Value(t, e) = 0})

(* Counting the free entries cluster by cluster comes to the number of     *)
(* free clusters.                                                          *)
LEMMA FreeCounted ==
  ASSUME NEW t, Good(t)
  PROVE  /\ FreeUpTo(t, 0) = 0
         /\ FreeUpTo(t, NFatent) = NFree(t)
         /\ \A i \in 0 .. NFatent :
              /\ FreeUpTo(t, i) \in 0 .. NFatent - 2
              /\ i < NFatent => FreeUpTo(t, i + 1) = IF Value(t, i) = 0 THEN FreeUpTo(t, i) + 1
                                                     ELSE FreeUpTo(t, i)
<1> DEFINE B(i) == {e \in 0 .. i - 1 : Value(t, e) = 0}
<1>1. B(0) = {} /\ B(NFatent) = FreeSet(t.disk, t.fs)
  <2>1. B(0) = {}
    OBVIOUS
  <2>2. \A e \in 0 .. NFatent - 1 : Value(t, e) = 0 => e \in Clusters
    <3> SUFFICES ASSUME NEW e \in 0 .. NFatent - 1, Value(t, e) = 0 PROVE e \in Clusters
      OBVIOUS
    <3>1. e >= 2
      BY FatValue, Sectors
    <3> QED BY <3>1, Sectors DEF Clusters
  <2>3. Clusters \subseteq 0 .. NFatent - 1
    BY InFat
  <2> QED BY <2>1, <2>2, <2>3 DEF FreeSet, Value
<1>2. \A i \in 0 .. NFatent : B(i) \subseteq FreeSet(t.disk, t.fs)
  BY <1>1, Sectors
<1>3. \A i \in 0 .. NFatent : IsFiniteSet(B(i)) /\ Cardinality(B(i)) \in 0 .. NFatent - 2
  <2> SUFFICES ASSUME NEW i \in 0 .. NFatent
               PROVE  IsFiniteSet(B(i)) /\ Cardinality(B(i)) \in 0 .. NFatent - 2
    OBVIOUS
  <2> DEFINE b == B(i)
             f == FreeSet(t.disk, t.fs)
  <2>1. b \subseteq f
    BY <1>2
  <2>2. IsFiniteSet(f) /\ Cardinality(f) \in 0 .. NFatent - 2
    BY FreeFinite DEF NFree
  <2> HIDE DEF b, f
  <2>3. IsFiniteSet(b) /\ Cardinality(b) <= Cardinality(f) /\ Cardinality(b) \in Nat
    BY <2>1, <2>2, FS_Subset, FS_CardinalityType
  <2>4. Cardinality(b) \in 0 .. NFatent - 2
    BY <2>2, <2>3, Sectors
  <2> QED BY <2>3, <2>4 DEF b
<1>4. ASSUME NEW i \in 0 .. NFatent, i < NFatent
      PROVE  Cardinality(B(i + 1)) = IF Value(t, i) = 0 THEN Cardinality(B(i)) + 1 ELSE Cardinality(B(i))
  <2>1. CASE Value(t, i) = 0
    <3>1. B(i + 1) = B(i) \cup {i} /\ i \notin B(i)
      BY <1>4, <2>1, Sectors
    <3>2. IsFiniteSet(B(i))
      BY <1>3
    <3> HIDE DEF B
    <3> QED BY <2>1, <3>1, <3>2, FS_AddElement
  <2>2. CASE Value(t, i) # 0
    <3>1. B(i + 1) = B(i)
      BY <1>4, <2>2, Sectors
    <3> HIDE DEF B
    <3> QED BY <2>2, <3>1
  <2> QED BY <2>1, <2>2
<1>5. \A i : FreeUpTo(t, i) = Cardinality(B(i))
  BY DEF FreeUpTo
<1>6. Cardinality(B(0)) = 0
  BY <1>1, FS_EmptySet
<1> HIDE DEF B
<1>7. FreeUpTo(t, 0) = 0 /\ FreeUpTo(t, NFatent) = NFree(t)
  BY <1>1, <1>5, <1>6 DEF NFree
<1>8. ASSUME NEW i \in 0 .. NFatent
      PROVE  /\ FreeUpTo(t, i) \in 0 .. NFatent - 2
             /\ i < NFatent => FreeUpTo(t, i + 1) = IF Value(t, i) = 0 THEN FreeUpTo(t, i) + 1
                                                    ELSE FreeUpTo(t, i)
  BY <1>3, <1>4, <1>5
<1> QED BY <1>7, <1>8

(* t.val is the count of the free entries before that of the cluster c. *)
CountDone(t, u) ==
  /\ Works(t, u) /\ SameFat(t, u) /\ u.val \in 0 .. NFatent - 2
  /\ t.fault = NoFault => u.res \in {"FR_OK", "more"}

(* The same FAT has the same free clusters. *)
LEMMA SameFree ==
  ASSUME NEW t, NEW u, SameFat(t, u)
  PROVE  NFree(u) = NFree(t) /\ \A i \in 0 .. NFatent : FreeUpTo(u, i) = FreeUpTo(t, i)
<1>1. \A e \in 0 .. NFatent - 1 : Value(u, e) = Value(t, e)
  BY DEF SameFat, Value
<1>2. \A e \in Clusters : Value(u, e) = 0 <=> Value(t, e) = 0
  BY <1>1, InFat
<1>3. NFree(u) = NFree(t)
  BY <1>2, FreeSame
<1>4. ASSUME NEW i \in 0 .. NFatent
      PROVE  {e \in 0 .. i - 1 : Value(u, e) = 0} = {e \in 0 .. i - 1 : Value(t, e) = 0}
  BY <1>1, Sectors
<1> QED BY <1>3, <1>4 DEF FreeUpTo

(* count_entry counts one entry of the FAT. *)
LEMMA CountEntry ==
  ASSUME NEW s, Good(s), s.res = "FR_OK", NEW c, c \in 0 .. NFatent - 1, s.val = FreeUpTo(s, c)
  PROVE  LET u == count_entry(s, c) IN
         /\ CountDone(s, u)
         /\ u.res = "more" => c < NFatent - 1 /\ u.val = FreeUpTo(s, c + 1)
         /\ u.res = "FR_OK" => u.val = NFree(s)
<1> DEFINE w == move_window(s, FatSect(c))
           n == IF w.fs.win.d[c % FatPerSector] = 0 THEN w.val + 1 ELSE w.val
           v == Val(w, n)
           x == More(v)
           u == count_entry(s, c)
<1> SUFFICES /\ CountDone(s, u)
             /\ u.res = "more" => c < NFatent - 1 /\ u.val = FreeUpTo(s, c + 1)
             /\ u.res = "FR_OK" => u.val = NFree(s)
  OBVIOUS
<1>1. u = IF w.res # "FR_OK" THEN w ELSE IF c < NFatent - 1 THEN x ELSE v
  BY DEF count_entry, Then
<1> HIDE DEF u
<1>2. MoveDone(s, w, FatSect(c))
  BY FatSectors, MoveWindow
<1> HIDE DEF w
<1>3. Works(s, w) /\ SameFat(s, w) /\ Good(w) /\ w.val = s.val /\ w.res \in {"FR_OK", "FR_DISK_ERR"}
      /\ (s.fault = NoFault => w.res = "FR_OK") /\ (w.res = "FR_OK" => w.fs.winsect = FatSect(c))
  BY <1>2 DEF MoveDone, Works
<1>4. c \in 0 .. NFatent /\ c < NFatent /\ c \in Nat /\ (~(c < NFatent - 1) => c + 1 = NFatent)
  BY Sectors
<1>5. s.val \in 0 .. NFatent - 2
  BY <1>4, FreeCounted
<1>6. CASE w.res # "FR_OK"
  BY <1>1, <1>3, <1>5, <1>6 DEF CountDone
<1>7. CASE w.res = "FR_OK"
  <2>1. w.fs.win.d[c % FatPerSector] = Value(s, c)
    <3>1. w.fs.win.d[c % FatPerSector] = Value(w, c)
      BY <1>3, <1>7 DEF Value, ValueOf
    <3>2. Value(w, c) = Value(s, c)
      BY <1>3 DEF SameFat, Value
    <3> QED BY <3>1, <3>2
  <2>2. n = FreeUpTo(s, c + 1)
    <3>1. n = IF Value(s, c) = 0 THEN s.val + 1 ELSE s.val
      BY <1>3, <2>1
    <3> HIDE DEF n
    <3> QED BY <1>4, <3>1, FreeCounted
  <2> HIDE DEF n
  <2>3. n \in 0 .. NFatent - 2 /\ n \in Nat
    <3> DEFINE k == c + 1
    <3>1. k \in 0 .. NFatent
      BY <1>4, Sectors
    <3> HIDE DEF k
    <3>2. FreeUpTo(s, k) \in 0 .. NFatent - 2
      BY <3>1, FreeCounted
    <3> QED BY <2>2, <3>2 DEF k
  <2>4. Works(w, v) /\ SameFat(w, v) /\ v.val = n /\ v.res = "FR_OK" /\ Good(v)
    <3>1. Works(w, v) /\ SameFat(w, v) /\ v.val = n /\ v.res = w.res
      BY <1>3, <2>3, ValWorks
    <3> HIDE DEF v
    <3> QED BY <1>7, <3>1 DEF Works
  <2> HIDE DEF v
  <2>5. Works(v, x) /\ SameFat(v, x) /\ x.val = n /\ x.res = "more"
    BY <2>4, RetWorks DEF More, Results
  <2> HIDE DEF x
  <2>6. Works(s, v) /\ SameFat(s, v) /\ Works(s, x) /\ SameFat(s, x)
    BY <1>3, <2>4, <2>5, WorksTrans, SameFatTrans
  <2>7. c + 1 = NFatent => n = NFree(s)
    BY <2>2, FreeCounted
  <2>8. CASE c < NFatent - 1
    BY <1>1, <1>7, <2>2, <2>3, <2>5, <2>6, <2>8 DEF CountDone
  <2>9. CASE ~(c < NFatent - 1)
    BY <1>1, <1>4, <1>7, <2>3, <2>4, <2>6, <2>7, <2>9 DEF CountDone
  <2> QED BY <2>8, <2>9
<1> QED BY <1>6, <1>7

(* count_free counts them all, and comes to the number of free clusters. *)
LEMMA CountFree ==
  ASSUME NEW t, Good(t)
  PROVE  LET u == count_free(t) IN CountDone(t, u) /\ u.res # "more" /\ (u.res = "FR_OK" => u.val = NFree(t))
<1> DEFINE cs(i) == i - 1
           R == {s \in States : CountDone(t, s)}
           S == [i \in 0 .. NFatent |->
                   {s \in R : /\ s.res = "more" => i < NFatent /\ s.val = FreeUpTo(t, i)
                              /\ s.res = "FR_OK" => s.val = NFree(t)}]
           x == More(Val(t, 0))
           Turn(s, i) == IF s.res = "more" THEN count_entry(Ret(s, "FR_OK"), cs(i)) ELSE s
           n == NFatent
           F == [p \in R \X Nat |-> Turn(p[1], p[2])]
           Is(g) == g = [i \in 0 .. n |-> IF i = 0 THEN x ELSE Turn(g[i - 1], i)]
           at == CHOOSE g : Is(g)
<1>0. n \in Nat
  BY Sectors
<1>1. x \in S[0]
  <2> DEFINE z == 0
             v == Val(t, z)
  <2>0. z \in Nat /\ z \in 0 .. NFatent - 2 /\ z = FreeUpTo(t, z) /\ z < NFatent
    BY Sectors, FreeCounted
  <2>1. Works(t, v) /\ Good(v) /\ SameFat(t, v) /\ v.val = z
    <3> HIDE DEF z
    <3>1. Works(t, v) /\ SameFat(t, v) /\ v.val = z
      BY <2>0, ValWorks
    <3> HIDE DEF v
    <3> QED BY <3>1 DEF Works
  <2>a. x = Ret(v, "more")
    BY DEF More
  <2> HIDE DEF v, x
  <2>2. Works(v, x) /\ x.res = "more" /\ SameFat(v, x) /\ x.val = z
    BY <2>1, <2>a, RetWorks DEF Results
  <2>3. Works(t, x) /\ SameFat(t, x) /\ x \in States
    BY <2>1, <2>2, WorksTrans, SameFatTrans DEF Works, Good
  <2>4. CountDone(t, x)
    <3> HIDE DEF z
    <3> QED BY <2>0, <2>2, <2>3 DEF CountDone
  <2>5. S[0] = {s \in R : /\ s.res = "more" => 0 < NFatent /\ s.val = FreeUpTo(t, 0)
                          /\ s.res = "FR_OK" => s.val = NFree(t)}
    BY Sectors
  <2> HIDE DEF S
  <2> QED BY <2>0, <2>2, <2>3, <2>4, <2>5
<1>2. ASSUME NEW i \in 1 .. n, NEW s \in S[i - 1]
      PROVE  Turn(s, i) \in S[i] /\ s \in R
  <2> DEFINE r == Ret(s, "FR_OK")
             c == i - 1
             u == count_entry(r, c)
  <2>0. c \in 0 .. NFatent - 1 /\ c \in 0 .. NFatent /\ i \in 0 .. NFatent /\ c + 1 = i
    BY <1>0
  <2>a. \A j \in 0 .. NFatent : S[j] = {y \in R : /\ y.res = "more" => j < NFatent /\ y.val = FreeUpTo(t, j)
                                                  /\ y.res = "FR_OK" => y.val = NFree(t)}
    OBVIOUS
  <2> HIDE DEF S, R
  <2>1. s \in R /\ (s.res = "more" => s.val = FreeUpTo(t, c)) /\ (s.res = "FR_OK" => s.val = NFree(t))
    BY <2>0, <2>a
  <2>2. CASE s.res # "more"
    BY <2>0, <2>1, <2>2, <2>a
  <2>3. CASE s.res = "more"
    <3>1. CountDone(t, s) /\ Good(s) /\ SameFat(t, s)
      BY <2>1 DEF R, CountDone, Works
    <3>2. Turn(s, i) = u
      BY <2>3
    <3>3. Works(s, r) /\ SameFat(s, r) /\ r.val = s.val /\ r.res = "FR_OK"
      BY <3>1, RetWorks DEF Results
    <3> HIDE DEF r, Turn
    <3>4. Works(t, r) /\ SameFat(t, r) /\ Good(r)
      BY <3>1, <3>3, WorksTrans, SameFatTrans DEF CountDone, Works
    <3>5. NFree(r) = NFree(t) /\ \A j \in 0 .. NFatent : FreeUpTo(r, j) = FreeUpTo(t, j)
      BY <3>4, SameFree
    <3>6. r.val = FreeUpTo(r, c)
      BY <2>0, <2>1, <2>3, <3>3, <3>5
    <3>7. /\ CountDone(r, u)
          /\ u.res = "more" => c < NFatent - 1 /\ u.val = FreeUpTo(r, c + 1)
          /\ u.res = "FR_OK" => u.val = NFree(r)
      <4> HIDE DEF c, u
      <4>1. /\ CountDone(r, count_entry(r, c))
            /\ count_entry(r, c).res = "more" => c < NFatent - 1 /\ count_entry(r, c).val = FreeUpTo(r, c + 1)
            /\ count_entry(r, c).res = "FR_OK" => count_entry(r, c).val = NFree(r)
        BY <2>0, <3>3, <3>4, <3>6, CountEntry
      <4> QED BY <4>1 DEF u
    <3> HIDE DEF u
    <3>8. CountDone(t, u) /\ u \in States
      <4>1. u.val \in 0 .. NFatent - 2 /\ r.fault = t.fault /\ Works(r, u) /\ SameFat(r, u)
        BY <3>4, <3>7 DEF CountDone, Works
      <4>2. Works(t, u) /\ SameFat(t, u)
        BY <3>4, <4>1, WorksTrans, SameFatTrans
      <4> QED BY <3>7, <4>1, <4>2 DEF CountDone, Works, Good
    <3>9. u.res = "more" => i < NFatent /\ u.val = FreeUpTo(t, i)
      <4>1. i \in Nat /\ NFatent \in Nat
        BY Sectors
      <4>2. c < NFatent - 1 => i < NFatent
        BY <4>1
      <4> HIDE DEF c
      <4> QED BY <2>0, <3>5, <3>7, <4>2
    <3>10. u \in S[i]
      BY <2>0, <2>a, <3>5, <3>7, <3>8, <3>9 DEF R
    <3> QED BY <2>1, <3>2, <3>10
  <2> QED BY <2>2, <2>3
<1> HIDE DEF cs
<1> HIDE DEF x, Turn, S
<1>3. \A i \in 1 .. n : \A s \in S[i - 1] : F[<<s, i>>] = Turn(s, i) /\ F[<<s, i>>] \in S[i]
  BY <1>2
<1> HIDE DEF F
<1>4. PICK g : LoopedIn(S, F, x, n, g)
  BY <1>0, <1>1, <1>3, LoopIn
<1>5. Is(g)
  <2>1. /\ g = [i \in 0 .. n |-> g[i]]
        /\ \A i \in 0 .. n : g[i] = IF i = 0 THEN x ELSE Turn(g[i - 1], i)
    <3>1. \A i \in 0 .. n : i # 0 => i \in 1 .. n
      BY <1>0
    <3>2. \A i \in 0 .. n : i # 0 => F[<<g[i - 1], i>>] = Turn(g[i - 1], i)
      BY <1>3, <1>4, <3>1 DEF LoopedIn
    <3> QED BY <1>4, <3>2 DEF LoopedIn
  <2>2. g = [i \in 0 .. n |-> IF i = 0 THEN x ELSE Turn(g[i - 1], i)]
    BY <2>1
  <2> QED BY <2>2
<1>6. Is(at)
  BY <1>5
<1>7. at[n] \in S[n]
  <2> HIDE DEF at
  <2>1. \A i \in 0 .. n : at[i] = IF i = 0 THEN x ELSE Turn(at[i - 1], i)
    BY <1>6
  <2>2. at[0] \in S[0]
    BY <1>0, <1>1, <2>1
  <2>3. ASSUME NEW i \in 1 .. n, at[i - 1] \in S[i - 1] PROVE at[i] \in S[i]
    <3>1. i \in 0 .. n /\ i # 0
      BY <1>0
    <3>2. at[i] = Turn(at[i - 1], i)
      BY <2>1, <3>1
    <3> QED BY <1>2, <2>3, <3>2
  <2> QED BY <1>0, <2>2, <2>3, StaysIn
<1>8. count_free(t) = at[n]
  BY DEF count_free, cs, n, Repeat, x, Turn
<1>9. at[n] \in {s \in R : /\ s.res = "more" => n < NFatent /\ s.val = FreeUpTo(t, n)
                           /\ s.res = "FR_OK" => s.val = NFree(t)}
  <2>1. n \in 0 .. NFatent
    BY <1>0
  <2> HIDE DEF at, R
  <2> QED BY <1>7, <2>1 DEF S
<1> HIDE DEF at
<1>10. ~(n < NFatent)
  BY <1>0
<1> QED BY <1>8, <1>9, <1>10

(* f_getfree sets the count to the number of free clusters, and keeps the  *)
(* volume in order.                                                        *)
LEMMA FGetfree ==
  ASSUME NEW t, Good(t)
  PROVE  Runs(t, f_getfree(t))
<1> DEFINE m == mount_volume(t)
           o == m.fs.free_clst
           v == [m EXCEPT !.out = o]
           w == count_free(m)
           n == w.val
           l == w.fs.last_clst
           g == InfoChanged(w.fs.fsi_flag)
           c == Counted(w, n, l, g)
           x == [c EXCEPT !.out = n]
           u == f_getfree(t)
<1> SUFFICES Runs(t, u)
  OBVIOUS
<1>2. Mounted(t, m)
  BY MountVolume
<1>a. u = IF m.res # "FR_OK" THEN m ELSE IF m.fs.free_clst <= NFatent - 2 THEN v
          ELSE [w EXCEPT !.fs.free_clst = w.val, !.fs.fsi_flag = InfoChanged(@), !.out = w.val]
  BY DEF f_getfree, Then, Upon
<1> HIDE DEF u, m
<1>3. Runs(t, m) /\ Good(m) /\ (m.res = "FR_OK" => m.fs.fs_type # 0)
  BY <1>2 DEF Mounted, Runs
<1>4. CountDone(m, w) /\ (w.res = "FR_OK" => w.val = NFree(m))
  BY <1>3, CountFree
<1> HIDE DEF w
<1>5. Works(m, w) /\ Good(w) /\ SameFat(m, w) /\ n \in 0 .. NFatent - 2 /\ n \in Nat /\ w.res \in Results
      /\ w \in States /\ w.fs \in Volumes /\ l \in LastClusters
  <2>1. Works(m, w) /\ Good(w) /\ SameFat(m, w) /\ n \in 0 .. NFatent - 2
    BY <1>4 DEF CountDone, Works
  <2> QED BY <2>1, FsTypes, Sectors DEF Good
<1>6. x = [w EXCEPT !.fs.free_clst = w.val, !.fs.fsi_flag = InfoChanged(@), !.out = w.val]
  <2> DEFINE f == [w.fs EXCEPT !.free_clst = n, !.last_clst = l, !.fsi_flag = g]
             h == [w.fs EXCEPT !.free_clst = n, !.fsi_flag = g]
  <2>1. f = h
    BY <1>5 DEF Volumes
  <2>2. c = [w EXCEPT !.fs = f]
    BY DEF Counted
  <2>3. [w EXCEPT !.fs.free_clst = w.val, !.fs.fsi_flag = InfoChanged(@), !.out = w.val]
          = [w EXCEPT !.fs = h, !.out = n]
    BY <1>5 DEF States, Volumes
  <2> HIDE DEF f, h, c, n
  <2>4. x = [[w EXCEPT !.fs = f] EXCEPT !.out = n]
    BY <2>2
  <2>5. [[w EXCEPT !.fs = f] EXCEPT !.out = n] = [w EXCEPT !.fs = h, !.out = n]
    BY <1>5, <2>1 DEF States
  <2> QED BY <2>3, <2>4, <2>5
<1>7. g \in Nat /\ n \in FreeCounts
  BY <1>5, Flag DEF FreeCounts
<1>8. Exact(w) => n = NFree(w)
  <2>1. ASSUME Exact(w) PROVE w.res = "FR_OK"
    <3>1. m.fault = NoFault
      BY <1>5, <2>1 DEF Exact, Neat, Works
    <3>2. w.res \in {"FR_OK", "more"}
      BY <1>4, <3>1 DEF CountDone
    <3>3. w.res # "more"
      BY <1>3, CountFree DEF w
    <3> QED BY <3>2, <3>3
  <2> QED BY <1>4, <1>5, <2>1, SameFree
<1> HIDE DEF n, l, g
<1>9. Works(w, c)
  BY <1>5, <1>7, <1>8, CountedWorks
<1> HIDE DEF c
<1>10. Good(c)
  BY <1>9 DEF Works
<1>11. Runs(c, x)
  <2>1. n \in Outs
    BY <1>5 DEF Outs, n
  <2> QED BY <1>10, <2>1, OutSet
<1>12. Runs(m, v)
  <2>1. o \in Outs
    <3>1. o \in FreeCounts
      BY <1>3, FsTypes DEF Good
    <3> QED BY <3>1, Sectors DEF Outs, FreeCounts, Ones
  <2> HIDE DEF o
  <2> QED BY <1>3, <2>1, OutSet
<1> HIDE DEF v, x
<1>13. Runs(m, x)
  BY <1>5, <1>9, <1>11, WorksRuns, RunsTrans
<1> QED BY <1>a, <1>3, <1>6, <1>12, <1>13, RunsTrans

-----------------------------------------------------------------------------
(* The inductive invariant and the theorems. *)

(* With everything pending written, the FAT is the one seen through the window. *)
LEMMA LogicalFat ==
  ASSUME NEW t, Good(t), FileOK(t.fp), NEW c, c \in Clusters
  PROVE  FatEntry(LogicalDisk(t), c) = Value(t, c)
<1> DEFINE s == FatSect(c)
           a == IF t.fs.fs_type # 0 /\ t.fs.wflag
                THEN [t.disk EXCEPT ![t.fs.winsect] = t.fs.win] ELSE t.disk
           b == IF t.fp.open /\ a[t.fp.dir_sect].k = "dir"
                THEN [a EXCEPT ![t.fp.dir_sect].d[t.fp.dir_ptr].clust = t.fp.sclust,
                               ![t.fp.dir_sect].d[t.fp.dir_ptr].size = t.fp.objsize] ELSE a
           l == IF t.fp.open /\ "dirty" \in t.fp.flag
                THEN [b EXCEPT ![t.fp.sect] = DataSector(t.fp.buf)] ELSE b
<1>1. LogicalDisk(t) = l
  BY DEF LogicalDisk
<1>2. s \in Fat1 /\ s \in 0 .. LastSector /\ s \notin DataArea
  BY InFat, FatSectors, Areas
<1> HIDE DEF s
<1>3. DOMAIN t.disk = 0 .. LastSector
  BY FsTypes DEF Good
<1>4. DOMAIN a = 0 .. LastSector /\ a[s] = IF t.fs.winsect = s THEN t.fs.win ELSE t.disk[s]
  <2>1. WindowOK(t.disk, t.fs) /\ t.fs.wflag \in BOOLEAN
    BY FsTypes DEF Good
  <2>2. CASE t.fs.wflag
    <3>1. t.fs.fs_type # 0
      BY <2>1, <2>2 DEF WindowOK
    <3>2. a = [t.disk EXCEPT ![t.fs.winsect] = t.fs.win]
      BY <2>2, <3>1
    <3> HIDE DEF a
    <3> QED BY <1>2, <1>3, <3>2
  <2>3. CASE ~t.fs.wflag
    <3>1. a = t.disk
      BY <2>3
    <3>2. t.fs.winsect = s => t.fs.win = t.disk[s]
      BY <1>2, <2>1, <2>3 DEF WindowOK
    <3> HIDE DEF a
    <3> QED BY <1>3, <3>1, <3>2
  <2> QED BY <2>2, <2>3
<1> HIDE DEF a
<1>5. DOMAIN b = 0 .. LastSector /\ b[s] = a[s]
  <2>1. CASE t.fp.open /\ a[t.fp.dir_sect].k = "dir"
    <3> DEFINE p == t.fp.dir_sect
               i == t.fp.dir_ptr
               x == t.fp.sclust
               y == t.fp.objsize
    <3>1. p # s
      BY <1>2, <2>1 DEF FileOK
    <3>2. b = [a EXCEPT ![p].d[i].clust = x, ![p].d[i].size = y]
      BY <2>1
    <3> HIDE DEF b, p, i, x, y
    <3> QED BY <1>2, <1>4, <3>1, <3>2
  <2>2. CASE ~(t.fp.open /\ a[t.fp.dir_sect].k = "dir")
    <3>1. b = a
      BY <2>2
    <3> HIDE DEF b
    <3> QED BY <1>4, <3>1
  <2> QED BY <2>1, <2>2
<1> HIDE DEF b
<1>6. l[s] = b[s]
  <2>1. CASE t.fp.open /\ "dirty" \in t.fp.flag
    <3>1. t.fp.sect # s
      BY <1>2, <2>1 DEF FileOK
    <3>2. l = [b EXCEPT ![t.fp.sect] = DataSector(t.fp.buf)]
      BY <2>1
    <3> HIDE DEF l
    <3> QED BY <1>2, <1>5, <3>1, <3>2
  <2>2. CASE ~(t.fp.open /\ "dirty" \in t.fp.flag)
    BY <2>2
  <2> QED BY <2>1, <2>2
<1> HIDE DEF l
<1>7. FatEntry(LogicalDisk(t), c) = (IF t.fs.winsect = s THEN t.fs.win ELSE t.disk[s]).d[c % FatPerSector]
  <2>1. FatEntry(LogicalDisk(t), c) = l[s].d[c % FatPerSector]
    BY <1>1 DEF FatEntry, s
  <2>2. l[s] = IF t.fs.winsect = s THEN t.fs.win ELSE t.disk[s]
    BY <1>4, <1>5, <1>6
  <2> QED BY <2>1, <2>2
<1> QED BY <1>7 DEF Value, ValueOf, FatEntry, s

(* The room the application sees is the number of free clusters. *)
LEMMA RoomShown ==
  ASSUME NEW t, Good(t), FileOK(t.fp), NEW nm, NEW dn
  PROVE  Shown(t, nm, dn).room = NFree(t)
<1> DEFINE d == LogicalDisk(t)
<1>1. Shown(t, nm, dn).room = Cardinality(Clusters \ Used(d))
  BY DEF Shown
<1>2. \A c \in Clusters : FatEntry(d, c) = Value(t, c)
  BY LogicalFat
<1> HIDE DEF d
<1>3. Clusters \ Used(d) = FreeSet(t.disk, t.fs)
  BY <1>2 DEF Used, FreeSet, Value
<1> QED BY <1>1, <1>3 DEF NFree

(* The inductive invariant: the types; what is pending in the window is in *)
(* order (WindowOK), as is the file object (FileOK); and while nothing has *)
(* failed, the FATs agree (NeatOK), the count of free clusters is right    *)
(* (CountRight), and it is the room that the application was last shown.   *)
Inv ==
  /\ disk \in Cards /\ fs \in Volumes /\ fp \in Objects /\ dj \in Dirs
  /\ cut \in BOOLEAN /\ risk \in BOOLEAN /\ faults \in Nat
  /\ WindowOK(disk, fs)
  /\ FileOK(fp)
  /\ faults = 0 => /\ NeatOK(disk, fs) /\ CountRight(disk, fs)
                   /\ shown.room = Cardinality(FreeSet(disk, fs))

(* The faults of the model are of that kind. *)
LEMMA FaultType ==
  ASSUME NEW f, f \in Faults
  PROVE  f \in FaultKinds
<1>1. FaultAt \subseteq Nat
  BY FatFsAssumption
<1>2. NoFault \in FaultKinds
  BY DEF NoFault, FaultKinds
<1>3. CASE f # NoFault
  <2>1. f \in [at : FaultAt, all : BOOLEAN, lands : BOOLEAN]
    BY <1>3, Zenon DEF Faults
  <2> QED BY <1>1, <2>1 DEF FaultKinds
<1> QED BY <1>2, <1>3

(* A call starts in a state in order. *)
LEMMA StartGood ==
  ASSUME Inv, NEW f, f \in FaultKinds
  PROVE  /\ Good(Start(f)) /\ Start(f).fp = fp /\ Start(f).fault = f /\ Start(f).out = <<>>
         /\ Start(f).disk = disk /\ Start(f).fs = fs
         /\ f = NoFault /\ faults = 0 => Exact(Start(f))
<1> DEFINE t == Start(f)
<1>1. NewDir \in Dirs
  <2>1. 0 \in {0} \cup Clusters
    OBVIOUS
  <2> QED BY FreshDir
<1>2. <<>> \in Outs /\ "FR_OK" \in Results
  BY DEF Outs, Results
<1>3. t.disk = disk /\ t.fs = fs /\ t.fp = fp /\ t.fault = f /\ t.out = <<>>
  BY DEF Start
<1>4. t \in States
  BY <1>1, <1>2 DEF Start, States, Inv
<1> HIDE DEF t
<1>5. Good(t) /\ (f = NoFault /\ faults = 0 => Exact(t))
  BY <1>3, <1>4 DEF Good, Exact, Neat, Inv
<1> QED BY <1>3, <1>5 DEF t

(* What a call comes to is in the invariant again. *)
LEMMA Returned ==
  ASSUME Inv, NEW f, f \in Faults, NEW t, Runs(Start(f), t), NEW op, NEW arg, NEW nm,
         ReturnAs(op, arg, t, nm)
  PROVE  Inv'
<1>1. f \in FaultKinds
  BY FaultType
<1>2. /\ Good(Start(f)) /\ Start(f).fp = fp /\ Start(f).fault = f
      /\ f = NoFault /\ faults = 0 => Exact(Start(f))
  BY <1>1, StartGood
<1>3. /\ Good(t) /\ t.fault = f /\ FileOK(t.fp)
      /\ f = NoFault /\ faults = 0 => Exact(t)
  BY <1>2 DEF Runs, Inv
<1>4. /\ disk' = t.disk /\ fs' = t.fs /\ fp' = t.fp /\ dj' = t.dj /\ cut' = t.cut /\ risk' = t.risk
      /\ faults' = IF f = NoFault THEN faults ELSE faults + 1
      /\ shown' = Shown(t, nm.file, nm.dir)
  BY <1>3 DEF ReturnAs
<1>5. /\ t.disk \in Cards /\ t.fs \in Volumes /\ t.fp \in Objects /\ t.dj \in Dirs
      /\ t.cut \in BOOLEAN /\ t.risk \in BOOLEAN /\ WindowOK(t.disk, t.fs)
  BY <1>3 DEF Good, States
<1>6. Shown(t, nm.file, nm.dir).room = NFree(t)
  BY <1>3, RoomShown
<1>7. faults' \in Nat /\ (faults' = 0 => f = NoFault /\ faults = 0)
  BY <1>4 DEF Inv
<1>8. faults' = 0 => /\ NeatOK(t.disk, t.fs) /\ CountRight(t.disk, t.fs)
                     /\ shown'.room = Cardinality(FreeSet(t.disk, t.fs))
  BY <1>3, <1>4, <1>6, <1>7 DEF Exact, Neat, NFree
<1> HIDE DEF Inv
<1>9. WindowOK(disk', fs') /\ FileOK(fp')
  BY <1>3, <1>4, <1>5
<1>10. faults' = 0 => /\ NeatOK(disk', fs') /\ CountRight(disk', fs')
                      /\ shown'.room = Cardinality(FreeSet(disk', fs'))
  BY <1>4, <1>8
<1> QED BY <1>4, <1>5, <1>7, <1>9, <1>10 DEF Inv

(* An object that is not mounted is in order. *)
LEMMA UnmountedOK ==
  /\ Unmounted \in Volumes /\ \A d : WindowOK(d, Unmounted)
  /\ \A d : Mirrored(d) /\ InfoRight(d) => NeatOK(d, Unmounted) /\ CountRight(d, Unmounted)
<1>1. NoSector \in Nat /\ NoSector > LastSector /\ NoSector # Volbase + 1 /\ NoSector \notin Fat1
  BY Areas, Sectors
<1>2. MayHold(NoSector, ZeroDir)
  BY <1>1, OutsideHolds
<1>3. Ones \in FreeCounts /\ Ones \in LastClusters /\ ZeroDir \in Blocks
  BY Blank DEF FreeCounts, LastClusters
<1> HIDE DEF NoSector, ZeroDir, Ones
<1>4. Unmounted \in Volumes
  BY <1>1, <1>3 DEF Unmounted, Volumes
<1>5. ASSUME NEW d PROVE WindowOK(d, Unmounted)
  BY <1>1, <1>2 DEF WindowOK, Unmounted
<1>6. ASSUME NEW d, Mirrored(d), InfoRight(d) PROVE NeatOK(d, Unmounted) /\ CountRight(d, Unmounted)
  BY <1>1, <1>6 DEF NeatOK, CountRight, Unmounted
<1> QED BY <1>4, <1>5, <1>6

(* Init implies the invariant. *)
LEMMA FirstInv ==
  ASSUME Init
  PROVE  Inv
<1>1. disk \in Cards /\ Mirrored(disk) /\ InfoRight(disk)
  <2>1. disk \in Disks
    BY DEF Init
  <2>2. Formatted(disk) /\ Mirrored(disk) /\ InfoRight(disk)
    BY <2>1, FatFsAssumption
  <2> QED BY <2>2 DEF Formatted, Cards
<1>2. fs = Unmounted /\ fp = Closed /\ dj = NewDir /\ faults = 0 /\ cut = FALSE /\ risk = FALSE
      /\ shown = Shown(Start(NoFault), <<>>, <<>>)
  BY DEF Init
<1>3. NewDir \in Dirs
  <2>1. 0 \in {0} \cup Clusters
    OBVIOUS
  <2> QED BY FreshDir
<1>4. fs \in Volumes /\ WindowOK(disk, fs) /\ NeatOK(disk, fs) /\ CountRight(disk, fs)
  BY <1>1, <1>2, UnmountedOK
<1>5. fp \in Objects /\ FileOK(fp)
  BY <1>2, ClosedOK
<1> DEFINE t == Start(NoFault)
<1>6. t.disk = disk /\ t.fs = fs /\ t.fp = fp
  BY DEF Start
<1>7. t \in States
  <2>1. <<>> \in Outs /\ "FR_OK" \in Results /\ NoFault \in FaultKinds
    BY DEF Outs, Results, NoFault, FaultKinds
  <2>2. cut \in BOOLEAN /\ risk \in BOOLEAN /\ dj \in Dirs
    BY <1>2, <1>3
  <2> HIDE DEF NewDir, NoFault, Init
  <2> QED BY <1>1, <1>3, <1>4, <1>5, <2>1, <2>2 DEF Start, States
<1> HIDE DEF t
<1>8. Shown(t, <<>>, <<>>).room = NFree(t)
  BY <1>4, <1>5, <1>6, <1>7, RoomShown DEF Good
<1>9. shown.room = Cardinality(FreeSet(disk, fs))
  BY <1>2, <1>6, <1>8 DEF NFree, t
<1> HIDE DEF Init
<1> QED BY <1>1, <1>2, <1>3, <1>4, <1>5, <1>9 DEF Inv

(* f_mount, which forgets the window and the counters, keeps it. *)
LEMMA MountInv ==
  ASSUME Inv, f_mount
  PROVE  Inv'
<1>1. /\ disk' = disk /\ fs' = Unmounted /\ fp' = Closed /\ dj' = NewDir /\ cut' = FALSE
      /\ risk' = (risk \/ cut) /\ faults' = faults + 1
  BY DEF f_mount
<1>2. NewDir \in Dirs
  <2>1. 0 \in {0} \cup Clusters
    OBVIOUS
  <2> QED BY FreshDir
<1>3. /\ fs' \in Volumes /\ WindowOK(disk', fs') /\ fp' \in Objects /\ FileOK(fp') /\ dj' \in Dirs
  BY <1>1, <1>2, UnmountedOK, ClosedOK
<1>4. disk' \in Cards /\ faults' \in Nat /\ faults' # 0
  BY <1>1 DEF Inv
<1>5. cut' \in BOOLEAN /\ risk' \in BOOLEAN
  <2>1. (risk \/ cut) \in BOOLEAN
    OBVIOUS
  <2> QED BY <1>1, <2>1
<1> HIDE DEF f_mount
<1> QED BY <1>3, <1>4, <1>5 DEF Inv

(* Every call of FatFs keeps it, with or without a fault. *)
LEMMA CallInv ==
  ASSUME Inv, NEW f, f \in Faults, Call(f)
  PROVE  Inv'
<1> DEFINE t == Start(f)
<1>1. Good(t) /\ FileOK(t.fp) /\ t.out = <<>> /\ dj \in Dirs
  BY FaultType, StartGood DEF Inv
<1> HIDE DEF t
<1>2. Paths \subseteq Seq(Names) /\ DirPaths \subseteq Seq(Names)
      /\ Sizes \subseteq Nat /\ Offsets \subseteq Nat /\ Values \subseteq Nat
  BY FatFsAssumption
<1>3. ASSUME NEW u, Runs(t, u), NEW op, NEW arg, NEW nm, ReturnAs(op, arg, u, nm) PROVE Inv'
  BY <1>3, Returned DEF t
<1>4. ASSUME NEW p \in Paths, NEW m \in Modes, Open(p, m, f) PROVE Inv'
  <2>1. Runs(t, f_open(t, p, m))
    BY <1>1, <1>2, FOpen
  <2>2. ReturnAs("f_open", <<p, m>>, f_open(t, p, m), [name EXCEPT !.file = p])
    BY <1>4 DEF Open, t
  <2> QED BY <1>3, <2>1, <2>2
<1>5. ASSUME NEW n \in Sizes, Read(n, f) PROVE Inv'
  <2>1. n \in Nat /\ t.out \in Seq(Nat)
    BY <1>1, <1>2
  <2>2. Runs(t, f_read(t, n))
    BY <1>1, <2>1, FRead
  <2>3. ReturnAs("f_read", <<n>>, f_read(t, n), name)
    BY <1>5 DEF Read, Return, t
  <2> QED BY <1>3, <2>2, <2>3
<1>6. ASSUME NEW n \in Sizes, NEW x \in Values, Write(x, n, f) PROVE Inv'
  <2>1. n \in Nat /\ x \in Nat
    BY <1>2
  <2>2. Runs(t, f_write(t, x, n))
    BY <1>1, <2>1, FWrite
  <2>3. ReturnAs("f_write", <<x, n>>, f_write(t, x, n), name)
    BY <1>6 DEF Write, Return, t
  <2> QED BY <1>3, <2>2, <2>3
<1>7. ASSUME NEW to \in Offsets, Seek(to, f) PROVE Inv'
  <2>1. to \in Nat
    BY <1>2
  <2>2. Runs(t, f_lseek(t, to))
    BY <1>1, <2>1, FLseek
  <2>3. ReturnAs("f_lseek", <<to>>, f_lseek(t, to), name)
    BY <1>7 DEF Seek, Return, t
  <2> QED BY <1>3, <2>2, <2>3
<1>8. ASSUME Sync(f) PROVE Inv'
  <2>1. Runs(t, f_sync(t))
    BY <1>1, FSync
  <2>2. ReturnAs("f_sync", <<>>, f_sync(t), name)
    BY <1>8 DEF Sync, Return, t
  <2> QED BY <1>3, <2>1, <2>2
<1>9. ASSUME Close(f) PROVE Inv'
  <2>1. Runs(t, f_close(t))
    BY <1>1, FClose
  <2>2. ReturnAs("f_close", <<>>, f_close(t), name)
    BY <1>9 DEF Close, Return, t
  <2> QED BY <1>3, <2>1, <2>2
<1>10. ASSUME Truncate(f) PROVE Inv'
  <2>1. Runs(t, f_truncate(t))
    BY <1>1, FTruncate
  <2>2. ReturnAs("f_truncate", <<>>, f_truncate(t), name)
    BY <1>10 DEF Truncate, Return, t
  <2> QED BY <1>3, <2>1, <2>2
<1>11. ASSUME GetFree(f) PROVE Inv'
  <2>1. Runs(t, f_getfree(t))
    BY <1>1, FGetfree
  <2>2. ReturnAs("f_getfree", <<>>, f_getfree(t), name)
    BY <1>11 DEF GetFree, Return, t
  <2> QED BY <1>3, <2>1, <2>2
<1>12. ASSUME NEW p \in Paths, Unlink(p, f) PROVE Inv'
  <2>1. Runs(t, f_unlink(t, p))
    BY <1>1, <1>2, FUnlink
  <2>2. ReturnAs("f_unlink", <<p>>, f_unlink(t, p), name)
    BY <1>12 DEF Unlink, Return, t
  <2> QED BY <1>3, <2>1, <2>2
<1>13. ASSUME NEW p \in Paths, Mkdir(p, f) PROVE Inv'
  <2>1. Runs(t, f_mkdir(t, p))
    BY <1>1, <1>2, FMkdir
  <2>2. ReturnAs("f_mkdir", <<p>>, f_mkdir(t, p), name)
    BY <1>13 DEF Mkdir, Return, t
  <2> QED BY <1>3, <2>1, <2>2
<1>14. ASSUME NEW p \in Paths, Stat(p, f) PROVE Inv'
  <2>1. Runs(t, f_stat(t, p))
    BY <1>1, <1>2, FStat
  <2>2. ReturnAs("f_stat", <<p>>, f_stat(t, p), name)
    BY <1>14 DEF Stat, Return, t
  <2> QED BY <1>3, <2>1, <2>2
<1>15. ASSUME NEW p \in Paths, NEW q \in Paths, Rename(p, q, f) PROVE Inv'
  <2>1. p \in Seq(Names) /\ q \in Seq(Names)
    BY <1>2
  <2>2. Runs(t, f_rename(t, p, q))
    BY <1>1, <2>1, FRename
  <2>3. ReturnAs("f_rename", <<p, q>>, f_rename(t, p, q), name)
    BY <1>15 DEF Rename, Return, t
  <2> QED BY <1>3, <2>2, <2>3
<1>16. ASSUME NEW p \in DirPaths, Opendir(p, f) PROVE Inv'
  <2>1. Runs(t, f_opendir(t, p))
    BY <1>1, <1>2, FOpendir
  <2>2. ReturnAs("f_opendir", <<p>>, f_opendir(t, p), [name EXCEPT !.dir = p])
    BY <1>16 DEF Opendir, t
  <2> QED BY <1>3, <2>1, <2>2
<1>17. ASSUME Readdir(f) PROVE Inv'
  <2>1. Runs(t, f_readdir(t))
    BY <1>1, FReaddir
  <2>2. ReturnAs("f_readdir", <<>>, f_readdir(t), name)
    BY <1>17 DEF Readdir, Return, t
  <2> QED BY <1>3, <2>1, <2>2
<1>18. ASSUME Closedir(f) PROVE Inv'
  <2>1. Runs(t, f_closedir(t))
    BY <1>1, FClosedir
  <2>2. ReturnAs("f_closedir", <<>>, f_closedir(t), name)
    BY <1>18 DEF Closedir, Return, t
  <2> QED BY <1>3, <2>1, <2>2
<1> QED BY <1>4, <1>5, <1>6, <1>7, <1>8, <1>9, <1>10, <1>11, <1>12, <1>13, <1>14, <1>15, <1>16,
           <1>17, <1>18 DEF Call

(* Every step keeps it. *)
LEMMA NextInv ==
  ASSUME Inv, [Next]_vars
  PROVE  Inv'
<1>1. CASE f_mount
  BY <1>1, MountInv
<1>2. ASSUME NEW f \in Faults, Call(f) PROVE Inv'
  BY <1>2, CallInv
<1>3. CASE UNCHANGED vars
  <2>1. /\ disk' = disk /\ fs' = fs /\ fp' = fp /\ dj' = dj /\ cut' = cut /\ risk' = risk
        /\ faults' = faults /\ shown' = shown
    BY <1>3 DEF vars
  <2>2. WindowOK(disk', fs') /\ FileOK(fp')
    BY <2>1 DEF Inv
  <2>3. faults' = 0 => /\ NeatOK(disk', fs') /\ CountRight(disk', fs')
                       /\ shown'.room = Cardinality(FreeSet(disk', fs'))
    BY <2>1 DEF Inv
  <2> QED BY <2>1, <2>2, <2>3 DEF Inv
<1> QED BY <1>1, <1>2, <1>3 DEF Next

(* The inductive invariant holds for every card, path and fault: whatever  *)
(* FatFs is called for, its window, file object and counters stay in order *)
(* (ff.c).                                                                 *)
THEOREM InvHolds == Spec => []Inv
<1>1. Init => Inv
  BY FirstInv
<1>2. Inv /\ [Next]_vars => Inv'
  BY NextInv
<1> QED BY <1>1, <1>2, PTL DEF Spec

(* The invariant implies the type invariant. *)
LEMMA InvType == Inv => TypeOK
<1> SUFFICES ASSUME Inv PROVE TypeOK
  OBVIOUS
<1>1. Formatted(disk)
  BY DEF Inv, Cards, Formatted
<1>2. fs.wflag => fs.winsect \in Fat1 \cup DataArea
  BY DEF Inv, WindowOK
<1>3. fs.free_clst \in FreeCounts /\ fs.last_clst \in LastClusters
  BY DEF Inv, Volumes
<1>4. fp.sclust \in {0} \cup Clusters
  BY ObjectTypes DEF Inv
<1>5. (fp.err = "FR_OK" => fp.fptr <= fp.objsize) /\ ("dirty" \in fp.flag => fp.sect \in DataArea)
  BY DEF Inv, FileOK
<1> HIDE DEF Inv
<1> QED BY <1>1, <1>2, <1>3, <1>4, <1>5 DEF TypeOK

(* Whatever is called and fails, every sector of the card holds what may   *)
(* be in its area, no FAT entry is written to the data area or data to the *)
(* FAT, and the objects keep their types (sync_window to put_fat,          *)
(* ff.c:1274-1517, and every call that writes through them).               *)
THEOREM TypeCorrect == Spec => []TypeOK
  BY InvHolds, InvType, PTL

(* The invariant implies what the application is promised about the space. *)
LEMMA InvSpace == Inv => SpaceAccounted
<1> SUFFICES ASSUME Inv, faults = 0 PROVE SpaceAccounted
  BY DEF SpaceAccounted, NoFaultYet
<1>1. NeatOK(disk, fs) /\ CountRight(disk, fs) /\ shown.room = Cardinality(FreeSet(disk, fs))
  BY DEF Inv
<1>2. Mirrored(disk)
  BY <1>1 DEF NeatOK
<1>3. fs.fs_type # 0 /\ fs.free_clst # Ones => fs.free_clst = shown.room
  BY <1>1 DEF CountRight
<1> QED BY <1>2, <1>3 DEF SpaceAccounted

(* While nothing has failed, the FATs agree, and the count of free         *)
(* clusters that create_chain, remove_chain, f_getfree and sync_fs keep is *)
(* the number of free clusters: FSINFO can be trusted (ff.c:1324-1350,     *)
(* 1660-1886, 5407-5500).                                                  *)
THEOREM CountsRight == Spec => []SpaceAccounted
  BY InvHolds, InvSpace, PTL

=============================================================================
