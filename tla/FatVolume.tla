----------------------------- MODULE FatVolume -----------------------------
(***************************************************************************)
(* The volume layer of FatFs (ff.c): the sector window, the FAT, cluster   *)
(* chains, directories and paths, on a FAT32 volume behind disk_read and   *)
(* disk_write.  A call of FatFs is sequential C; it is written as          *)
(* operators that take the state of the call, a record t, and return it    *)
(* with its result in t.res (an FRESULT) and t.val (a cluster number):     *)
(*   disk, fs, fp, dp   the sectors, the FATFS, FIL and DIR objects        *)
(*   calls, fault       disk calls made so far; the one that fails         *)
(*   split, risk        history: a change of two sectors is half done; a   *)
(*                      fault struck there                                 *)
(* A sector is tagged with what was written there: data of a file, the     *)
(* entries of a directory, a part of the FAT, or the FSInfo block.         *)
(***************************************************************************)
EXTENDS Naturals, Sequences, FiniteSets

CONSTANTS
  Volbase,      \* first sector of the volume, after the MBR
  Fsize,        \* sectors of one FAT
  FatPerSector, \* FAT entries in a sector
  DirPerSector, \* directory entries in a sector
  SS,           \* units of data in a sector
  Csize,        \* sectors of a cluster
  NFatent,      \* number of clusters + 2
  Names         \* of files and directories

EOC == 1000                          \* 0x0FFFFFFF
Ones == 2000                         \* 0xFFFFFFFF
IntErr == 1

DDEM == "~"                          \* the first character of a deleted name
BadName == "bad"                     \* a name that does not fit 8.3

ASSUME GeometryAssumption ==
  /\ Volbase \in Nat \ {0}
  /\ {Fsize, FatPerSector, SS, Csize} \subseteq Nat \ {0}
  /\ DirPerSector \in Nat /\ DirPerSector > 1
  /\ NFatent \in 4 .. EOC /\ NFatent <= Fsize * FatPerSector

ASSUME NamesAssumption == {"", ".", "..", DDEM, BadName} \subseteq Names

Nrsv == 2
NFats == 2
Root == 2                            \* BPB_RootClus32
Fatbase == Volbase + Nrsv
Database == Fatbase + NFats * Fsize
LastSector == Database + Csize * (NFatent - 2) - 1
Fat1 == Fatbase .. Fatbase + Fsize - 1
DataArea == Database .. LastSector
Clusters == 2 .. NFatent - 1
NoSector == LastSector + 2           \* (LBA_t)0 - 1

Units == 0 .. SS - 1
FatSector(f) == [k |-> "fat", d |-> f]
DirSector(f) == [k |-> "dir", d |-> f]
DataSector(f) == [k |-> "data", d |-> f]
FsInfo(n, nxt) == [k |-> "info", free |-> n, nxt |-> nxt]

Attributes == {"", "file", "ro", "dir", "vol"}
NoEntry == [name |-> "", attr |-> "", clust |-> 0, size |-> 0]
ZeroDir == DirSector([i \in 0 .. DirPerSector - 1 |-> NoEntry])

----------------------------------------------------------------------------
(* Results *)

Ret(t, r) == [t EXCEPT !.res = r]
Val(t, x) == [t EXCEPT !.val = x]
Upon(t, F(_)) == F(t)
Then(t, F(_)) == IF t.res = "FR_OK" THEN F(t) ELSE t

(* A loop from t on: Body(s, i) makes turn i, and its result is "more"     *)
(* where the code goes round again; after n turns it does not.             *)
More(t) == Ret(t, "more")
Repeat(t, Body(_, _), n) ==
  LET at[i \in 0 .. n] == IF i = 0 THEN More(t)
                          ELSE LET s == at[i - 1]
                               IN IF s.res = "more" THEN Body(Ret(s, "FR_OK"), i) ELSE s
  IN at[n]

(* The error code of a cluster number returned by create_chain or get_fat. *)
ClusterError(c) == CASE c = IntErr -> "FR_INT_ERR"
                     [] c = Ones -> "FR_DISK_ERR"
                     [] OTHER -> "FR_OK"

----------------------------------------------------------------------------
(* diskio.c.  The disk call number fault.at of a FatFs call fails, with    *)
(* fault.all every later one too (the card is gone); with fault.lands the  *)
(* data of the write that failed is on the card nevertheless.  A card that *)
(* is not there from the start is not initialised either.                  *)

NoFault == [at |-> 0, all |-> FALSE, lands |-> FALSE]
NoCard(t) == t.fault.all /\ t.fault.at = 0

Fails(t) == LET n == t.calls + 1
            IN \/ n = t.fault.at
               \/ t.fault.all /\ n > t.fault.at

disk_read(t) ==
  [t EXCEPT !.calls = @ + 1,
            !.res = IF Fails(t) THEN "FR_DISK_ERR" ELSE "FR_OK",
            !.risk = @ \/ (Fails(t) /\ t.split)]

disk_write(t, sect, data) ==
  LET lands == ~Fails(t) \/ (t.fault.lands /\ t.calls + 1 = t.fault.at)
  IN [disk_read(t) EXCEPT
        !.disk = IF lands
                 THEN [s \in DOMAIN @ |-> IF s - sect \in DOMAIN data
                                          THEN data[s - sect] ELSE @[s]]
                 ELSE @]

One(data) == [n \in {0} |-> data]

(* A sector behind the volume is none of its directories. *)
Sector(d, s) == IF s \in DOMAIN d THEN d[s] ELSE ZeroDir

----------------------------------------------------------------------------
(* The sector window *)

sync_window(t) ==
  IF ~t.fs.wflag THEN Ret(t, "FR_OK")
  ELSE Then(disk_write(t, t.fs.winsect, One(t.fs.win)), LAMBDA w:
         LET c == [w EXCEPT !.fs.wflag = FALSE]
         IN IF c.fs.winsect \in Fat1 /\ NFats = 2
            THEN Ret(disk_write(c, c.fs.winsect + Fsize, One(c.fs.win)), "FR_OK")
            ELSE c)

move_window(t, sect) ==
  IF sect = t.fs.winsect THEN Ret(t, "FR_OK")
  ELSE Then(sync_window(t), LAMBDA w:
         Upon(disk_read(w), LAMBDA r:
           IF r.res = "FR_OK"
           THEN [r EXCEPT !.fs.win = Sector(r.disk, sect), !.fs.winsect = sect]
           ELSE [r EXCEPT !.fs.winsect = NoSector]))

(* Mutant: the window is left dirty. *)
sync_info(t) ==
  LET info == FsInfo(t.fs.free_clst, t.fs.last_clst)
  IN IF t.fs.fsi_flag # 1 THEN Ret(t, "FR_OK")
     ELSE Ret(disk_write([t EXCEPT !.fs.fsi_flag = 0], Volbase + 1, One(info)), "FR_OK")

sync_fs(t) ==
  Then(sync_window(t), LAMBDA w:
    IF w.fs.fsi_flag # 1 THEN w
    ELSE LET info == FsInfo(w.fs.free_clst, w.fs.last_clst)
         IN Ret(disk_write([w EXCEPT !.fs.win = info, !.fs.winsect = Volbase + 1,
                                     !.fs.fsi_flag = 0],
                           Volbase + 1, One(info)), "FR_OK"))

----------------------------------------------------------------------------
(* The FAT *)

clst2sect(c) == IF c \in Clusters THEN Database + Csize * (c - 2) ELSE 0

FatSect(c) == Fatbase + (c \div FatPerSector)

get_fat(t, c) ==
  IF c \notin Clusters THEN Val(t, IntErr)
  ELSE Upon(move_window(t, FatSect(c)), LAMBDA w:
         Val(w, IF w.res = "FR_OK" THEN w.fs.win.d[c % FatPerSector] ELSE Ones))

put_fat(t, c, val) ==
  IF c \notin Clusters THEN Ret(t, "FR_INT_ERR")
  ELSE Then(move_window(t, FatSect(c)), LAMBDA w:
         [w EXCEPT !.fs.win.d[c % FatPerSector] = val, !.fs.wflag = TRUE])

(* fsi_flag |= 1; 128 means that FSInfo is not to be written. *)
InfoChanged(flag) == IF flag \in {128, 129} THEN 129 ELSE 1

count_freed(t) ==
  IF t.fs.free_clst < NFatent - 2
  THEN [t EXCEPT !.fs.free_clst = @ + 1, !.fs.fsi_flag = InfoChanged(@)]
  ELSE t

(* Frees the cluster t.val; leaves the one it was linked to in t.val.      *)
free_link(t) ==
  Upon(get_fat(t, t.val), LAMBDA g:
    CASE g.val = 0 -> Ret(g, "FR_OK")
      [] g.val \in {IntErr, Ones} -> Ret(g, ClusterError(g.val))
      [] OTHER ->
           Then(put_fat(g, t.val, 0), LAMBDA p:
             IF g.val < NFatent THEN More(count_freed(p)) ELSE count_freed(p)))

free_links(t, c) == Repeat(Val(t, c), LAMBDA s, i: free_link(s), NFatent)

(* Mutant: only the first cluster is freed. *)
remove_first(t, c, pclst) ==
  Then(IF pclst # 0 THEN put_fat(t, pclst, EOC) ELSE Ret(t, "FR_OK"),
       LAMBDA p: put_fat(p, c, 0))

remove_chain(t, c, pclst) ==
  IF c \notin Clusters THEN Ret(t, "FR_INT_ERR")
  ELSE Then(IF pclst # 0 THEN put_fat(t, pclst, EOC) ELSE Ret(t, "FR_OK"),
            LAMBDA p: free_links(p, c))

(* The search for a free cluster after scl, with wrap-around; t.val is the *)
(* one before the cluster to try.                                          *)
try_cluster(t, scl) ==
  LET wrap == t.val + 1 >= NFatent
      n == IF wrap THEN 2 ELSE t.val + 1
  IN IF wrap /\ n > scl THEN Val(t, 0)
     ELSE Upon(get_fat(t, n), LAMBDA g:
            IF g.val = 0 THEN Val(g, n)
            ELSE IF g.val \in {IntErr, Ones} THEN g
            ELSE IF n = scl THEN Val(g, 0)
            ELSE More(Val(g, n)))

find_free(t, scl) == Repeat(Val(t, scl), LAMBDA s, i: try_cluster(s, scl), NFatent)

(* Marks the free cluster ncl as the end of a chain and links it. *)
link_cluster(t, c, ncl) ==
  Upon(Then(put_fat(t, ncl, EOC), LAMBDA q: IF c # 0 THEN put_fat(q, c, ncl) ELSE q),
       LAMBDA p:
         IF p.res = "FR_OK"
         THEN [p EXCEPT !.val = ncl, !.fs.last_clst = ncl,
                        !.fs.free_clst = IF @ <= NFatent - 2 THEN @ - 1 ELSE @,
                        !.fs.fsi_flag = InfoChanged(@)]
         ELSE Val(p, IF p.res = "FR_DISK_ERR" THEN Ones ELSE IntErr))

(* The new cluster is sought next to the one to stretch, then after the    *)
(* last one allocated.                                                     *)
take_free(t, c, scl) ==
  Then(find_free(t, scl), LAMBDA s:
    IF s.val \in Clusters THEN link_cluster(s, c, s.val) ELSE s)

create_chain(t, c) ==
  LET last == t.fs.last_clst
      next == IF c + 1 >= NFatent THEN 2 ELSE c + 1
  IN IF c = 0
     THEN IF t.fs.free_clst = 0 THEN Val(t, 0)
          ELSE take_free(t, c, IF last \in 1 .. NFatent - 1 THEN last ELSE 1)
     ELSE Upon(get_fat(t, c), LAMBDA tail:
            IF tail.val < 2 THEN Val(tail, IntErr)
            ELSE IF tail.val = Ones \/ tail.val < NFatent THEN tail
            ELSE IF tail.fs.free_clst = 0 THEN Val(tail, 0)
            ELSE Upon(get_fat(tail, next), LAMBDA g:
                   CASE g.val \in {IntErr, Ones} -> g
                     [] g.val = 0 -> link_cluster(g, c, next)
                     [] OTHER -> take_free(g, c, IF last \in Clusters THEN last ELSE c)))

----------------------------------------------------------------------------
(* Directories.  t.dp is the DIR object; dptr counts entries, and the      *)
(* entry it is at is the one with that index in the window.                *)

Slot(t) == t.dp.dptr % DirPerSector
EntriesOf(sector) == IF sector.k = "dir" THEN sector.d ELSE ZeroDir.d
Entry(t) == EntriesOf(t.fs.win)[Slot(t)]
SetSlot(t, n, e) == [t EXCEPT !.fs.win = DirSector([EntriesOf(@) EXCEPT ![n] = e]),
                              !.fs.wflag = TRUE]
SetEntry(t, e) == SetSlot(t, Slot(t), e)

clear_sector(t, sect, n) ==
  Then(disk_write(t, sect + n - 1, One(ZeroDir)), LAMBDA w: IF n < Csize THEN More(w) ELSE w)

clear_sectors(t, sect) == Repeat(t, LAMBDA s, n: clear_sector(s, sect, n), Csize)

dir_clear(t, c) ==
  Then(sync_window(t), LAMBDA w:
    clear_sectors([w EXCEPT !.fs.winsect = clst2sect(c), !.fs.win = ZeroDir],
                  clst2sect(c)))

(* Rewinds the DIR object to its first entry. *)
dir_sdi(t) ==
  LET c == IF t.dp.sclust = 0 THEN Root ELSE t.dp.sclust
      s == [t EXCEPT !.dp.dptr = 0, !.dp.clust = c, !.dp.sect = clst2sect(c)]
  IN Ret(s, IF clst2sect(c) = 0 THEN "FR_INT_ERR" ELSE "FR_OK")

(* The cluster after the last one of a directory: linked, then cleared. *)
stretch_dir(t) ==
  Upon(create_chain([t EXCEPT !.split = TRUE], t.dp.clust), LAMBDA a:
    IF a.val = 0 THEN Ret([a EXCEPT !.split = FALSE], "FR_DENIED")
    ELSE Then(Ret(a, ClusterError(a.val)), LAMBDA b:
           Then(dir_clear(b, b.val), LAMBDA d: [d EXCEPT !.split = FALSE])))

dir_next(t, stretch) ==
  LET ofs == t.dp.dptr + 1
      At(s, c, sect) == [Ret(s, "FR_OK") EXCEPT !.dp.dptr = ofs, !.dp.clust = c,
                                                !.dp.sect = sect]
  IN IF t.dp.sect = 0 THEN Ret(t, "FR_NO_FILE")
     ELSE IF ofs % DirPerSector # 0 THEN At(t, t.dp.clust, t.dp.sect)
     ELSE IF (ofs \div DirPerSector) % Csize # 0 THEN At(t, t.dp.clust, t.dp.sect + 1)
     ELSE Upon(get_fat([t EXCEPT !.dp.sect = @ + 1], t.dp.clust), LAMBDA g:
            IF g.val <= 1 THEN Ret(g, "FR_INT_ERR")
            ELSE IF g.val = Ones THEN Ret(g, "FR_DISK_ERR")
            ELSE IF g.val < NFatent THEN At(g, g.val, clst2sect(g.val))
            ELSE IF ~stretch THEN Ret([g EXCEPT !.dp.sect = 0], "FR_NO_FILE")
            ELSE Then(stretch_dir(g), LAMBDA s: At(s, s.val, clst2sect(s.val))))

(* What a scan of a directory looks for: a blank entry to take, the next   *)
(* file or directory to list, or the entry with the name sought.           *)
Sought(t, what) ==
  LET e == Entry(t)
  IN CASE what = "blank" -> e.name \in {"", DDEM}
       [] what = "item" -> e.name \notin {"", DDEM, ".", ".."} /\ e.attr # "vol"
       [] what = "name" -> e.name = t.dp.fn /\ e.attr # "vol"

(* From the entry the DIR object is at; one that was never used ends the   *)
(* table of a directory that is only searched.                             *)
scan_entry(t, what) ==
  Then(move_window(t, t.dp.sect), LAMBDA w:
    IF Sought(w, what) THEN [w EXCEPT !.dp.attr = Entry(w).attr]
    ELSE IF what # "blank" /\ Entry(w).name = "" THEN Ret(w, "FR_NO_FILE")
    ELSE Then(dir_next(w, what = "blank"), More))

scan_dir(t, what) ==
  Repeat(t, LAMBDA s, i: scan_entry(s, what), Csize * DirPerSector * NFatent)

dir_alloc(t) ==
  Upon(Then(dir_sdi(t), LAMBDA s: scan_dir(s, "blank")), LAMBDA a:
    IF a.res = "FR_NO_FILE" THEN Ret(a, "FR_DENIED") ELSE a)

(* The next file or directory of a listing. *)
dir_read(t) ==
  Upon(IF t.dp.sect = 0 THEN Ret(t, "FR_NO_FILE") ELSE scan_dir(t, "item"), LAMBDA r:
    IF r.res = "FR_OK" THEN r ELSE [r EXCEPT !.dp.sect = 0])

dir_find(t) == Then(dir_sdi(t), LAMBDA s: scan_dir(s, "name"))

dir_register(t) ==
  Then(dir_alloc(t), LAMBDA a:
    Then(move_window(a, a.dp.sect), LAMBDA w:
      SetEntry(w, [NoEntry EXCEPT !.name = w.dp.fn])))

dir_remove(t) ==
  Then(move_window(t, t.dp.sect), LAMBDA w:
    SetEntry(w, [Entry(w) EXCEPT !.name = DDEM]))

get_fileinfo(t) == IF t.dp.sect = 0 THEN NoEntry ELSE Entry(t)

----------------------------------------------------------------------------
(* Paths: sequences of names.                                              *)

create_name(t, path, i) ==
  Ret([t EXCEPT !.dp.fn = path[i], !.dp.last = i = Len(path)],
      IF path[i] = BadName THEN "FR_INVALID_NAME" ELSE "FR_OK")

follow_segment(t, path, i) ==
  Then(create_name(t, path, i), LAMBDA n:
    Upon(dir_find(n), LAMBDA d:
      IF d.res = "FR_NO_FILE" /\ ~d.dp.last THEN Ret(d, "FR_NO_PATH")
      ELSE IF d.res # "FR_OK" \/ d.dp.last THEN d
      ELSE IF d.dp.attr # "dir" THEN Ret(d, "FR_NO_PATH")
      ELSE More([d EXCEPT !.dp.sclust = Entry(d).clust])))

follow_segments(t, path) ==
  Repeat(t, LAMBDA s, i: follow_segment(s, path, i), Len(path))

NewDir == [open |-> FALSE, sclust |-> 0, dptr |-> 0, clust |-> 0, sect |-> 0,
           fn |-> "", attr |-> "", last |-> FALSE, noname |-> FALSE]

follow_path(t, path) ==
  LET s == [t EXCEPT !.dp = [NewDir EXCEPT !.noname = path = <<>>]]
  IN IF path = <<>> THEN dir_sdi(s) ELSE follow_segments(s, path)

----------------------------------------------------------------------------
(* Mounting.  Sector 0 is a boot record: of the volume itself, or the MBR  *)
(* with the first sectors of four partitions.                              *)

BootRecord(sector) == CASE sector.k = "vbr" -> 0
                        [] sector.k = "mbr" -> 2
                        [] OTHER -> 3

check_fs(t, sect) ==
  Upon(move_window([t EXCEPT !.fs.wflag = FALSE, !.fs.winsect = NoSector], sect), LAMBDA w:
    Val(w, IF w.res # "FR_OK" THEN 4 ELSE BootRecord(w.fs.win)))

try_partition(t, lba, i) ==
  Upon(IF lba[i] # 0 THEN check_fs(t, lba[i]) ELSE Val(t, 3), LAMBDA p:
    IF p.val >= 2 /\ i < 4 THEN More(p) ELSE p)

find_partition(t, lba) == Repeat(t, LAMBDA s, i: try_partition(s, lba, i), 4)

find_volume(t) ==
  Upon(check_fs(t, 0), LAMBDA s:
    IF s.val # 2 THEN s ELSE find_partition(s, s.fs.win.lba))

(* The geometry the boot record gives is that of the constants.            *)
mount_found(v) ==
  LET f == [v.fs EXCEPT !.last_clst = Ones, !.free_clst = Ones, !.fsi_flag = 128,
                        !.fs_type = 32]
  IN Upon(move_window(v, Volbase + 1), LAMBDA m:
       IF m.res # "FR_OK"
       THEN Ret([m EXCEPT !.fs = [f EXCEPT !.win = m.fs.win, !.winsect = m.fs.winsect]],
                "FR_OK")
       ELSE [m EXCEPT !.fs = [f EXCEPT !.win = m.fs.win, !.winsect = m.fs.winsect,
                                       !.fsi_flag = 0, !.free_clst = m.fs.win.free,
                                       !.last_clst = m.fs.win.nxt]])

mount_volume(t) ==
  IF t.fs.fs_type # 0 THEN Ret(t, "FR_OK")
  ELSE IF NoCard(t) THEN Ret([t EXCEPT !.fs.fs_type = 0], "FR_NOT_READY")
  ELSE Upon(find_volume([t EXCEPT !.fs.fs_type = 0]), LAMBDA v:
         CASE v.val = 4 -> Ret(v, "FR_DISK_ERR")
           [] v.val \in {2, 3} -> Ret(v, "FR_NO_FILESYSTEM")
           [] OTHER -> mount_found(v))
=============================================================================
