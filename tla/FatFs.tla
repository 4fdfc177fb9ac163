------------------------------- MODULE FatFs -------------------------------
(***************************************************************************)
(* The functions of FatFs that the kernel links (ff.c), called one after   *)
(* the other with one FIL and one DIR object, on a card that may fail in   *)
(* any disk call and lose power between two.  A call is one step; a fault  *)
(* inside it leaves on the disk what was written before.                   *)
(***************************************************************************)
EXTENDS FatTree

CONSTANTS
  Paths,        \* paths the application uses, sequences of names
  DirPaths,     \* paths of directories it lists
  Values,       \* values of a unit of data
  Sizes,        \* lengths of reads and writes, in units
  Offsets,      \* where it seeks to
  MaxSize,      \* bound on the size of a file
  MaxCalls,     \* bound on the calls of a behaviour
  MaxFaults,    \* bound on disk calls that fail and on losses of power
  FaultAt,      \* disk calls of one FatFs call that may fail
  Modes,        \* modes given to f_open
  Disks         \* contents of the card at the start

Flags == {"read", "write", "new", "always", "openalways", "seekend", "modified", "dirty"}

ASSUME FatFsAssumption ==
  /\ Csize * SS * (NFatent - 3) >= MaxSize
  /\ \A d \in Disks : Formatted(d) /\ Mirrored(d) /\ InfoRight(d)
  /\ Paths \cup DirPaths \subseteq Seq(Names)
  /\ Modes \subseteq SUBSET Flags
  /\ Values \cup Sizes \cup Offsets \cup FaultAt \subseteq Nat

VARIABLES
  disk,     \* the card
  fs,       \* the FATFS object
  fp,       \* the FIL object
  dj,       \* the DIR object of a listing
  ret,      \* result of the last call
  name,     \* path under which fp was opened, and the one listed
  calls, faults, \* calls made; faults that happened
  cut,      \* a chain was cut, the entry that shows it is not on the card
  risk,     \* a fault struck where a change was half done
  shown,    \* what the application sees
  safe      \* path -> bytes of the files that are on the card for good

vars == <<disk, fs, fp, dj, ret, name, calls, faults, cut, risk, shown, safe>>

Closed == [open |-> FALSE, flag |-> {}, err |-> "FR_OK", sclust |-> 0, objsize |-> 0,
           fptr |-> 0, clust |-> 0, sect |-> 0, dir_sect |-> 0, dir_ptr |-> 0,
           buf |-> NoBuf]
Unmounted == [fs_type |-> 0, win |-> ZeroDir, winsect |-> NoSector, wflag |-> FALSE,
              free_clst |-> Ones, last_clst |-> Ones, fsi_flag |-> 128]

(* ABORT: the file object keeps the error. *)
Abort(t) == IF t.res = "FR_OK" THEN t ELSE [t EXCEPT !.fp.err = t.res]

validate(t) == Ret(t, IF t.fp.open /\ t.fs.fs_type # 0 THEN "FR_OK" ELSE "FR_INVALID_OBJECT")
usable(t) == Then(validate(t), LAMBDA v: Ret(v, v.fp.err))
granted(t, access) == Then(usable(t), LAMBDA u:
  Ret(u, IF access \in u.fp.flag THEN "FR_OK" ELSE "FR_DENIED"))

(* Writes the sector buffer of the file back, if it is dirty. *)
flush_buf(t) ==
  IF "dirty" \notin t.fp.flag THEN Ret(t, "FR_OK")
  ELSE Then(disk_write(t, t.fp.sect, One(DataSector(t.fp.buf))),
            LAMBDA w: [w EXCEPT !.fp.flag = @ \ {"dirty"}])

fill_buf(t, sect) ==
  Then(disk_read(t), LAMBDA r: [r EXCEPT !.fp.buf = Bytes(r.disk[sect])])

----------------------------------------------------------------------------
(* f_open *)

(* An entry for a new file, or the old one emptied; then its chain freed.  *)
open_create(t, mode, found) ==
  LET e == Entry(t)
      fresh == SetEntry(t, [e EXCEPT !.attr = "file", !.clust = 0, !.size = 0])
  IN IF found /\ "always" \notin mode THEN t
     ELSE IF e.clust = 0 THEN fresh
     ELSE Then(remove_chain(fresh, e.clust, 0), LAMBDA r:
            LET m == move_window(r, t.fs.winsect)
            IN [m EXCEPT !.fs.last_clst = e.clust - 1])

(* FA_OPEN_APPEND: to the end of the file, following its chain. *)
pass_cluster(t, ofs) ==
  LET c == t.val
      s == clst2sect(c) + (ofs \div SS)
  IN IF ofs > Csize * SS
     THEN Upon(get_fat(t, c), LAMBDA g:
            IF g.val \in {0, IntErr, Ones}
            THEN Ret(g, IF g.val = Ones THEN "FR_DISK_ERR" ELSE "FR_INT_ERR")
            ELSE More(g))
     ELSE LET k == [t EXCEPT !.fp.clust = c]
          IN IF ofs % SS = 0 THEN k
             ELSE IF clst2sect(c) = 0 THEN Ret(k, "FR_INT_ERR")
             ELSE fill_buf([k EXCEPT !.fp.sect = s], s)

seek_end(t, c, size) ==
  Repeat(Val(t, c), LAMBDA s, i: pass_cluster(s, size - (i - 1) * Csize * SS), size)

open_object(t, mode) ==
  LET e == Entry(t)
      o == [t EXCEPT !.fp = [Closed EXCEPT
              !.open = TRUE,
              !.flag = mode \cap {"read", "write", "modified"}, !.sclust = e.clust, !.objsize = e.size,
              !.dir_sect = t.fs.winsect, !.dir_ptr = Slot(t)]]
  IN IF "seekend" \in mode /\ e.size > 0
     THEN seek_end([o EXCEPT !.fp.fptr = e.size], e.clust, e.size)
     ELSE o

(* From the result s of following the path on. *)
open_found(s, mode) ==
  LET opened(d, m) == Then(d, LAMBDA o: open_object(o, m))
  IN IF mode \cap {"always", "openalways", "new"} # {}
     THEN IF s.res # "FR_OK"
          THEN opened(Then(IF s.res = "FR_NO_FILE" THEN dir_register(s) ELSE s,
                           LAMBDA d: open_create(d, mode, FALSE)),
                      mode \cup {"always", "modified"})
          ELSE IF s.dp.attr \in {"dir", "ro"} THEN Ret(s, "FR_DENIED")
          ELSE IF "new" \in mode THEN Ret(s, "FR_EXIST")
          ELSE opened(open_create(s, mode, TRUE),
                      IF "always" \in mode THEN mode \cup {"modified"} ELSE mode)
     ELSE IF s.res # "FR_OK" THEN s
     ELSE IF s.dp.attr = "dir" THEN Ret(s, "FR_NO_FILE")
     ELSE IF "write" \in mode /\ s.dp.attr = "ro" THEN Ret(s, "FR_DENIED")
     ELSE open_object(s, mode)

f_open(t, path, mode) ==
  Upon(Then(mount_volume(t), LAMBDA m:
         Upon(follow_path(m, path), LAMBDA s:
           open_found(IF s.res = "FR_OK" /\ s.dp.noname THEN Ret(s, "FR_INVALID_NAME") ELSE s,
                      mode))), LAMBDA r:
    IF r.res = "FR_OK" THEN r ELSE [r EXCEPT !.fp = Closed])

----------------------------------------------------------------------------
(* f_read and f_write: the cluster of the file pointer, then whole sectors *)
(* directly and parts of a sector through the buffer.                      *)

Csect(t) == (t.fp.fptr \div SS) % Csize
Sect(t) == clst2sect(t.fp.clust) + Csect(t)
Whole(t, n) == Least(n \div SS, Csize - Csect(t))

read_cluster(t) ==
  IF Csect(t) # 0 THEN t
  ELSE Upon(IF t.fp.fptr = 0 THEN Val(t, t.fp.sclust) ELSE get_fat(t, t.fp.clust), LAMBDA g:
         CASE g.val < 2 -> Ret(g, "FR_INT_ERR")
           [] g.val = Ones -> Ret(g, "FR_DISK_ERR")
           [] OTHER -> [Ret(g, "FR_OK") EXCEPT !.fp.clust = g.val])

(* A sector that is in the dirty buffer is newer there than on the card. *)
read_direct(t, cc) ==
  Then(disk_read(t), LAMBDA r:
    [r EXCEPT !.fp.fptr = @ + SS * cc,
              !.out = @ \o [i \in 1 .. SS * cc |->
                 LET s == Sect(t) + ((i - 1) \div SS)
                 IN IF "dirty" \in t.fp.flag /\ s = t.fp.sect
                    THEN t.fp.buf[(i - 1) % SS]
                    ELSE Bytes(r.disk[s])[(i - 1) % SS]]])

read_buffered(t, n) ==
  LET at == t.fp.fptr % SS
      sect == Sect(t)
      loaded == IF at # 0 THEN t
                ELSE Then(IF t.fp.sect = sect THEN t
                          ELSE Then(flush_buf(t), LAMBDA f: fill_buf(f, sect)),
                          LAMBDA b: [b EXCEPT !.fp.sect = sect])
      cnt == Least(n, SS - at)
  IN Then(loaded, LAMBDA l:
       [l EXCEPT !.fp.fptr = @ + cnt,
                 !.out = @ \o [i \in 1 .. cnt |-> l.fp.buf[at + i - 1]]])

read_some(t, n) ==
  Then(IF t.fp.fptr % SS = 0 THEN read_cluster(t) ELSE t, LAMBDA s:
    IF s.fp.fptr % SS = 0 /\ clst2sect(s.fp.clust) = 0 THEN Ret(s, "FR_INT_ERR")
    ELSE IF s.fp.fptr % SS = 0 /\ Whole(s, n) > 0 THEN read_direct(s, Whole(s, n))
    ELSE read_buffered(s, n))

(* The file pointer is to come to the position to. *)
read_on(t, to) ==
  IF t.fp.fptr = to THEN t
  ELSE Upon(read_some(t, to - t.fp.fptr), LAMBDA r:
         IF r.res = "FR_OK" THEN More(r) ELSE Abort(r))

read_units(t, n) == Repeat(t, LAMBDA s, i: read_on(s, t.fp.fptr + n), n + 1)

f_read(t, n) ==
  Then(granted(t, "read"), LAMBDA g: read_units(g, Least(n, g.fp.objsize - g.fp.fptr)))

write_cluster(t) ==
  IF Csect(t) # 0 THEN t
  ELSE Upon(IF t.fp.fptr = 0 /\ t.fp.sclust # 0 THEN Val(t, t.fp.sclust)
            ELSE create_chain(t, IF t.fp.fptr = 0 THEN 0 ELSE t.fp.clust), LAMBDA g:
         IF g.val = 0 THEN Ret(g, "full")
         ELSE Then(Ret(g, ClusterError(g.val)), LAMBDA c:
                [c EXCEPT !.fp.clust = c.val,
                          !.fp.sclust = IF @ = 0 THEN c.val ELSE @]))

(* Mutant: the size of the file is forgotten. *)
advance_only(t, cnt) == [t EXCEPT !.fp.fptr = @ + cnt]

advance(t, cnt) ==
  LET f == t.fp.fptr + cnt
  IN [t EXCEPT !.fp.fptr = f,
               !.fp.objsize = IF f > @ THEN f ELSE @]

write_direct(t, x, cc) ==
  LET sect == Sect(t)
      full == [i \in Units |-> x]
  IN Then(disk_write(t, sect, [n \in 0 .. cc - 1 |-> DataSector(full)]), LAMBDA w:
       advance(IF w.fp.sect \in sect .. sect + cc - 1
               THEN [w EXCEPT !.fp.buf = full, !.fp.flag = @ \ {"dirty"}]
               ELSE w, SS * cc))

(* Mutant: a sector that is overwritten in part is not read first. *)
write_unread(t, x, n) ==
  LET at == t.fp.fptr % SS
      cnt == Least(n, SS - at)
  IN advance([t EXCEPT !.fp.sect = Sect(t),
                       !.fp.buf = [i \in Units |-> IF i \in at .. at + cnt - 1
                                                   THEN x ELSE @[i]],
                       !.fp.flag = @ \cup {"dirty"}], cnt)

write_buffered(t, x, n) ==
  LET at == t.fp.fptr % SS
      sect == Sect(t)
      old == at = 0 /\ t.fp.sect # sect /\ t.fp.fptr < t.fp.objsize
      loaded == Then(IF old THEN fill_buf(t, sect) ELSE Ret(t, "FR_OK"),
                     LAMBDA l: IF at = 0 THEN [l EXCEPT !.fp.sect = sect] ELSE l)
      cnt == Least(n, SS - at)
  IN Then(loaded, LAMBDA l:
       advance([l EXCEPT !.fp.buf = [i \in Units |-> IF i \in at .. at + cnt - 1
                                                     THEN x ELSE @[i]],
                         !.fp.flag = @ \cup {"dirty"}], cnt))

write_some(t, x, n) ==
  Then(IF t.fp.fptr % SS = 0 THEN Then(write_cluster(t), flush_buf) ELSE t, LAMBDA s:
    IF s.fp.fptr % SS = 0 /\ clst2sect(s.fp.clust) = 0 THEN Ret(s, "FR_INT_ERR")
    ELSE IF s.fp.fptr % SS = 0 /\ Whole(s, n) > 0 THEN write_direct(s, x, Whole(s, n))
    ELSE write_buffered(s, x, n))

(* A disk that is full ends the call, which still succeeds. *)
write_on(t, x, to) ==
  IF t.fp.fptr = to THEN t
  ELSE Upon(write_some(t, x, to - t.fp.fptr), LAMBDA w:
         CASE w.res = "full" -> Ret(w, "FR_OK")
           [] w.res = "FR_OK" -> More(w)
           [] OTHER -> Abort(w))

write_units(t, x, n) == Repeat(t, LAMBDA s, i: write_on(s, x, t.fp.fptr + n), n + 1)

f_write(t, x, n) ==
  Then(granted(t, "write"), LAMBDA g:
    Then(write_units(g, x, n), LAMBDA w: [w EXCEPT !.fp.flag = @ \cup {"modified"}]))

----------------------------------------------------------------------------
(* f_sync, f_close, f_lseek, f_truncate *)

f_sync(t) ==
  Then(validate(t), LAMBDA v:
    IF "modified" \notin v.fp.flag THEN v
    ELSE Then(flush_buf(v), LAMBDA b:
      Then(move_window(b, b.fp.dir_sect), LAMBDA w:
        LET e == EntriesOf(w.fs.win)[w.fp.dir_ptr]
            set == SetSlot(w, w.fp.dir_ptr,
                           [e EXCEPT !.clust = w.fp.sclust, !.size = w.fp.objsize])
        IN Upon(sync_fs(set), LAMBDA y:
             [y EXCEPT !.fp.flag = @ \ {"modified"}, !.cut = @ /\ y.res # "FR_OK"]))))

f_close(t) == Then(f_sync(t), LAMBDA s: [s EXCEPT !.fp = Closed])

(* To the position to, from the start of the cluster the file object is    *)
(* at; a full disk stops the pointer.                                      *)
seek_cluster(t, to) ==
  LET bcs == Csize * SS
      c == t.fp.clust
      ofs == to - t.fp.fptr
      m == [t EXCEPT !.fp.fptr = @ + bcs]
      here == [t EXCEPT !.fp.fptr = @ + ofs,
                        !.val = IF ofs % SS # 0 THEN clst2sect(c) + (ofs \div SS) ELSE 0]
  IN IF ofs <= bcs
     THEN Ret(here, IF ofs % SS # 0 /\ clst2sect(c) = 0 THEN "FR_INT_ERR" ELSE "FR_OK")
     ELSE Upon(IF "write" \in t.fp.flag THEN create_chain(m, c) ELSE get_fat(m, c), LAMBDA g:
            IF g.val = 0 /\ "write" \in t.fp.flag THEN Ret(Val(g, 0), "FR_OK")
            ELSE IF g.val = Ones THEN Ret(g, "FR_DISK_ERR")
            ELSE IF g.val \notin Clusters THEN Ret(g, "FR_INT_ERR")
            ELSE More([g EXCEPT !.fp.clust = g.val]))

seek_clusters(t, to) == Repeat(t, LAMBDA s, i: seek_cluster(s, to), to)

seek_start(t, ofs) ==
  LET bcs == Csize * SS
      cur == t.fp.fptr
      base == ((cur - 1) \div bcs) * bcs
      z == [t EXCEPT !.fp.fptr = 0]
  IN IF ofs = 0 THEN [Val(z, 0) EXCEPT !.res = "FR_OK"]
     ELSE IF cur > 0 /\ (ofs - 1) \div bcs >= (cur - 1) \div bcs
     THEN seek_clusters([t EXCEPT !.fp.fptr = base], ofs)
     ELSE Upon(IF t.fp.sclust # 0 THEN Val(z, t.fp.sclust) ELSE create_chain(z, 0), LAMBDA c:
            Then(Ret(c, ClusterError(c.val)), LAMBDA f:
              LET s == [f EXCEPT !.fp.sclust = f.val, !.fp.clust = f.val]
              IN IF f.val = 0 THEN s ELSE seek_clusters(s, ofs)))

(* The file grows to its pointer, and the buffer holds the sector there.   *)
seek_settle(s) ==
  Upon(IF s.fp.fptr > s.fp.objsize
       THEN [s EXCEPT !.fp.objsize = s.fp.fptr, !.fp.flag = @ \cup {"modified"}]
       ELSE s, LAMBDA l:
    IF l.fp.fptr % SS = 0 \/ s.val = l.fp.sect THEN l
    ELSE Then(flush_buf(l), LAMBDA b:
           Then(fill_buf(b, s.val), LAMBDA d: [d EXCEPT !.fp.sect = s.val])))

f_lseek(t, to) ==
  Then(usable(t), LAMBDA u:
    LET ofs == IF to > u.fp.objsize /\ "write" \notin u.fp.flag THEN u.fp.objsize ELSE to
    IN Abort(Then(seek_start(u, ofs), seek_settle)))

f_truncate(t) ==
  Then(granted(t, "write"), LAMBDA u:
    IF u.fp.fptr >= u.fp.objsize THEN u
    ELSE Upon(IF u.fp.fptr = 0
              THEN [remove_chain(u, u.fp.sclust, 0) EXCEPT !.fp.sclust = 0]
              ELSE Upon(get_fat(u, u.fp.clust), LAMBDA g:
                     Then(Ret(g, ClusterError(g.val)), LAMBDA c:
                       IF c.val < NFatent THEN remove_chain(c, c.val, c.fp.clust) ELSE c)),
              LAMBDA r:
                Abort(Then([r EXCEPT !.fp.objsize = r.fp.fptr, !.fp.flag = @ \cup {"modified"},
                                     !.cut = TRUE], flush_buf))))

----------------------------------------------------------------------------
(* f_unlink, f_mkdir, f_rename, f_stat, f_getfree and listing a directory  *)

unlink_allowed(t) ==
  IF t.dp.noname THEN Ret(t, "FR_INVALID_NAME")
  ELSE IF t.dp.attr = "ro" THEN Ret(t, "FR_DENIED")
  ELSE IF t.dp.attr # "dir" THEN t
  ELSE Upon(Then(dir_sdi([t EXCEPT !.dp = [NewDir EXCEPT !.sclust = Entry(t).clust]]),
                 dir_read), LAMBDA d:
         Ret([d EXCEPT !.dp = t.dp], CASE d.res = "FR_OK" -> "FR_DENIED"
                                       [] d.res = "FR_NO_FILE" -> "FR_OK"
                                       [] OTHER -> d.res))

(* Mutant: the chain is freed before the entry is removed. *)
f_unlink_freed(t, path) ==
  Then(mount_volume(t), LAMBDA m:
    Then(follow_path(m, path), LAMBDA s:
      LET c == Entry(s).clust
      IN Then(unlink_allowed(s), LAMBDA a:
           Then(IF c # 0 THEN remove_chain(a, c, 0) ELSE a, LAMBDA d:
             Then(dir_remove(d), sync_fs)))))

f_unlink(t, path) ==
  Then(mount_volume(t), LAMBDA m:
    Then(follow_path(m, path), LAMBDA s:
      LET c == Entry(s).clust
      IN Then(unlink_allowed(s), LAMBDA a:
           Then(dir_remove(a), LAMBDA d:
             Then(IF c # 0 THEN remove_chain(d, c, 0) ELSE d, sync_fs)))))

Dot(c) == [name |-> ".", attr |-> "dir", clust |-> c, size |-> 0]

f_mkdir(t, path) ==
  LET table(s, c, parent) ==
        SetSlot(SetSlot(s, 0, Dot(c)), 1, [Dot(parent) EXCEPT !.name = ".."])
      register(s, c) == Then(dir_clear(s, c), LAMBDA d:
                          dir_register(table(d, c, d.dp.sclust)))
      finish(r, c) == Upon(r, LAMBDA s:
                        IF s.res = "FR_OK"
                        THEN sync_fs(SetEntry(s, [Entry(s) EXCEPT !.attr = "dir", !.clust = c]))
                        ELSE Ret(remove_chain(s, c, 0), s.res))
  IN Then(mount_volume(t), LAMBDA m:
       Upon(follow_path(m, path), LAMBDA s:
         IF s.res = "FR_OK" THEN Ret(s, "FR_EXIST")
         ELSE IF s.res # "FR_NO_FILE" THEN s
         ELSE Upon(create_chain(s, 0), LAMBDA a:
                finish(IF a.val = 0 THEN Ret(a, "FR_DENIED")
                       ELSE Then(Ret(a, ClusterError(a.val)), LAMBDA b: register(b, b.val)),
                       a.val))))

(* The entry is copied to its new name, ".." of a moved directory is set,  *)
(* and the old entry is removed.                                           *)
rename_to(o, n) ==
  LET e == Entry(o)
      taken == n.res = "FR_OK"
               /\ ~(n.dp.sclust = o.dp.sclust /\ n.dp.dptr = o.dp.dptr)
      copy(r) == SetEntry(r, [e EXCEPT !.name = Entry(r).name])
      moved(c) ==
        IF e.attr # "dir" \/ n.dp.sclust = o.dp.sclust THEN c
        ELSE IF clst2sect(e.clust) = 0 THEN Ret(c, "FR_INT_ERR")
        ELSE Then(move_window(c, clst2sect(e.clust)), LAMBDA w:
               LET up == EntriesOf(w.fs.win)[1]
               IN IF up.name # ".." THEN w
                  ELSE SetSlot(w, 1, [up EXCEPT !.clust = n.dp.sclust]))
  IN Then(Ret(n, IF taken THEN "FR_EXIST" ELSE IF n.res = "FR_NO_FILE" THEN "FR_OK" ELSE n.res),
          LAMBDA c:
       Then(dir_register(c), LAMBDA r: moved(copy([r EXCEPT !.split = r.dp.sect # o.dp.sect]))))

f_rename(t, from, to) ==
  Then(mount_volume(t), LAMBDA m:
    Then(follow_path(m, from), LAMBDA o:
      IF o.dp.noname THEN Ret(o, "FR_INVALID_NAME")
      ELSE Then(Upon(follow_path(o, to), LAMBDA n: rename_to(o, n)), LAMBDA l:
             Then(dir_remove([l EXCEPT !.dp = o.dp]), sync_fs))))

f_stat(t, path) ==
  Then(mount_volume(t), LAMBDA m:
    Then(follow_path(m, path), LAMBDA s:
      IF s.dp.noname THEN Ret(s, "FR_INVALID_NAME")
      ELSE [s EXCEPT !.out = get_fileinfo(s)]))

f_opendir(t, path) ==
  LET opened(s) == IF s.dp.noname THEN dir_sdi(s)
                   ELSE IF s.dp.attr = "dir"
                   THEN dir_sdi([s EXCEPT !.dp.sclust = Entry(s).clust])
                   ELSE Ret(s, "FR_NO_PATH")
  IN Upon(Then(mount_volume(t), LAMBDA m: Then(follow_path(m, path), opened)), LAMBDA r:
       CASE r.res = "FR_OK" ->
              [r EXCEPT !.dj = [r.dp EXCEPT !.open = TRUE, !.fn = "", !.attr = ""]]
         [] r.res = "FR_NO_FILE" -> Ret(r, "FR_NO_PATH")
         [] OTHER -> r)

(* The end of the directory, and stepping onto it, are no errors. *)
f_readdir(t) ==
  LET end(d) == Upon(d, LAMBDA s: IF s.res = "FR_NO_FILE" THEN Ret(s, "FR_OK") ELSE s)
      v == Ret([t EXCEPT !.dp = dj],
               IF dj.open /\ t.fs.fs_type # 0 THEN "FR_OK" ELSE "FR_INVALID_OBJECT")
  IN Upon(Then(end(Then(v, dir_read)), LAMBDA e:
            end(dir_next([e EXCEPT !.out = get_fileinfo(e).name], FALSE))), LAMBDA r:
       [r EXCEPT !.dj = [r.dp EXCEPT !.fn = "", !.attr = ""]])

f_closedir(t) == [t EXCEPT !.dj = NewDir]

(* t.val counts the free entries before that of the cluster c.             *)
count_entry(t, c) ==
  Then(move_window(t, FatSect(c)), LAMBDA w:
    LET n == IF w.fs.win.d[c % FatPerSector] = 0 THEN w.val + 1 ELSE w.val
    IN IF c < NFatent - 1 THEN More(Val(w, n)) ELSE Val(w, n))

count_free(t) == Repeat(Val(t, 0), LAMBDA s, i: count_entry(s, i - 1), NFatent)

(* A disk error ends the count, and what was counted is taken as the count. *)
f_getfree(t) ==
  Then(mount_volume(t), LAMBDA m:
    IF m.fs.free_clst <= NFatent - 2 THEN [m EXCEPT !.out = m.fs.free_clst]
    ELSE Upon(count_free(m), LAMBDA w:
           [w EXCEPT !.fs.free_clst = w.val, !.fs.fsi_flag = InfoChanged(@), !.out = w.val]))

----------------------------------------------------------------------------
(* The disk with every pending write made: the dirty window, the size and  *)
(* first cluster of the open file in its entry, its dirty buffer.          *)
LogicalDisk(t) ==
  LET a == IF t.fs.fs_type # 0 /\ t.fs.wflag
           THEN [t.disk EXCEPT ![t.fs.winsect] = t.fs.win] ELSE t.disk
      b == IF t.fp.open /\ a[t.fp.dir_sect].k = "dir"
           THEN [a EXCEPT ![t.fp.dir_sect].d[t.fp.dir_ptr].clust = t.fp.sclust,
                          ![t.fp.dir_sect].d[t.fp.dir_ptr].size = t.fp.objsize] ELSE a
  IN IF t.fp.open /\ "dirty" \in t.fp.flag
     THEN [b EXCEPT ![t.fp.sect] = DataSector(t.fp.buf)] ELSE b

(* The files of the tree with the nodes ns, with their contents. *)
FilesOf(d, ns) ==
  LET node(p) == (CHOOSE n \in ns : n[1] = p)[2]
      file(e) == [kind |-> e.attr,
                  data |-> IF e.attr = "dir" THEN <<>> ELSE Content(d, e)]
  IN [p \in {n[1] : n \in ns} |-> file(node(p))]

(* What the application sees of t, in the terms of FileStore; the open     *)
(* file is the one with path nm, the directory listed the one with path dn. *)
Shown(t, nm, dn) ==
  LET d == LogicalDisk(t)
      at == IF t.dj.sclust = 0 THEN Root ELSE t.dj.sclust
  IN [disk |-> d,
      files |-> FilesOf(d, Nodes(d)),
      room |-> Cardinality(Clusters \ Used(d)),
      cur |-> IF t.fp.open
              THEN [path |-> nm, mode |-> t.fp.flag \cap {"read", "write"}, pos |-> t.fp.fptr]
              ELSE [path |-> <<>>, mode |-> {}, pos |-> 0],
      list |-> IF t.dj.open
               THEN [path |-> dn,
                     rest |-> IF t.dj.sect = 0 THEN {}
                              ELSE {e.name : e \in EntriesFrom(d, at, t.dj.dptr)}]
               ELSE [path |-> <<"none">>, rest |-> {}]]

----------------------------------------------------------------------------
(* Calls.  A call starts from the variables and leaves its results there.  *)

Faults == {NoFault} \cup
  IF faults < MaxFaults
  THEN {f \in [at : FaultAt, all : BOOLEAN, lands : BOOLEAN] :
          (f.at = 0 => f.all) /\ ~(f.all /\ f.lands)}
  ELSE {}

Start(f) == [disk |-> disk, fs |-> fs, fp |-> fp, dj |-> dj, dp |-> NewDir,
             calls |-> 0, fault |-> f, split |-> FALSE, cut |-> cut, risk |-> risk,
             res |-> "FR_OK", val |-> 0, out |-> <<>>]

(* The fault chosen for the call did strike it. *)
Struck(t) == /\ t.calls >= t.fault.at
             /\ t.fault.at = 0 => t.res = "FR_NOT_READY"

(* Ends the call op: t is its state at the return, nm the paths in use.    *)
(* A loop that would go on after all its turns has not returned.           *)
ReturnAs(op, arg, t, nm) ==
  /\ t.res # "more"
  /\ t.fault # NoFault => Struck(t)
  /\ disk' = t.disk
  /\ fs' = t.fs
  /\ fp' = t.fp
  /\ dj' = t.dj
  /\ cut' = t.cut
  /\ risk' = t.risk
  /\ ret' = [op |-> op, arg |-> arg, res |-> t.res, out |-> t.out]
  /\ calls' = calls + 1
  /\ faults' = IF t.fault = NoFault THEN faults ELSE faults + 1
  /\ name' = nm
  /\ shown' = Shown(t, nm.file, nm.dir)

Return(op, arg, t) == ReturnAs(op, arg, t, name)

(* The call may change the files ps: they are no longer safe. *)
Forget(ps) == safe' = [p \in DOMAIN safe \ ps |-> safe[p]]
Under(p) == {q \in Paths : Len(q) >= Len(p) /\ SubSeq(q, 1, Len(p)) = p}
(* FF_FS_LOCK is 0: it is left to the application not to remove or rename  *)
(* what is open, nor to move a directory into itself.                      *)
Free(p) == /\ fp.open => name.file \notin Under(p)
           /\ dj.open => name.dir \notin Under(p)

----------------------------------------------------------------------------
Init ==
  /\ disk \in Disks
  /\ fs = Unmounted
  /\ fp = Closed
  /\ dj = NewDir
  /\ ret = [op |-> "none", arg |-> <<>>, res |-> "FR_OK", out |-> <<>>]
  /\ name = [file |-> <<>>, dir |-> <<>>]
  /\ calls = 0
  /\ faults = 0
  /\ cut = FALSE
  /\ risk = FALSE
  /\ shown = Shown(Start(NoFault), <<>>, <<>>)
  /\ safe = [p \in {q \in Paths : EntryAt(disk, q).attr = "file"} |->
               Content(disk, EntryAt(disk, p))]

Keep == UNCHANGED safe

(* A file that was written back successfully is safe. *)
Stored == safe' = IF ret'.res = "FR_OK" /\ "modified" \in fp.flag
                     THEN [p \in DOMAIN safe \cup {name.file} |->
                             IF p = name.file THEN shown.files[p].data
                             ELSE safe[p]]
                     ELSE safe

Open(p, m, f) ==
  /\ ~fp.open
  /\ ReturnAs("f_open", <<p, m>>, f_open(Start(f), p, m), [name EXCEPT !.file = p])
  /\ Forget(IF "always" \in m THEN {p} ELSE {})

Read(n, f) == fp.open /\ Return("f_read", <<n>>, f_read(Start(f), n)) /\ Keep

Write(x, n, f) ==
  /\ fp.open
  /\ fp.fptr + n <= MaxSize
  /\ Return("f_write", <<x, n>>, f_write(Start(f), x, n))
  /\ Forget({name.file})

Sync(f) == fp.open /\ Return("f_sync", <<>>, f_sync(Start(f))) /\ Stored
Close(f) == fp.open /\ Return("f_close", <<>>, f_close(Start(f))) /\ Stored

Seek(to, f) ==
  /\ fp.open
  /\ Return("f_lseek", <<to>>, f_lseek(Start(f), to))
  /\ Forget(IF to > fp.objsize THEN {name.file} ELSE {})

Truncate(f) ==
  /\ fp.open
  /\ Return("f_truncate", <<>>, f_truncate(Start(f)))
  /\ Forget({name.file})

Unlink(p, f) ==
  Free(p) /\ Return("f_unlink", <<p>>, f_unlink(Start(f), p)) /\ Forget(Under(p))
Mkdir(p, f) == Return("f_mkdir", <<p>>, f_mkdir(Start(f), p)) /\ Keep
Rename(p, q, f) ==
  /\ Free(p)
  /\ q = p \/ q \notin Under(p)
  /\ Return("f_rename", <<p, q>>, f_rename(Start(f), p, q))
  /\ Forget(Under(p))

Stat(p, f) == Return("f_stat", <<p>>, f_stat(Start(f), p)) /\ Keep
GetFree(f) == Return("f_getfree", <<>>, f_getfree(Start(f))) /\ Keep

Opendir(p, f) ==
  /\ ~dj.open
  /\ ReturnAs("f_opendir", <<p>>, f_opendir(Start(f), p), [name EXCEPT !.dir = p])
  /\ UNCHANGED safe
Readdir(f) == dj.open /\ Return("f_readdir", <<>>, f_readdir(Start(f))) /\ Keep
Closedir(f) == dj.open /\ Return("f_closedir", <<>>, f_closedir(Start(f))) /\ Keep

(* The card loses power, or f_mount is called again: what is in memory is  *)
(* gone, the volume is mounted by the next call that needs it.             *)
f_mount ==
  /\ faults < MaxFaults
  /\ fs # Unmounted
  /\ fs' = Unmounted
  /\ fp' = Closed
  /\ dj' = NewDir
  /\ ret' = [op |-> "f_mount", arg |-> <<>>, res |-> "FR_OK", out |-> <<>>]
  /\ faults' = faults + 1
  /\ cut' = FALSE
  /\ risk' = (risk \/ cut)
  /\ shown' = Shown([Start(NoFault) EXCEPT !.fs = Unmounted, !.fp = Closed, !.dj = NewDir],
                    <<>>, <<>>)
  /\ UNCHANGED <<disk, name, calls, safe>>

Call(f) ==
  \/ \E p \in Paths, m \in Modes : Open(p, m, f)
  \/ \E n \in Sizes : Read(n, f)
  \/ \E n \in Sizes, x \in Values : Write(x, n, f)
  \/ \E to \in Offsets : Seek(to, f)
  \/ Sync(f) \/ Close(f) \/ Truncate(f) \/ GetFree(f)
  \/ \E p \in Paths : Unlink(p, f) \/ Mkdir(p, f) \/ Stat(p, f)
  \/ \E p, q \in Paths : Rename(p, q, f)
  \/ \E p \in DirPaths : Opendir(p, f)
  \/ Readdir(f) \/ Closedir(f)

Next == f_mount \/ (calls < MaxCalls /\ \E f \in Faults : Call(f))

Spec == Init /\ [][Next]_vars

----------------------------------------------------------------------------
NoFaultYet == faults = 0

(* Every sector of the card holds what belongs in its area.  The window    *)
(* and the file object stay in range: the window holds a sector of the     *)
(* volume when it is dirty, the free count is unknown or possible,         *)
(* and the file pointer passes the end of the file only where an error     *)
(* stopped f_lseek, after which the object refuses to read or write        *)
(* (move_window, f_read, f_write, f_lseek).                                *)
TypeOK ==
  /\ Formatted(disk)
  /\ fs.wflag => fs.winsect \in Fat1 \cup DataArea
  /\ fs.free_clst \in FreeCounts
  /\ fs.last_clst \in LastClusters
  /\ fp.sclust \in {0} \cup Clusters
  /\ fp.err = "FR_OK" => fp.fptr <= fp.objsize
  /\ "dirty" \in fp.flag => fp.sect \in DataArea

(* Every chain that a directory entry or the root starts ends properly,    *)
(* no two share a cluster, and directories hold entries: with everything   *)
(* pending written, and on the card alone at any moment at which it could  *)
(* lose power -- but for the changes of two sectors that FatFs cannot make *)
(* at once (cut, risk).  While nothing failed, the clusters in use are     *)
(* those of the tree: none is lost.  remove_chain, create_chain,           *)
(* dir_register, f_mkdir, f_rename and the order in which f_open and       *)
(* f_unlink write.                                                         *)
ChainsSound ==
  /\ ~risk => Sound(shown.disk) /\ (cut \/ Sound(disk))
  /\ NoFaultYet => Used(shown.disk) = Linked(shown.disk)

(* While nothing failed, the count of free clusters that the FATFS object  *)
(* keeps is that of the FAT, and the second FAT is a copy of the first     *)
(* (create_chain, remove_chain, sync_window, f_getfree).                   *)
SpaceAccounted ==
  NoFaultYet =>
    /\ fs.fs_type # 0 /\ fs.free_clst # Ones => fs.free_clst = shown.room
    /\ Mirrored(disk)

(* A file that f_sync or f_close stored successfully stays on the card,    *)
(* whatever fails in later calls that do not concern it.                   *)
SafeFilesStay ==
  \A p \in DOMAIN safe : LET e == EntryAt(disk, p)
                         IN e.attr = "file" /\ Content(disk, e) = safe[p]

(* f_close flushes cached data (the comment at ff.c:4785): when it returns *)
(* FR_OK the card holds the file as the application left it.               *)
CloseMeansStored ==
  [][ret'.op = "f_close" /\ ret'.res = "FR_OK" /\ fp.err = "FR_OK"
       => Content(disk', EntryAt(disk', name.file)) = shown.files[name.file].data]_vars

----------------------------------------------------------------------------
FS == INSTANCE FileStore WITH files <- shown.files, cur <- shown.cur, list <- shown.list,
                              room <- shown.room, ret <- ret

(* On a card that does not fail every call does what FileStore says, and   *)
(* has no other effect: names, bytes, positions, listings and errors.      *)
ImplementsFileStore == FS!Init /\ [][faults' = 0 => FS!Next]_vars
=============================================================================
