----------------------------- MODULE FileStore -----------------------------
(***************************************************************************)
(* What FatFs promises to the application on a card that does not fail: a  *)
(* tree of named files and directories, one open file, one listing.  A     *)
(* call either has its effect or reports an error and has none.            *)
(***************************************************************************)
EXTENDS Naturals, Sequences, FiniteSets

CONSTANTS BadName   \* a name that cannot be in a directory

VARIABLES
  files,   \* path -> [kind : "file", "ro" or "dir", data : units]
  cur,     \* the open file: [path, mode, pos], or NoFile
  list,    \* the listing: [path, rest], names still to come; or NoList
  room,    \* clusters that are free
  ret      \* [op, arg, res, out] of the last call

NoFile == [path |-> <<>>, mode |-> {}, pos |-> 0]
NoList == [path |-> <<"none">>, rest |-> {}]

Least(a, b) == IF a < b THEN a ELSE b
Parent(p) == SubSeq(p, 1, Len(p) - 1)
NameOf(p) == p[Len(p)]
Prefix(p, q) == Len(p) <= Len(q) /\ SubSeq(q, 1, Len(p)) = p
IsDir(p) == p = <<>> \/ (p \in DOMAIN files /\ files[p].kind = "dir")
ChildrenIn(fs, p) == {NameOf(q) : q \in {r \in DOMAIN fs : r # <<>> /\ Parent(r) = p}}

(* What following the path p reports. *)
Lookup(p) ==
  CASE \E i \in DOMAIN p : p[i] = BadName /\ IsDir(SubSeq(p, 1, i - 1)) -> "FR_INVALID_NAME"
    [] ~IsDir(Parent(p)) -> "FR_NO_PATH"
    [] p \notin DOMAIN files -> "FR_NO_FILE"
    [] OTHER -> "FR_OK"

Data == files[cur.path].data
Empty == [kind |-> "file", data |-> <<>>]
With(p, e) == [q \in DOMAIN files \cup {p} |-> IF q = p THEN e ELSE files[q]]
Without(ps) == [q \in DOMAIN files \ ps |-> files[q]]
Now(d) == With(cur.path, [files[cur.path] EXCEPT !.data = d])

(* A name in ns was added, removed or moved: what remains to be listed of  *)
(* the other names is what remained before.                                *)
ListKeeps(ns) ==
  /\ list'.path = list.path
  /\ list'.rest \subseteq ChildrenIn(files', list.path)
  /\ list'.rest \ ns = list.rest \ ns

Done(op, arg, out) == ret' = [op |-> op, arg |-> arg, res |-> "FR_OK", out |-> out]
Fail(op, arg, res) == /\ ret' = [op |-> op, arg |-> arg, res |-> res, out |-> <<>>]
                      /\ UNCHANGED <<files, list, room>>
Same == UNCHANGED <<files, list, room>>

----------------------------------------------------------------------------
Init == /\ cur = NoFile
        /\ list = NoList

Creates(m) == m \cap {"always", "openalways", "new"} # {}

OpenError(p, m) ==
  LET l == Lookup(p)
      kind == files[p].kind
  IN CASE l = "FR_NO_FILE" /\ Creates(m) -> "FR_OK"
       [] l # "FR_OK" -> l
       [] Creates(m) /\ kind \in {"dir", "ro"} -> "FR_DENIED"
       [] "new" \in m -> "FR_EXIST"
       [] kind = "dir" -> "FR_NO_FILE"
       [] kind = "ro" /\ "write" \in m -> "FR_DENIED"
       [] OTHER -> "FR_OK"

Opened(p, m) ==
  LET old == p \in DOMAIN files /\ "always" \notin m
  IN /\ files' = IF old THEN files ELSE With(p, Empty)
     /\ cur' = [path |-> p, mode |-> m \cap {"read", "write"},
                pos |-> IF old /\ "seekend" \in m THEN Len(files[p].data) ELSE 0]
     /\ IF old THEN room' = room
        ELSE IF p \in DOMAIN files THEN room' >= room ELSE room' <= room

Open(p, m) ==
  /\ cur = NoFile
  /\ \/ /\ OpenError(p, m) = "FR_OK"
        /\ Opened(p, m)
        /\ ListKeeps({NameOf(p)})
        /\ Done("f_open", <<p, m>>, <<>>)
     \/ /\ OpenError(p, m) # "FR_OK"
        /\ Fail("f_open", <<p, m>>, OpenError(p, m)) /\ cur' = cur
     \/ /\ Lookup(p) = "FR_NO_FILE" /\ Creates(m) /\ room = 0
        /\ Fail("f_open", <<p, m>>, "FR_DENIED") /\ cur' = cur

Denied(op, arg, access) ==
  access \notin cur.mode /\ Fail(op, arg, "FR_DENIED") /\ cur' = cur

Read(n) ==
  /\ cur # NoFile
  /\ LET to == Least(cur.pos + n, Len(Data))
     IN \/ /\ "read" \in cur.mode
           /\ Done("f_read", <<n>>, SubSeq(Data, cur.pos + 1, to))
           /\ cur' = [cur EXCEPT !.pos = to]
           /\ Same
        \/ Denied("f_read", <<n>>, "read")

(* A full disk ends a write early. *)
Write(x, n) ==
  /\ cur # NoFile
  /\ \/ \E k \in 0 .. n :
          LET end == cur.pos + k
              len == IF end > Len(Data) THEN end ELSE Len(Data)
          IN /\ "write" \in cur.mode
             /\ k < n => room' = 0
             /\ files' = Now([i \in 1 .. len |->
                                IF i \in cur.pos + 1 .. end THEN x ELSE Data[i]])
             /\ cur' = [cur EXCEPT !.pos = end]
             /\ room' <= room
             /\ Done("f_write", <<x, n>>, <<>>)
             /\ UNCHANGED list
     \/ Denied("f_write", <<x, n>>, "write")

Sync ==
  /\ cur # NoFile
  /\ Done("f_sync", <<>>, <<>>) /\ Same /\ cur' = cur

Close ==
  /\ cur # NoFile
  /\ Done("f_close", <<>>, <<>>) /\ Same /\ cur' = NoFile

(* Behind the end the file grows, by units of any value. *)
Seek(to) ==
  /\ cur # NoFile
  /\ Done("f_lseek", <<to>>, <<>>)
  /\ UNCHANGED list
  /\ \/ /\ to <= Len(Data) \/ "write" \notin cur.mode
        /\ cur' = [cur EXCEPT !.pos = Least(to, Len(Data))]
        /\ UNCHANGED <<files, room>>
     \/ /\ to > Len(Data) /\ "write" \in cur.mode
        /\ LET new == files'[cur.path].data
           IN /\ Len(new) \in Len(Data) .. to
              /\ Len(new) < to => room' = 0
              /\ files' = Now(new)
              /\ SubSeq(new, 1, Len(Data)) = Data
              /\ cur' = [cur EXCEPT !.pos = Len(new)]
              /\ room' <= room

Truncate ==
  /\ cur # NoFile
  /\ \/ /\ "write" \in cur.mode
        /\ files' = Now(SubSeq(Data, 1, cur.pos))
        /\ room' >= room
        /\ Done("f_truncate", <<>>, <<>>)
        /\ UNCHANGED <<cur, list>>
     \/ Denied("f_truncate", <<>>, "write")

----------------------------------------------------------------------------
UnlinkError(p) ==
  CASE Lookup(p) # "FR_OK" -> Lookup(p)
    [] files[p].kind = "ro" -> "FR_DENIED"
    [] ChildrenIn(files, p) # {} -> "FR_DENIED"
    [] OTHER -> "FR_OK"

Unlink(p) ==
  /\ cur' = cur
  /\ \/ /\ UnlinkError(p) = "FR_OK"
        /\ files' = Without({p})
        /\ room' >= room
        /\ ListKeeps({NameOf(p)})
        /\ Done("f_unlink", <<p>>, <<>>)
     \/ /\ UnlinkError(p) # "FR_OK"
        /\ Fail("f_unlink", <<p>>, UnlinkError(p))

Mkdir(p) ==
  /\ cur' = cur
  /\ \/ /\ Lookup(p) = "FR_NO_FILE"
        /\ files' = With(p, [Empty EXCEPT !.kind = "dir"])
        /\ room' < room
        /\ ListKeeps({NameOf(p)})
        /\ Done("f_mkdir", <<p>>, <<>>)
     \/ /\ Lookup(p) = "FR_NO_FILE" /\ room < 2
        /\ Fail("f_mkdir", <<p>>, "FR_DENIED")
     \/ /\ Lookup(p) # "FR_NO_FILE"
        /\ Fail("f_mkdir", <<p>>, IF Lookup(p) = "FR_OK" THEN "FR_EXIST" ELSE Lookup(p))

(* The object and what is below it move. *)
Moved(p, q) ==
  LET to(r) == IF Prefix(p, r) THEN q \o SubSeq(r, Len(p) + 1, Len(r)) ELSE r
  IN [s \in {to(r) : r \in DOMAIN files} |->
        files[CHOOSE r \in DOMAIN files : to(r) = s]]

RenameError(p, q) ==
  CASE Lookup(p) # "FR_OK" -> Lookup(p)
    [] q = p -> "FR_OK"
    [] Lookup(q) = "FR_OK" -> "FR_EXIST"
    [] Lookup(q) = "FR_NO_FILE" -> "FR_OK"
    [] OTHER -> Lookup(q)

Rename(p, q) ==
  /\ cur' = cur
  /\ \/ /\ RenameError(p, q) = "FR_OK"
        /\ files' = Moved(p, q)
        /\ room' <= room
        /\ ListKeeps({NameOf(p), NameOf(q)})
        /\ Done("f_rename", <<p, q>>, <<>>)
     \/ /\ RenameError(p, q) # "FR_OK"
        /\ Fail("f_rename", <<p, q>>, RenameError(p, q))
     \/ /\ RenameError(p, q) = "FR_OK" /\ room = 0
        /\ Fail("f_rename", <<p, q>>, "FR_DENIED")

Stat(p) ==
  /\ cur' = cur
  /\ \/ /\ Lookup(p) = "FR_OK"
        /\ ret'.out.attr = files[p].kind
        /\ cur.path # p => ret'.out.size = Len(files[p].data)
        /\ Done("f_stat", <<p>>, ret'.out)
        /\ Same
     \/ /\ Lookup(p) # "FR_OK"
        /\ Fail("f_stat", <<p>>, Lookup(p))

GetFree == Done("f_getfree", <<>>, room) /\ Same /\ cur' = cur

Opendir(p) ==
  /\ cur' = cur
  /\ list = NoList
  /\ \/ /\ IsDir(p)
        /\ list' = [path |-> p, rest |-> ChildrenIn(files, p)]
        /\ Done("f_opendir", <<p>>, <<>>)
        /\ UNCHANGED <<files, room>>
     \/ /\ ~IsDir(p)
        /\ Fail("f_opendir", <<p>>,
                IF Lookup(p) = "FR_INVALID_NAME" THEN Lookup(p) ELSE "FR_NO_PATH")

(* Every name once, then the empty name. *)
Readdir ==
  /\ list # NoList
  /\ \/ /\ list.rest = {}
        /\ Done("f_readdir", <<>>, "") /\ list' = list
     \/ \E x \in list.rest :
          Done("f_readdir", <<>>, x) /\ list' = [list EXCEPT !.rest = @ \ {x}]
  /\ UNCHANGED <<files, cur, room>>

Closedir ==
  /\ list # NoList
  /\ list' = NoList
  /\ Done("f_closedir", <<>>, <<>>)
  /\ UNCHANGED <<files, cur, room>>

(* The call is the one ret' names. *)
Next ==
  LET a == ret'.arg
      op == ret'.op
  IN \/ op = "f_open" /\ Open(a[1], a[2])
     \/ op = "f_read" /\ Read(a[1])
     \/ op = "f_write" /\ Write(a[1], a[2])
     \/ op = "f_sync" /\ Sync
     \/ op = "f_close" /\ Close
     \/ op = "f_lseek" /\ Seek(a[1])
     \/ op = "f_truncate" /\ Truncate
     \/ op = "f_unlink" /\ Unlink(a[1])
     \/ op = "f_mkdir" /\ Mkdir(a[1])
     \/ op = "f_rename" /\ Rename(a[1], a[2])
     \/ op = "f_stat" /\ Stat(a[1])
     \/ op = "f_getfree" /\ GetFree
     \/ op = "f_opendir" /\ Opendir(a[1])
     \/ op = "f_readdir" /\ Readdir
     \/ op = "f_closedir" /\ Closedir

Spec == Init /\ [][Next]_<<files, cur, list, room, ret>>
=============================================================================
