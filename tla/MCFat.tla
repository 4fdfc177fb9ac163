------------------------------- MODULE MCFat -------------------------------
EXTENDS FatFs, TLC

(***************************************************************************)
(* FatFs on two small cards: six clusters of two sectors, two entries or   *)
(* two units of data in a sector.                                          *)
(***************************************************************************)
MCPaths == {<<"a">>, <<"b">>, <<"b", "a">>}
MCDirPaths == {<<>>, <<"b">>, <<"bad">>}
MCNames == {"", ".", "..", DDEM, BadName, "LABEL", "a", "b", "c"}
MCModes == {{"read", "write"}, {"write", "always"},
            {"read", "openalways", "seekend"}, {"write", "new"}}
(* ret and shown are not read by any step; shown follows from the others.   *)
View == <<disk, fs, fp, dj, name, calls, faults, cut, risk, safe>>

Fat(next) ==
  [n \in 0 .. Fsize - 1 |->
     FatSector([i \in 0 .. FatPerSector - 1 |->
                  LET c == n * FatPerSector + i
                  IN CASE c < 2 \/ c >= NFatent -> EOC
                       [] c \in DOMAIN next -> next[c]
                       [] OTHER -> 0])]

(* The sectors of a directory in one cluster, of a file full of x. *)
Table(es) == [n \in 0 .. Csize - 1 |->
                DirSector([i \in 0 .. DirPerSector - 1 |->
                             LET j == n * DirPerSector + i + 1
                             IN IF j \in DOMAIN es THEN es[j] ELSE NoEntry])]
Filled(x) == [n \in 0 .. Csize - 1 |-> DataSector([i \in Units |-> x])]

(* A card: partition table, FAT, FSInfo, clusters that hold something. *)
Card(lba, next, info, content) ==
  LET cl(s) == ((s - Database) \div Csize) + 2
      off(s) == (s - Database) % Csize
  IN [s \in 0 .. LastSector |->
        CASE s = 0 -> [k |-> "mbr", lba |-> lba]
          [] s = Volbase -> [k |-> "vbr"]
          [] s = Volbase + 1 -> info
          [] s \in Fatbase .. Fatbase + Fsize - 1 -> Fat(next)[s - Fatbase]
          [] s \in Fatbase + Fsize .. Database - 1 -> Fat(next)[s - Fatbase - Fsize]
          [] OTHER -> IF cl(s) \in DOMAIN content THEN content[cl(s)][off(s)]
                      ELSE DataSector([i \in Units |-> 0])]

Ent(n, a, c, z) == [name |-> n, attr |-> a, clust |-> c, size |-> z]

(* A root directory with no entry left but a deleted one, a file in two    *)
(* clusters that are apart.                                                *)
CardFull == Card(<<Volbase, 0, 0, 0>>,
  (2 :> EOC) @@ (3 :> 5) @@ (5 :> EOC), FsInfo(3, 5),
  (2 :> Table(<<Ent("LABEL", "vol", 0, 0), Ent("a", "file", 3, 5), Ent(DDEM, "file", 0, 0),
                Ent("c", "ro", 0, 0)>>))
  @@ (3 :> Filled(1)) @@ (5 :> Filled(1)))

(* A file in a directory; one cluster is free, FSInfo does not know it.    *)
CardDeep == Card(<<0, 0, Volbase, 0>>,
  (2 :> EOC) @@ (3 :> EOC) @@ (4 :> 5) @@ (5 :> 6) @@ (6 :> EOC), FsInfo(Ones, Ones),
  (2 :> Table(<<Ent("b", "dir", 3, 0), Ent("a", "file", 0, 0)>>))
  @@ (3 :> Table(<<Ent(".", "dir", 3, 0), Ent("..", "dir", 0, 0), Ent("a", "file", 4, 9)>>))
  @@ (4 :> Filled(1)) @@ (5 :> Filled(1)) @@ (6 :> Filled(1)))

MCDisks == {CardFull, CardDeep}
=============================================================================
