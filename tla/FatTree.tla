------------------------------ MODULE FatTree ------------------------------
(***************************************************************************)
(* What the sectors d of a card hold, read without the code: the areas of  *)
(* the volume, chains of clusters, the tree of names, the bytes of files;  *)
(* and when they are sound.                                                *)
(***************************************************************************)
EXTENDS FatVolume

CONSTANTS MaxDepth   \* levels of directories below the root

NoBuf == [i \in Units |-> 0]
Bytes(sector) == IF sector.k = "data" THEN sector.d ELSE NoBuf
Least(a, b) == IF a < b THEN a ELSE b

(* What a sector can hold, and what the sector s can, by the area it is    *)
(* in: the boot records, FSInfo, the two FATs with their reserved entries  *)
(* in use, the data area.                                                  *)
FreeCounts == 0 .. NFatent - 2 \cup {Ones}
LastClusters == 0 .. NFatent - 1 \cup {Ones}
Entries == [name : Names, attr : Attributes, clust : {0} \cup Clusters, size : Nat]
BootBlocks == [k : {"vbr"}] \cup [k : {"mbr"}, lba : [1 .. 4 -> Nat]]
InfoBlocks == [k : {"info"}, free : FreeCounts, nxt : LastClusters]
FatBlocks == [k : {"fat"}, d : [0 .. FatPerSector - 1 -> 0 .. EOC]]
DataBlocks == [k : {"data"}, d : [Units -> Nat]]
DirBlocks == [k : {"dir"}, d : [0 .. DirPerSector - 1 -> Entries]]
Blocks == BootBlocks \cup InfoBlocks \cup FatBlocks \cup DataBlocks \cup DirBlocks

MayHold(s, b) ==
  /\ s <= Volbase => b \in BootBlocks \cup DataBlocks
  /\ s = Volbase + 1 => b \in InfoBlocks
  /\ s \in Fatbase .. Database - 1 => b \in FatBlocks
  /\ \A c \in {0, 1} : s \in {FatSect(c), FatSect(c) + Fsize} => b.d[c % FatPerSector] # 0
  /\ s \in DataArea => b \in DataBlocks \cup DirBlocks

Formatted(d) ==
  d \in [0 .. LastSector -> Blocks] /\ \A s \in 0 .. LastSector : MayHold(s, d[s])

----------------------------------------------------------------------------
FatEntry(d, c) == d[FatSect(c)].d[c % FatPerSector]

Chain(d, c) ==
  LET from[a, n \in Nat] == IF a \notin Clusters \/ n = 0 THEN <<>>
                            ELSE <<a>> \o from[FatEntry(d, a), n - 1]
  IN from[c, NFatent]

SectorsOf(d, c) ==
  LET ch == Chain(d, c)
  IN [i \in 1 .. Csize * Len(ch) |->
        d[clst2sect(ch[((i - 1) \div Csize) + 1]) + ((i - 1) % Csize)]]

(* The entries of a directory with the sectors ss, and the files and       *)
(* directories among them after the first n and before the end.            *)
AllEntries(ss) ==
  [i \in 1 .. DirPerSector * Len(ss) |->
     EntriesOf(ss[((i - 1) \div DirPerSector) + 1])[(i - 1) % DirPerSector]]
EntriesAfter(all, n) ==
  {all[i] : i \in {j \in n + 1 .. Len(all) :
                     all[j].attr \in {"file", "ro", "dir"} /\ all[j].name \notin {DDEM, ".", ".."}
                     /\ \A e \in 1 .. j : all[e].name # ""}}
EntriesFrom(d, c, n) == EntriesAfter(AllEntries(SectorsOf(d, c)), n)
EntriesIn(d, c) == EntriesFrom(d, c, 0)

EntryAt(d, path) ==
  LET at[c, i \in Nat] ==
        LET es == {e \in EntriesIn(d, c) : e.name = path[i]}
            e == CHOOSE x \in es : TRUE
        IN IF es = {} THEN NoEntry
           ELSE IF i = Len(path) THEN e
           ELSE IF e.attr # "dir" THEN NoEntry
           ELSE at[e.clust, i + 1]
  IN at[Root, 1]

Content(d, e) ==
  LET ss == SectorsOf(d, e.clust)
  IN [i \in 1 .. Least(e.size, SS * Len(ss)) |->
        Bytes(ss[((i - 1) \div SS) + 1])[(i - 1) % SS]]

(* The tree: path -> entry. *)
Nodes(d) ==
  LET below[c \in Nat, path \in Seq(Names), n \in Nat] ==
        LET es == EntriesIn(d, c)
            dirs == {e \in es : e.attr = "dir"}
        IN {<<Append(path, e.name), e>> : e \in es}
           \cup IF n = 0 THEN {}
                ELSE UNION {below[e.clust, Append(path, e.name), n - 1] : e \in dirs}
  IN below[Root, <<>>, MaxDepth]
Tree(d) == {n[2] : n \in Nodes(d)}

----------------------------------------------------------------------------
ChainOK(d, c) ==
  LET ch == Chain(d, c)
      last == ch[Len(ch)]
  IN /\ Len(ch) > 0 /\ Len(ch) < NFatent
     /\ FatEntry(d, last) = EOC

Heads(d) == {e \in Tree(d) : e.clust # 0}

DirsHoldEntries(d) ==
  \A c \in {Root} \cup {e.clust : e \in {x \in Heads(d) : x.attr = "dir"}} :
    \A i \in DOMAIN SectorsOf(d, c) : SectorsOf(d, c)[i].k = "dir"

Sound(d) ==
  LET hs == Heads(d)
      cl(c) == {Chain(d, c)[i] : i \in DOMAIN Chain(d, c)}
  IN /\ \A c \in {Root} \cup {e.clust : e \in hs} : ChainOK(d, c)
     /\ \A e1, e2 \in hs : e1 # e2 => cl(e1.clust) \cap cl(e2.clust) = {}
     /\ \A e \in hs : cl(e.clust) \cap cl(Root) = {}
     /\ DirsHoldEntries(d)

Used(d) == {c \in Clusters : FatEntry(d, c) # 0}

Mirrored(d) == \A s \in Fat1 : d[s] = d[s + Fsize]

(* FSInfo does not know the number of free clusters, or knows it right.    *)
InfoRight(d) == d[Volbase + 1].free \in {Ones, Cardinality(Clusters \ Used(d))}

Linked(d) == UNION {{Chain(d, c)[i] : i \in DOMAIN Chain(d, c)} :
                      c \in {Root} \cup {e.clust : e \in Heads(d)}}
=============================================================================
