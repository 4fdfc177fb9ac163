---------------------------- MODULE PmapProofs ----------------------------
(***************************************************************************)
(* Proofs about Pmap, for any number of cores, frames and values: on a     *)
(* page that vm_alloc gave to one core only, no access goes through a      *)
(* stale translation, the emulated bits tell how the page was used, and    *)
(* an access takes at most one fault of each kind.                         *)
(***************************************************************************)
EXTENDS Pmap, FiniteSetTheorems, TLAPS

Owners == {c \in Cpus : page[c] # 0}
EntryOrNone == Entry \cup {NoEntry}

Typing ==
  /\ next_addr \in Nat
  /\ l3 \in [Pages -> EntryOrNone]
  /\ tlb \in [Cpus -> EntryOrNone]
  /\ mem \in [Frames -> Values]
  /\ free \subseteq Frames
  /\ page \in [Cpus -> Nat]
  /\ pc \in [Cpus -> {"idle", "vmStore", "access", "flush"}]
  /\ read \in [Cpus -> Nat]
  /\ access \in [Cpus -> Accesses(0..MaxFaults) \cup {NoAccess}]
  /\ content \in [Cpus -> Values \cup {NoValue}]
  /\ used \in [Cpus -> BOOLEAN] /\ shared \in [Cpus -> BOOLEAN]
  /\ written \in [Cpus -> {"no", "yes", "unknown"}]

(* No core has read more of next_addr than there are cores with a page,    *)
(* so the pages all lie in the table.                                      *)
Counting ==
  /\ next_addr <= Cardinality(Owners)
  /\ \A c \in Cpus : read[c] <= Cardinality(Owners) /\ page[c] <= Cardinality(Owners)

Shape ==
  \A c \in Cpus :
    /\ page[c] = 0 => /\ ~tlb[c].valid /\ access[c] = NoAccess /\ content[c] = NoValue
                      /\ pc[c] \in {"idle", "vmStore"}
    /\ pc[c] = "vmStore" => page[c] = 0
    /\ pc[c] = "idle" => access[c] = NoAccess
    /\ pc[c] = "access" => access[c] # NoAccess

(* Two cores with one page both know it. *)
Sharing == \A c \in Cpus, d \in Cpus : c # d /\ page[c] = page[d] /\ page[c] # 0 => shared[c]

(* The frames a page can reach, through the table or a TLB. *)
Reaches(v, f) ==
  \/ l3[v].valid /\ l3[v].frame = f
  \/ \E c \in Cpus : page[c] = v /\ tlb[c].valid /\ tlb[c].frame = f

FramesApart ==
  \A v \in Pages, f \in Frames : Reaches(v, f) =>
    /\ f \notin free
    /\ \A w \in Pages \ {v} : ~Reaches(w, f)

OnlyOwned == \A v \in Pages : l3[v].valid => \E c \in Cpus : page[c] = v

(* A core alone on its page: its TLB is coherent with the table except     *)
(* between a write and the invalidation that follows it.                   *)
Coherent(c) ==
  /\ tlb[c].valid /\ pc[c] # "flush" => tlb[c] = get_pte(c)
  /\ get_pte(c).valid => content[c] = mem[get_pte(c).frame]
  /\ ~get_pte(c).valid => content[c] = NoValue

Stores1(c) == access[c] # NoAccess /\ access[c].kind = "store"

Bits(c) ==
  LET e == get_pte(c) IN
  e.valid /\ e.sw_rw =>
    /\ used[c] => e.af
    /\ access[c] = NoAccess /\ e.af => used[c]
    /\ written[c] = "yes" => e.dbm
    /\ written[c] # "unknown" /\ e.dbm => written[c] = "yes" \/ Stores1(c)
    /\ written[c] # "unknown" /\ ~e.ro => e.dbm

(* The faults an access has taken are the obstacles it has found removed.  *)
Removed(c) ==
  LET e == get_pte(c) IN
  access[c] # NoAccess =>
    access[c].faults <= (IF e.valid /\ e.af THEN 1 ELSE 0)
                        + (IF e.valid /\ ~e.ro /\ access[c].kind = "store" THEN 1 ELSE 0)

Alone(c) == Private(c) => Coherent(c) /\ Bits(c) /\ Removed(c)

RoIsTracked == \A v \in Pages : l3[v].valid /\ l3[v].ro => l3[v].sw_rw

IPmap ==
  /\ Typing /\ Counting /\ Shape /\ Sharing /\ FramesApart /\ OnlyOwned /\ RoIsTracked
  /\ \A c \in Cpus : Alone(c)

-----------------------------------------------------------------------------

(* What an entry holds. *)
LEMMA EntryFields ==
  ASSUME NEW e \in EntryOrNone
  PROVE  /\ e.valid \in BOOLEAN
         /\ e.valid => /\ e \in Entry /\ e.frame \in Frames /\ e.af \in BOOLEAN
                       /\ e.ro \in BOOLEAN /\ e.dbm \in BOOLEAN /\ e.sw_rw \in BOOLEAN
         /\ ~e.valid => e = NoEntry
<1>1. CASE e \in Entry
  <2>1. e.valid \in {TRUE} /\ e.frame \in Frames
    BY <1>1 DEF Entry
  <2>2. e.af \in BOOLEAN /\ e.ro \in BOOLEAN /\ e.dbm \in BOOLEAN /\ e.sw_rw \in BOOLEAN
    BY <1>1 DEF Entry
  <2> QED
    BY <1>1, <2>1, <2>2
<1>2. CASE e = NoEntry
  BY <1>2, Zenon DEF NoEntry
<1> QED
  BY <1>1, <1>2 DEF EntryOrNone

(* What an access holds. *)
LEMMA AccessFields ==
  ASSUME NEW a \in Accesses(0..MaxFaults) \cup {NoAccess}, a # NoAccess
  PROVE  /\ a.kind \in {"load", "store"} /\ a.faults \in 0..MaxFaults
         /\ a.kind = "store" => a.value \in Values
  BY DEF Accesses, NoAccess

(* The pages of the cores lie in the table. *)
LEMMA PageInTable ==
  ASSUME Typing, Counting, NEW c \in Cpus, page[c] # 0
  PROVE  page[c] \in Pages /\ get_pte(c) \in EntryOrNone /\ get_pte(c) = l3[page[c]]
<1>1. Owners \subseteq Cpus
  BY DEF Owners
<1>2. IsFiniteSet(Owners) /\ Cardinality(Owners) <= Cardinality(Cpus)
      /\ Cardinality(Owners) \in Nat /\ Cardinality(Cpus) \in Nat
  BY <1>1, PmapAssumption, FS_Subset, FS_CardinalityType
<1>3. page[c] \in Nat /\ page[c] <= Cardinality(Owners)
  BY DEF Typing, Counting
<1>4. page[c] \in Pages
  BY <1>2, <1>3 DEF Pages
<1> QED
  BY <1>4 DEF Typing, get_pte

(* It holds at the start. *)
LEMMA InitPmap == Init => IPmap
<1> SUFFICES ASSUME Init PROVE IPmap
  OBVIOUS
<1>1. Owners = {}
  BY DEF Init, Owners
<1>2. Cardinality(Owners) = 0
  BY <1>1, FS_EmptySet
<1>3. Typing
  BY DEF Init, Typing, EntryOrNone
<1>4. Counting /\ Shape /\ Sharing
  BY <1>2 DEF Init, Counting, Shape, Sharing, NoEntry
<1>5. \A v \in Pages : ~l3[v].valid
  BY DEF Init, NoEntry
<1>6. \A c \in Cpus : ~tlb[c].valid
  BY DEF Init, NoEntry
<1>7. FramesApart /\ OnlyOwned /\ RoIsTracked
  BY <1>5, <1>6 DEF FramesApart, Reaches, OnlyOwned, RoIsTracked
<1>8. \A c \in Cpus : Alone(c)
  BY DEF Init, Alone, Private
<1> QED
  BY <1>3, <1>4, <1>7, <1>8 DEF IPmap

-----------------------------------------------------------------------------
(* What the step of one core leaves to the others.                         *)

(* A step of d changes the state of d, the entry of its page and a frame   *)
(* its page reaches.                                                       *)
Elsewhere(d) ==
  /\ \A c \in Cpus \ {d} :
       /\ pc'[c] = pc[c] /\ tlb'[c] = tlb[c] /\ page'[c] = page[c] /\ access'[c] = access[c]
       /\ content'[c] = content[c] /\ used'[c] = used[c] /\ written'[c] = written[c]
       /\ shared[c] => shared'[c]
  /\ \A v \in Pages : page[d] # v => l3'[v] = l3[v]
  /\ \A f \in Frames : mem'[f] = mem[f] \/ (page[d] # 0 /\ Reaches(page[d], f))

(* A core that takes no step keeps its part of the invariant. *)
LEMMA OthersAlone ==
  ASSUME IPmap, NEW d \in Cpus, Elsewhere(d), NEW c \in Cpus \ {d}
  PROVE  Alone(c)'
<1> SUFFICES ASSUME Private(c)' PROVE (Coherent(c) /\ Bits(c) /\ Removed(c))'
  BY DEF Alone
<1>1. /\ pc'[c] = pc[c] /\ tlb'[c] = tlb[c] /\ page'[c] = page[c] /\ access'[c] = access[c]
      /\ content'[c] = content[c] /\ used'[c] = used[c] /\ written'[c] = written[c]
  BY DEF Elsewhere
<1>2. Private(c) /\ page[c] # 0
  BY <1>1 DEF Private, Elsewhere
<1>3. page[d] # page[c]
  BY <1>2 DEF IPmap, Sharing, Private
<1>4. page[c] \in Pages /\ get_pte(c) \in EntryOrNone /\ get_pte(c) = l3[page[c]]
  BY <1>2, PageInTable DEF IPmap
<1>5. get_pte(c)' = get_pte(c)
  BY <1>1, <1>3, <1>4 DEF Elsewhere, get_pte
<1>6. get_pte(c).valid => mem'[get_pte(c).frame] = mem[get_pte(c).frame]
  <2> SUFFICES ASSUME get_pte(c).valid PROVE mem'[get_pte(c).frame] = mem[get_pte(c).frame]
    OBVIOUS
  <2> DEFINE f == get_pte(c).frame
  <2>1. f \in Frames /\ Reaches(page[c], f)
    BY <1>4, EntryFields DEF Reaches
  <2>2. page[d] # 0 => page[d] \in Pages
    BY PageInTable DEF IPmap
  <2>3. ~(page[d] # 0 /\ Reaches(page[d], f))
    BY <1>3, <1>4, <2>1, <2>2 DEF IPmap, FramesApart
  <2> QED
    BY <2>1, <2>3 DEF Elsewhere
<1>7. Coherent(c) /\ Bits(c) /\ Removed(c)
  BY <1>2 DEF IPmap, Alone
<1> QED
  BY <1>1, <1>5, <1>6, <1>7 DEF Coherent, Bits, Removed, Stores1

(* Frames stay apart when a page reaches, besides the frames it did, only  *)
(* one that pm_alloc just granted.                                         *)
LEMMA FramesStayApart ==
  ASSUME FramesApart, free' \subseteq free, NEW p,
         \A v \in Pages, f \in Frames : Reaches(v, f)' =>
           Reaches(v, f) \/ (v = p /\ f \in free /\ f \notin free')
  PROVE  FramesApart'
  BY DEF FramesApart

Rest == Typing /\ Counting /\ Shape /\ Sharing /\ FramesApart /\ OnlyOwned /\ RoIsTracked

(* A step that writes the entry n in the page of d, with the entry's own   *)
(* frame or one just granted, and leaves the other variables of d so.      *)
Writes(d, n, a, x, u, w) ==
  /\ page[d] # 0 /\ n \in EntryOrNone /\ Write(d, n)
  /\ free' \subseteq free
  /\ n.valid => \/ get_pte(d).valid /\ n.frame = get_pte(d).frame
                \/ n.frame \in free /\ n.frame \notin free'
  /\ n.valid /\ n.ro => n.sw_rw
  /\ a \in Accesses(0..MaxFaults) \cup {NoAccess} /\ access' = [access EXCEPT ![d] = a]
  /\ x \in Values \cup {NoValue} /\ content' = [content EXCEPT ![d] = x]
  /\ u \in BOOLEAN /\ used' = [used EXCEPT ![d] = u]
  /\ w \in {"no", "yes", "unknown"} /\ written' = [written EXCEPT ![d] = w]

(* It keeps everything but what the core itself relies on. *)
LEMMA TableWrite ==
  ASSUME IPmap, NEW d \in Cpus, NEW n, NEW a, NEW x, NEW u, NEW w, Writes(d, n, a, x, u, w)
  PROVE  /\ Rest' /\ \A c \in Cpus \ {d} : Alone(c)'
         /\ get_pte(d)' = n /\ pc'[d] = "flush" /\ access'[d] = a /\ content'[d] = x
         /\ used'[d] = u /\ written'[d] = w
         /\ UNCHANGED <<mem, page, shared, tlb>>
<1> USE DEF IPmap, Writes
<1>1. /\ l3' = [l3 EXCEPT ![page[d]] = n] /\ pc' = [pc EXCEPT ![d] = "flush"]
      /\ UNCHANGED <<next_addr, page, read, shared, tlb, mem>>
  BY DEF Write, Goto, vmVars
<1>2. page[d] \in Pages /\ get_pte(d) = l3[page[d]]
  BY PageInTable
<1>3. /\ l3'[page[d]] = n /\ pc'[d] = "flush" /\ access'[d] = a /\ content'[d] = x
      /\ used'[d] = u /\ written'[d] = w
  BY <1>1, <1>2 DEF Typing
<1>4. get_pte(d)' = n
  BY <1>1, <1>3 DEF get_pte
<1>5. Typing'
  BY <1>1, <1>2 DEF Typing
<1>6. Counting' /\ Sharing'
  <2>1. Owners' = Owners
    BY <1>1 DEF Owners
  <2> QED
    BY <1>1, <2>1 DEF Counting, Sharing
<1>7. Shape'
  <2>1. \A c \in Cpus \ {d} : pc'[c] = pc[c] /\ access'[c] = access[c] /\ content'[c] = content[c]
    BY <1>1 DEF Typing
  <2> QED
    BY <1>1, <1>3, <2>1 DEF Shape
<1>8. \A v \in Pages : page[d] # v => l3'[v] = l3[v]
  BY <1>1 DEF Typing
<1>9. FramesApart'
  <2>1. ASSUME NEW v \in Pages, NEW f \in Frames, Reaches(v, f)'
        PROVE  Reaches(v, f) \/ (v = page[d] /\ f \in free /\ f \notin free')
    <3>1. CASE v = page[d]
      BY <1>1, <1>2, <1>3, <2>1, <3>1 DEF Reaches
    <3>2. CASE v # page[d]
      BY <1>1, <1>8, <2>1, <3>2 DEF Reaches
    <3> QED
      BY <3>1, <3>2
  <2> QED
    BY <2>1, FramesStayApart
<1>10. OnlyOwned'
  BY <1>1, <1>8 DEF OnlyOwned
<1>11. RoIsTracked'
  BY <1>3, <1>8 DEF RoIsTracked
<1>12. Elsewhere(d)
  BY <1>1, <1>8 DEF Elsewhere, Typing
<1>13. \A c \in Cpus \ {d} : Alone(c)'
  BY <1>12, OthersAlone
<1> QED
  BY <1>1, <1>3, <1>4, <1>5, <1>6, <1>7, <1>9, <1>10, <1>11, <1>13 DEF Rest

(* The parts of all cores are the invariant. *)
LEMMA AloneIsAll ==
  ASSUME NEW d \in Cpus, Rest', \A c \in Cpus \ {d} : Alone(c)', Alone(d)'
  PROVE  IPmap'
  BY DEF Rest, IPmap

(* A page is entered. *)
LEMMA EnterStep == ASSUME IPmap, NEW d \in Cpus, pmap_kenter(d) PROVE IPmap'
<1> USE DEF IPmap
<1>1. Idle(d) /\ page[d] # 0 /\ pc[d] = "idle" /\ access[d] = NoAccess
  BY DEF pmap_kenter, Idle, Shape
<1>2. PICK f \in free :
        /\ free' = free \ {f} /\ content' = Note(content, d, mem[f])
        /\ \E n \in {Tracked(f), Plain(f)} : Write(d, n)
  BY DEF pmap_kenter
<1>3. PICK n \in {Tracked(f), Plain(f)} : Write(d, n)
  BY <1>2
<1>4. PICK m : m = mem[f]
  OBVIOUS
<1>5. /\ used' = [used EXCEPT ![d] = FALSE] /\ written' = [written EXCEPT ![d] = "no"]
      /\ content' = [content EXCEPT ![d] = m]
      /\ access' = [access EXCEPT ![d] = NoAccess]
  BY <1>1, <1>2, <1>4 DEF pmap_kenter, Note, Typing
<1>6. f \in Frames /\ m \in Values
  BY <1>2, <1>4 DEF Typing
<1>7. /\ n \in EntryOrNone /\ n.valid /\ n.frame = f /\ (n.ro => n.sw_rw)
      /\ n.sw_rw => ~n.af /\ ~n.dbm /\ n.ro
  <2>1. CASE n = Tracked(f)
    BY <1>6, <2>1 DEF Tracked, EntryOrNone, Entry
  <2>2. CASE n = Plain(f)
    BY <1>6, <2>2 DEF Plain, EntryOrNone, Entry
  <2> QED
    BY <1>3, <2>1, <2>2
<1> HIDE DEF IPmap
<1>8. /\ Rest' /\ \A c \in Cpus \ {d} : Alone(c)'
      /\ get_pte(d)' = n /\ pc'[d] = "flush" /\ access'[d] = NoAccess /\ content'[d] = m
      /\ used'[d] = FALSE /\ written'[d] = "no" /\ UNCHANGED mem
  <2>1. free' \subseteq free /\ n.frame \in free /\ n.frame \notin free'
    BY <1>2, <1>7
  <2>2. Writes(d, n, NoAccess, m, FALSE, "no")
    BY <1>1, <1>3, <1>5, <1>6, <1>7, <2>1 DEF Writes
  <2> QED
    BY <2>2, TableWrite
<1>9. Alone(d)'
  <2>1. Coherent(d)'
    BY <1>4, <1>7, <1>8 DEF Coherent
  <2>2. Bits(d)'
    BY <1>7, <1>8 DEF Bits
  <2>3. Removed(d)'
    BY <1>8 DEF Removed
  <2> QED
    BY <2>1, <2>2, <2>3 DEF Alone
<1> QED
  BY <1>8, <1>9, AloneIsAll

(* A page is removed. *)
LEMMA RemoveStep == ASSUME IPmap, NEW d \in Cpus, pmap_kremove(d) PROVE IPmap'
<1>1. page[d] # 0 /\ access[d] = NoAccess
  BY DEF pmap_kremove, Idle, Shape, IPmap
<1>2. /\ used' = [used EXCEPT ![d] = FALSE] /\ written' = [written EXCEPT ![d] = "no"]
      /\ content' = [content EXCEPT ![d] = NoValue]
      /\ access' = [access EXCEPT ![d] = NoAccess]
      /\ Write(d, NoEntry) /\ free' = free
  BY <1>1 DEF pmap_kremove, Note, IPmap, Typing
<1>3. NoEntry \in EntryOrNone /\ ~NoEntry.valid
  BY DEF EntryOrNone, NoEntry
<1>4. /\ Rest' /\ \A c \in Cpus \ {d} : Alone(c)'
      /\ get_pte(d)' = NoEntry /\ pc'[d] = "flush" /\ access'[d] = NoAccess
      /\ content'[d] = NoValue
  <2>1. Writes(d, NoEntry, NoAccess, NoValue, FALSE, "no")
    BY <1>1, <1>2, <1>3 DEF Writes
  <2> QED
    BY <2>1, TableWrite
<1>5. Alone(d)'
  BY <1>3, <1>4 DEF Alone, Coherent, Bits, Removed
<1> QED
  BY <1>4, <1>5, AloneIsAll

(* An entry with its access flag set. *)
LEMMA WithAf ==
  ASSUME NEW e \in Entry, NEW b \in BOOLEAN, NEW n, n = [e EXCEPT !.af = b]
  PROVE  /\ n \in Entry /\ n.valid /\ n.frame = e.frame
         /\ n.af = b /\ n.ro = e.ro /\ n.dbm = e.dbm /\ n.sw_rw = e.sw_rw
  BY DEF Entry

(* An entry with its modifier bit set. *)
LEMMA WithDbm ==
  ASSUME NEW e \in Entry, NEW b \in BOOLEAN, NEW n, n = [e EXCEPT !.dbm = b]
  PROVE  /\ n \in Entry /\ n.valid /\ n.frame = e.frame
         /\ n.af = e.af /\ n.ro = e.ro /\ n.dbm = b /\ n.sw_rw = e.sw_rw
  BY DEF Entry

(* An entry whose modification is watched again. *)
LEMMA WithRo ==
  ASSUME NEW e \in Entry, NEW b \in BOOLEAN, NEW n, n = [e EXCEPT !.ro = b, !.dbm = TRUE]
  PROVE  /\ n \in Entry /\ n.valid /\ n.frame = e.frame
         /\ n.af = e.af /\ n.ro = b /\ n.dbm /\ n.sw_rw = e.sw_rw
  BY DEF Entry

(* The pmap operations that change bits of a valid entry, and nothing of   *)
(* an invalid one.                                                         *)
LEMMA ClearReferencedStep ==
  ASSUME IPmap, NEW d \in Cpus, pmap_clear_referenced(d) PROVE IPmap'
<1>1. page[d] # 0 /\ access[d] = NoAccess /\ get_pte(d) \in EntryOrNone /\ get_pte(d) = l3[page[d]]
      /\ page[d] \in Pages
  BY PageInTable DEF pmap_clear_referenced, Idle, Shape, IPmap
<1>2. PICK e, n, x, w :
        /\ e = get_pte(d) /\ n = (IF e.valid THEN [e EXCEPT !.af = FALSE] ELSE e)
        /\ x = content[d] /\ w = written[d]
  OBVIOUS
<1>3. /\ n \in EntryOrNone /\ n.valid = e.valid /\ (~e.valid => n = e)
      /\ e.valid => /\ n.frame = e.frame /\ ~n.af
                    /\ n.ro = e.ro /\ n.dbm = e.dbm /\ n.sw_rw = e.sw_rw
  <2>1. CASE e.valid
    <3>1. e \in Entry /\ n = [e EXCEPT !.af = FALSE]
      BY <1>1, <1>2, <2>1, EntryFields
    <3>2. n \in Entry /\ n.valid /\ n.frame = e.frame /\ n.af = FALSE
          /\ n.ro = e.ro /\ n.dbm = e.dbm /\ n.sw_rw = e.sw_rw
      BY <3>1, WithAf
    <3>3. e.valid = TRUE /\ n.valid = TRUE
      BY <3>1, <3>2 DEF Entry
    <3> QED
      BY <2>1, <3>2, <3>3 DEF EntryOrNone
  <2>2. CASE ~e.valid
    BY <1>1, <1>2, <2>2
  <2> QED
    BY <2>1, <2>2
<1>4. Writes(d, n, NoAccess, x, FALSE, w)
  <2>1. Write(d, n) /\ UNCHANGED <<free, access, content, written>>
        /\ used' = [used EXCEPT ![d] = FALSE]
    BY <1>2 DEF pmap_clear_referenced, Note
  <2>2. n.valid /\ n.ro => n.sw_rw
    BY <1>1, <1>2, <1>3 DEF IPmap, RoIsTracked
  <2> QED
    BY <1>1, <1>2, <1>3, <2>1, <2>2 DEF Writes, IPmap, Typing
<1>5. /\ Rest' /\ \A c \in Cpus \ {d} : Alone(c)'
      /\ get_pte(d)' = n /\ pc'[d] = "flush" /\ access'[d] = NoAccess /\ content'[d] = x
      /\ used'[d] = FALSE /\ written'[d] = w /\ UNCHANGED <<mem, page, shared, tlb>>
  BY <1>4, TableWrite
<1>6. Alone(d)'
  <2> SUFFICES ASSUME Private(d) PROVE (Coherent(d) /\ Bits(d) /\ Removed(d))'
    BY <1>5 DEF Alone, Private
  <2>1. Coherent(d) /\ Bits(d)
    BY DEF IPmap, Alone
  <2>2. Coherent(d)'
    BY <1>2, <1>3, <1>5, <2>1 DEF Coherent
  <2>3. Bits(d)'
    BY <1>1, <1>2, <1>3, <1>5, <2>1 DEF Bits, Stores1
  <2>4. Removed(d)'
    BY <1>5 DEF Removed
  <2> QED
    BY <2>2, <2>3, <2>4
<1> QED
  BY <1>5, <1>6, AloneIsAll

(* The modified bit is cleared. *)
LEMMA ClearModifiedStep ==
  ASSUME IPmap, NEW d \in Cpus, pmap_clear_modified(d) PROVE IPmap'
<1>1. page[d] # 0 /\ access[d] = NoAccess /\ get_pte(d) \in EntryOrNone /\ get_pte(d) = l3[page[d]]
      /\ page[d] \in Pages
  BY PageInTable DEF pmap_clear_modified, Idle, Shape, IPmap
<1>2. PICK e, n, x, u :
        /\ e = get_pte(d) /\ n = (IF e.valid THEN [e EXCEPT !.dbm = FALSE] ELSE e)
        /\ x = content[d] /\ u = used[d]
  OBVIOUS
<1>3. /\ n \in EntryOrNone /\ n.valid = e.valid /\ (~e.valid => n = e)
      /\ e.valid => /\ n.frame = e.frame /\ n.af = e.af
                    /\ n.ro = e.ro /\ n.sw_rw = e.sw_rw
  <2>1. CASE e.valid
    <3>1. e \in Entry /\ n = [e EXCEPT !.dbm = FALSE]
      BY <1>1, <1>2, <2>1, EntryFields
    <3>2. n \in Entry /\ n.valid /\ n.frame = e.frame /\ n.af = e.af
          /\ n.ro = e.ro /\ n.sw_rw = e.sw_rw
      BY <3>1, WithDbm
    <3>3. e.valid = TRUE /\ n.valid = TRUE
      BY <3>1, <3>2 DEF Entry
    <3> QED
      BY <2>1, <3>2, <3>3 DEF EntryOrNone
  <2>2. CASE ~e.valid
    BY <1>1, <1>2, <2>2
  <2> QED
    BY <2>1, <2>2
<1>4. Writes(d, n, NoAccess, x, u, "unknown")
  <2>1. Write(d, n) /\ UNCHANGED <<free, access, content, used>>
        /\ written' = [written EXCEPT ![d] = "unknown"]
    BY <1>2 DEF pmap_clear_modified, Note
  <2>2. n.valid /\ n.ro => n.sw_rw
    BY <1>1, <1>2, <1>3 DEF IPmap, RoIsTracked
  <2> QED
    BY <1>1, <1>2, <1>3, <2>1, <2>2 DEF Writes, IPmap, Typing
<1>5. /\ Rest' /\ \A c \in Cpus \ {d} : Alone(c)'
      /\ get_pte(d)' = n /\ pc'[d] = "flush" /\ access'[d] = NoAccess /\ content'[d] = x
      /\ used'[d] = u /\ written'[d] = "unknown" /\ UNCHANGED <<mem, page, shared, tlb>>
  BY <1>4, TableWrite
<1>6. Alone(d)'
  <2> SUFFICES ASSUME Private(d) PROVE (Coherent(d) /\ Bits(d) /\ Removed(d))'
    BY <1>5 DEF Alone, Private
  <2>1. Coherent(d) /\ Bits(d)
    BY DEF IPmap, Alone
  <2>2. Coherent(d)'
    BY <1>2, <1>3, <1>5, <2>1 DEF Coherent
  <2>3. Bits(d)'
    BY <1>1, <1>2, <1>3, <1>5, <2>1 DEF Bits, Stores1
  <2>4. Removed(d)'
    BY <1>5 DEF Removed
  <2> QED
    BY <2>2, <2>3, <2>4
<1> QED
  BY <1>5, <1>6, AloneIsAll

(* The count of faults of an access. *)
LEMMA OneMoreFault ==
  ASSUME NEW a \in Accesses(0..MaxFaults), NEW b, b = OneFaultMore(a)
  PROVE  /\ b \in Accesses(0..MaxFaults) /\ b # NoAccess /\ a # NoAccess
         /\ b.kind = a.kind /\ b.faults <= a.faults + 1
         /\ a.faults \in Nat /\ b.faults \in Nat
<1>1. CASE a \in [kind : {"load"}, faults : 0..MaxFaults]
  <2>1. b \in [kind : {"load"}, faults : 0..MaxFaults] /\ b.faults <= a.faults + 1
    BY <1>1 DEF MaxFaults, OneFaultMore
  <2> QED
    BY <1>1, <2>1 DEF Accesses, NoAccess
<1>2. CASE a \in [kind : {"store"}, value : Values, faults : 0..MaxFaults]
  <2>1. b \in [kind : {"store"}, value : Values, faults : 0..MaxFaults]
        /\ b.faults <= a.faults + 1
    BY <1>2 DEF MaxFaults, OneFaultMore
  <2> QED
    BY <1>2, <2>1 DEF Accesses, NoAccess
<1> QED
  BY <1>1, <1>2 DEF Accesses

(* A core alone on its page translates through the entry of the table. *)
LEMMA TranslationIsEntry ==
  ASSUME IPmap, NEW d \in Cpus, Private(d), pc[d] = "access"
  PROVE  Translation(d) = get_pte(d)
  BY DEF IPmap, Alone, Coherent, Translation

(* A core in an access. *)
LEMMA Accessing ==
  ASSUME IPmap, NEW d \in Cpus, pc[d] = "access"
  PROVE  /\ page[d] # 0 /\ page[d] \in Pages /\ get_pte(d) \in EntryOrNone
         /\ get_pte(d) = l3[page[d]]
         /\ access[d] \in Accesses(0..MaxFaults) /\ access[d] # NoAccess
<1>1. page[d] # 0 /\ access[d] # NoAccess
  BY DEF IPmap, Shape
<1> QED
  BY <1>1, PageInTable DEF IPmap, Typing

(* The access fault is handled. *)
LEMMA AccessFaultStep ==
  ASSUME IPmap, NEW d \in Cpus, pmap_data_abort_access_fault(d) PROVE IPmap'
<1>1. /\ page[d] # 0 /\ page[d] \in Pages /\ get_pte(d) \in EntryOrNone
      /\ get_pte(d) = l3[page[d]]
      /\ access[d] \in Accesses(0..MaxFaults) /\ access[d] # NoAccess /\ pc[d] = "access"
  BY Accessing DEF pmap_data_abort_access_fault
<1>2. PICK e, n, a, x, u, w :
        /\ e = get_pte(d) /\ n = (IF e.valid THEN [e EXCEPT !.af = TRUE] ELSE e)
        /\ a = OneFaultMore(access[d])
        /\ x = content[d] /\ u = used[d] /\ w = written[d]
  OBVIOUS
<1>3. /\ n \in EntryOrNone /\ n.valid = e.valid /\ (~e.valid => n = e)
      /\ e.valid => /\ n.frame = e.frame /\ n.af
                    /\ n.ro = e.ro /\ n.dbm = e.dbm /\ n.sw_rw = e.sw_rw
  <2>1. CASE e.valid
    <3>1. e \in Entry /\ n = [e EXCEPT !.af = TRUE]
      BY <1>1, <1>2, <2>1, EntryFields
    <3>2. n \in Entry /\ n.valid /\ n.frame = e.frame /\ n.af = TRUE
          /\ n.ro = e.ro /\ n.dbm = e.dbm /\ n.sw_rw = e.sw_rw
      BY <3>1, WithAf
    <3>3. e.valid = TRUE /\ n.valid = TRUE
      BY <3>1, <3>2 DEF Entry
    <3> QED
      BY <2>1, <3>2, <3>3 DEF EntryOrNone
  <2>2. CASE ~e.valid
    BY <1>1, <1>2, <2>2
  <2> QED
    BY <2>1, <2>2
<1>4. /\ a \in Accesses(0..MaxFaults) /\ a # NoAccess /\ a.kind = access[d].kind
      /\ a.faults <= access[d].faults + 1 /\ access[d].faults \in Nat /\ a.faults \in Nat
  BY <1>1, <1>2, OneMoreFault
<1>5. Writes(d, n, a, x, u, w)
  <2>1. /\ Write(d, n) /\ UNCHANGED <<free, content, used, written>>
        /\ access' = [access EXCEPT ![d] = a]
    BY <1>2 DEF pmap_data_abort_access_fault, Again, history
  <2>2. n.valid /\ n.ro => n.sw_rw
    BY <1>1, <1>2, <1>3 DEF IPmap, RoIsTracked
  <2> QED
    BY <1>1, <1>2, <1>3, <1>4, <2>1, <2>2 DEF Writes, IPmap, Typing
<1>6. /\ Rest' /\ \A c \in Cpus \ {d} : Alone(c)'
      /\ get_pte(d)' = n /\ pc'[d] = "flush" /\ access'[d] = a /\ content'[d] = x
      /\ used'[d] = u /\ written'[d] = w /\ UNCHANGED <<mem, page, shared, tlb>>
  BY <1>5, TableWrite
<1>7. Alone(d)'
  <2> SUFFICES ASSUME Private(d) PROVE (Coherent(d) /\ Bits(d) /\ Removed(d))'
    BY <1>6 DEF Alone, Private
  <2>1. Coherent(d) /\ Bits(d) /\ Removed(d)
    BY DEF IPmap, Alone
  <2>2. e.valid /\ ~e.af
    BY <1>1, <1>2, TranslationIsEntry DEF pmap_data_abort_access_fault
  <2>3. Coherent(d)'
    BY <1>2, <1>3, <1>6, <2>1, <2>2 DEF Coherent
  <2>4. Bits(d)'
    BY <1>1, <1>2, <1>3, <1>4, <1>6, <2>1, <2>2 DEF Bits, Stores1
  <2>5. Removed(d)'
    <3>1. access[d].faults <= (IF ~e.ro /\ access[d].kind = "store" THEN 1 ELSE 0)
      BY <1>1, <1>2, <1>4, <2>1, <2>2 DEF Removed
    <3>2. n.valid /\ n.af /\ n.ro = e.ro
      BY <1>3, <2>2
    <3>3. a.faults <= 1 + (IF ~n.ro /\ a.kind = "store" THEN 1 ELSE 0)
      BY <1>4, <3>1, <3>2
    <3> QED
      BY <1>6, <3>2, <3>3 DEF Removed
  <2> QED
    BY <2>3, <2>4, <2>5
<1> QED
  BY <1>6, <1>7, AloneIsAll

(* The permission fault is handled. *)
LEMMA ModifyFaultStep ==
  ASSUME IPmap, NEW d \in Cpus, pmap_data_abort_modify_fault(d) PROVE IPmap'
<1>1. /\ page[d] # 0 /\ page[d] \in Pages /\ get_pte(d) \in EntryOrNone
      /\ get_pte(d) = l3[page[d]]
      /\ access[d] \in Accesses(0..MaxFaults) /\ access[d] # NoAccess /\ pc[d] = "access"
      /\ access[d].kind = "store"
  BY Accessing DEF pmap_data_abort_modify_fault, PermissionFault
<1>2. PICK e, b, n, a, x, u, w :
        /\ e = get_pte(d) /\ b = (e.ro /\ ~e.sw_rw)
        /\ n = (IF e.valid THEN [e EXCEPT !.ro = b, !.dbm = TRUE] ELSE e)
        /\ a = OneFaultMore(access[d])
        /\ x = content[d] /\ u = used[d] /\ w = written[d]
  OBVIOUS
<1>3. /\ n \in EntryOrNone /\ n.valid = e.valid /\ (~e.valid => n = e)
      /\ e.valid => /\ n.frame = e.frame /\ n.af = e.af
                    /\ n.ro = b /\ n.dbm /\ n.sw_rw = e.sw_rw
  <2>1. CASE e.valid
    <3>1. e \in Entry /\ n = [e EXCEPT !.ro = b, !.dbm = TRUE]
      BY <1>1, <1>2, <2>1, EntryFields
    <3>2. b \in BOOLEAN
      BY <1>2, Zenon
    <3>3. n \in Entry /\ n.valid /\ n.frame = e.frame /\ n.af = e.af
          /\ n.ro = b /\ n.dbm /\ n.sw_rw = e.sw_rw
      BY <3>1, <3>2, WithRo
    <3>4. e.valid = TRUE /\ n.valid = TRUE
      BY <3>1, <3>3 DEF Entry
    <3> QED
      BY <2>1, <3>3, <3>4 DEF EntryOrNone
  <2>2. CASE ~e.valid
    BY <1>1, <1>2, <2>2
  <2> QED
    BY <2>1, <2>2
<1>4. /\ a \in Accesses(0..MaxFaults) /\ a # NoAccess /\ a.kind = access[d].kind
      /\ a.faults <= access[d].faults + 1 /\ access[d].faults \in Nat /\ a.faults \in Nat
  BY <1>1, <1>2, OneMoreFault
<1>5. e.valid => ~b
  BY <1>1, <1>2 DEF IPmap, RoIsTracked
<1>6. Writes(d, n, a, x, u, w)
  <2>1. Write(d, n)
    <3>1. Write(d, IF get_pte(d).valid
                   THEN [get_pte(d) EXCEPT !.ro = @ /\ ~get_pte(d).sw_rw, !.dbm = TRUE]
                   ELSE get_pte(d))
      BY DEF pmap_data_abort_modify_fault
    <3>2. (IF get_pte(d).valid
           THEN [get_pte(d) EXCEPT !.ro = @ /\ ~get_pte(d).sw_rw, !.dbm = TRUE]
           ELSE get_pte(d)) = n
      BY <1>2
    <3> QED
      BY <3>1, <3>2 DEF Write
  <2>2. /\ UNCHANGED <<free, content, used, written>>
        /\ access' = [access EXCEPT ![d] = a]
    BY <1>2 DEF pmap_data_abort_modify_fault, Again, history
  <2>3. n.valid /\ n.ro => n.sw_rw
    BY <1>3, <1>5
  <2> QED
    BY <1>1, <1>2, <1>3, <1>4, <2>1, <2>2, <2>3 DEF Writes, IPmap, Typing
<1>7. /\ Rest' /\ \A c \in Cpus \ {d} : Alone(c)'
      /\ get_pte(d)' = n /\ pc'[d] = "flush" /\ access'[d] = a /\ content'[d] = x
      /\ used'[d] = u /\ written'[d] = w /\ UNCHANGED <<mem, page, shared, tlb>>
  BY <1>6, TableWrite
<1>8. Alone(d)'
  <2> SUFFICES ASSUME Private(d) PROVE (Coherent(d) /\ Bits(d) /\ Removed(d))'
    BY <1>7 DEF Alone, Private
  <2>1. Coherent(d) /\ Bits(d) /\ Removed(d)
    BY DEF IPmap, Alone
  <2>2. e.valid /\ e.af /\ e.ro
    BY <1>1, <1>2, TranslationIsEntry DEF pmap_data_abort_modify_fault, PermissionFault
  <2>3. Coherent(d)'
    BY <1>2, <1>3, <1>7, <2>1, <2>2 DEF Coherent
  <2>4. Bits(d)'
    BY <1>1, <1>2, <1>3, <1>4, <1>7, <2>1, <2>2 DEF Bits, Stores1
  <2>5. Removed(d)'
    <3>1. access[d].faults <= 1
      BY <1>1, <1>2, <1>4, <2>1, <2>2 DEF Removed
    <3>2. n.valid /\ n.af /\ ~n.ro /\ a.kind = "store"
      BY <1>1, <1>3, <1>4, <1>5, <2>2
    <3>3. a.faults <= 2
      BY <1>4, <3>1
    <3> QED
      BY <1>7, <3>2, <3>3 DEF Removed
  <2> QED
    BY <2>3, <2>4, <2>5
<1> QED
  BY <1>7, <1>8, AloneIsAll

-----------------------------------------------------------------------------

(* A step of d that writes no entry: it may write a frame its page         *)
(* reaches, and its TLB keeps, drops or takes in the entry of the page.    *)
Uses(d, q, t, a, x, u, w) ==
  /\ page[d] # 0 /\ UNCHANGED <<l3, free, next_addr, page, read, shared>>
  /\ q \in {"idle", "access", "flush"} /\ pc' = [pc EXCEPT ![d] = q]
  /\ t \in EntryOrNone /\ tlb' = [tlb EXCEPT ![d] = t]
  /\ t.valid => t = tlb[d] \/ t = get_pte(d)
  /\ a \in Accesses(0..MaxFaults) \cup {NoAccess} /\ access' = [access EXCEPT ![d] = a]
  /\ q = "idle" => a = NoAccess
  /\ q = "access" => a # NoAccess
  /\ x \in Values \cup {NoValue} /\ content' = [content EXCEPT ![d] = x]
  /\ u \in BOOLEAN /\ used' = [used EXCEPT ![d] = u]
  /\ w \in {"no", "yes", "unknown"} /\ written' = [written EXCEPT ![d] = w]
  /\ mem' \in [Frames -> Values]
  /\ \A f \in Frames : mem'[f] = mem[f] \/ Reaches(page[d], f)

(* A used translation leaves the rest alone. *)
LEMMA UseKeepsRest ==
  ASSUME IPmap, NEW d \in Cpus, NEW q, NEW t, NEW a, NEW x, NEW u, NEW w,
         Uses(d, q, t, a, x, u, w)
  PROVE  /\ Rest' /\ \A c \in Cpus \ {d} : Alone(c)'
         /\ get_pte(d)' = get_pte(d) /\ pc'[d] = q /\ tlb'[d] = t /\ access'[d] = a
         /\ content'[d] = x /\ used'[d] = u /\ written'[d] = w
         /\ UNCHANGED <<page, shared>>
<1> USE DEF IPmap, Uses
<1>1. /\ pc'[d] = q /\ tlb'[d] = t /\ access'[d] = a
      /\ content'[d] = x /\ used'[d] = u /\ written'[d] = w
  BY DEF Typing
<1>2. get_pte(d)' = get_pte(d) /\ page[d] \in Pages /\ get_pte(d) = l3[page[d]]
  BY PageInTable DEF get_pte
<1>3. Typing'
  BY DEF Typing
<1>4. Counting' /\ Sharing' /\ OnlyOwned' /\ RoIsTracked'
  <2>1. Owners' = Owners
    BY DEF Owners
  <2> QED
    BY <2>1 DEF Counting, Sharing, OnlyOwned, RoIsTracked
<1>5. \A c \in Cpus \ {d} : /\ pc'[c] = pc[c] /\ tlb'[c] = tlb[c] /\ access'[c] = access[c]
                            /\ content'[c] = content[c] /\ used'[c] = used[c]
                            /\ written'[c] = written[c]
  BY DEF Typing
<1>6. Shape'
  BY <1>1, <1>5 DEF Shape
<1>7. FramesApart'
  <2>1. ASSUME NEW v \in Pages, NEW f \in Frames, Reaches(v, f)' PROVE Reaches(v, f)
    <3>1. CASE l3[v].valid /\ l3[v].frame = f
      BY <3>1 DEF Reaches
    <3>2. CASE \E c \in Cpus : page[c] = v /\ tlb'[c].valid /\ tlb'[c].frame = f
      <4>1. PICK c \in Cpus : page[c] = v /\ tlb'[c].valid /\ tlb'[c].frame = f
        BY <3>2
      <4>2. CASE c # d
        BY <1>5, <4>1, <4>2 DEF Reaches
      <4>3. CASE c = d
        BY <1>1, <1>2, <4>1, <4>3 DEF Reaches
      <4> QED
        BY <4>2, <4>3
    <3> QED
      BY <2>1, <3>1, <3>2 DEF Reaches
  <2> QED
    BY <2>1 DEF FramesApart
<1>8. Elsewhere(d)
  BY <1>5 DEF Elsewhere
<1>9. \A c \in Cpus \ {d} : Alone(c)'
  BY <1>8, OthersAlone
<1> QED
  BY <1>1, <1>2, <1>3, <1>4, <1>6, <1>7, <1>9 DEF Rest

(* A flush of a core's own TLB. *)
LEMMA FlushStep == ASSUME IPmap, NEW d \in Cpus, table_invalidate_entry(d) PROVE IPmap'
<1>1. PICK a, x, u, w : a = access[d] /\ x = content[d] /\ u = used[d] /\ w = written[d]
  OBVIOUS
<1>2. PICK q : q = IF a = NoAccess THEN "idle" ELSE "access"
  OBVIOUS
<1>3. page[d] # 0
  BY DEF table_invalidate_entry, IPmap, Shape
<1>4. Uses(d, q, NoEntry, a, x, u, w)
  <2>1. /\ pc' = [pc EXCEPT ![d] = q] /\ tlb' = [tlb EXCEPT ![d] = NoEntry]
        /\ UNCHANGED <<next_addr, page, read, shared, l3, mem, free, access, content, used, written>>
    BY <1>1, <1>2 DEF table_invalidate_entry, Goto, vmVars, history
  <2>2. ~NoEntry.valid
    BY DEF NoEntry
  <2> QED
    BY <1>1, <1>2, <1>3, <2>1, <2>2 DEF Uses, IPmap, Typing, EntryOrNone
<1>5. /\ Rest' /\ \A c \in Cpus \ {d} : Alone(c)'
      /\ get_pte(d)' = get_pte(d) /\ pc'[d] = q /\ tlb'[d] = NoEntry /\ access'[d] = a
      /\ content'[d] = x /\ used'[d] = u /\ written'[d] = w
      /\ UNCHANGED <<page, shared>>
  BY <1>4, UseKeepsRest
<1>6. Alone(d)'
  <2> SUFFICES ASSUME Private(d) PROVE (Coherent(d) /\ Bits(d) /\ Removed(d))'
    BY <1>5 DEF Alone, Private
  <2>1. Coherent(d) /\ Bits(d) /\ Removed(d)
    BY DEF IPmap, Alone
  <2>2. ~NoEntry.valid /\ mem' = mem
    BY DEF NoEntry, table_invalidate_entry
  <2> QED
    BY <1>1, <1>5, <2>1, <2>2 DEF Coherent, Bits, Removed, Stores1
<1> QED
  BY <1>5, <1>6, AloneIsAll

(* The TLB caches or drops an entry. *)
LEMMA TlbStep == ASSUME IPmap, NEW d \in Cpus, Cache(d) \/ Evict(d) PROVE IPmap'
<1>1. PICK q, a, x, u, w :
        q = pc[d] /\ a = access[d] /\ x = content[d] /\ u = used[d] /\ w = written[d]
  OBVIOUS
<1>2. PICK t : /\ tlb' = [tlb EXCEPT ![d] = t] /\ t \in EntryOrNone
               /\ page[d] # 0 /\ t.valid => t = get_pte(d)
               /\ page[d] # 0
  <2>1. CASE Cache(d)
    <3>1. page[d] # 0 /\ tlb' = [tlb EXCEPT ![d] = get_pte(d)]
      BY <2>1 DEF Cache
    <3>2. get_pte(d) \in EntryOrNone
      BY <3>1, PageInTable DEF IPmap
    <3> QED
      BY <3>1, <3>2
  <2>2. CASE Evict(d)
    <3>1. page[d] # 0
      BY <2>2 DEF Evict, IPmap, Shape
    <3>2. ~NoEntry.valid /\ NoEntry \in EntryOrNone
      BY DEF NoEntry, EntryOrNone
    <3>3. tlb' = [tlb EXCEPT ![d] = NoEntry]
      BY <2>2 DEF Evict
    <3> QED
      BY <3>1, <3>2, <3>3
  <2> QED
    BY <2>1, <2>2
<1>3. UNCHANGED <<next_addr, page, read, shared, pc, l3, mem, free, access, content, used, written>>
  BY DEF Cache, Evict, vmVars, history
<1>4. Uses(d, q, t, a, x, u, w)
  <2>1. q \in {"idle", "access", "flush"} /\ (q = "idle" => a = NoAccess)
        /\ (q = "access" => a # NoAccess)
    BY <1>1, <1>2 DEF IPmap, Typing, Shape
  <2> QED
    BY <1>1, <1>2, <1>3, <2>1 DEF Uses, IPmap, Typing
<1>5. /\ Rest' /\ \A c \in Cpus \ {d} : Alone(c)'
      /\ get_pte(d)' = get_pte(d) /\ pc'[d] = q /\ tlb'[d] = t /\ access'[d] = a
      /\ content'[d] = x /\ used'[d] = u /\ written'[d] = w
      /\ UNCHANGED <<page, shared>>
  BY <1>4, UseKeepsRest
<1>6. Alone(d)'
  <2> SUFFICES ASSUME Private(d) PROVE (Coherent(d) /\ Bits(d) /\ Removed(d))'
    BY <1>5 DEF Alone, Private
  <2>1. Coherent(d) /\ Bits(d) /\ Removed(d)
    BY DEF IPmap, Alone
  <2> QED
    BY <1>1, <1>2, <1>3, <1>5, <2>1 DEF Coherent, Bits, Removed, Stores1
<1> QED
  BY <1>5, <1>6, AloneIsAll

(* An access begins. *)
LEMMA BeginStep == ASSUME IPmap, NEW d \in Cpus, Begin(d) PROVE IPmap'
<1>1. page[d] # 0 /\ access[d] = NoAccess /\ pc[d] = "idle"
  BY DEF Begin, Idle, IPmap, Shape
<1>2. PICK a \in Accesses({0}) : access' = [access EXCEPT ![d] = a]
  BY DEF Begin
<1>3. a \in Accesses(0..MaxFaults) /\ a # NoAccess /\ a.faults = 0
  BY <1>2 DEF Accesses, NoAccess, MaxFaults
<1>4. PICK t, x, u, w : t = tlb[d] /\ x = content[d] /\ u = used[d] /\ w = written[d]
  OBVIOUS
<1>5. Uses(d, "access", t, a, x, u, w)
  <2>1. /\ pc' = [pc EXCEPT ![d] = "access"]
        /\ UNCHANGED <<next_addr, page, read, shared, l3, tlb, mem, free, content, used, written>>
    BY DEF Begin, Goto, vmVars, history
  <2> QED
    BY <1>1, <1>2, <1>3, <1>4, <2>1 DEF Uses, IPmap, Typing
<1>6. /\ Rest' /\ \A c \in Cpus \ {d} : Alone(c)'
      /\ get_pte(d)' = get_pte(d) /\ pc'[d] = "access" /\ tlb'[d] = t /\ access'[d] = a
      /\ content'[d] = x /\ used'[d] = u /\ written'[d] = w
      /\ UNCHANGED <<page, shared>>
  BY <1>5, UseKeepsRest
<1>7. Alone(d)'
  <2> SUFFICES ASSUME Private(d) PROVE (Coherent(d) /\ Bits(d) /\ Removed(d))'
    BY <1>6 DEF Alone, Private
  <2>1. Coherent(d) /\ Bits(d)
    BY DEF IPmap, Alone
  <2>2. mem' = mem
    BY DEF Begin
  <2>3. Coherent(d)'
    BY <1>1, <1>4, <1>6, <2>1, <2>2 DEF Coherent
  <2>4. Bits(d)'
    BY <1>1, <1>3, <1>4, <1>6, <2>1 DEF Bits, Stores1
  <2>5. Removed(d)'
    BY <1>3, <1>6 DEF Removed
  <2> QED
    BY <2>3, <2>4, <2>5
<1> QED
  BY <1>6, <1>7, AloneIsAll

(* A translation fault. *)
LEMMA TranslationFaultStep == ASSUME IPmap, NEW d \in Cpus, TranslationFault(d) PROVE IPmap'
<1>1. page[d] # 0 /\ pc[d] = "access"
  BY Accessing DEF TranslationFault
<1>2. PICK t, x, u, w : t = tlb[d] /\ x = content[d] /\ u = used[d] /\ w = written[d]
  OBVIOUS
<1>3. Uses(d, "idle", t, NoAccess, x, u, w)
  <2>1. /\ pc' = [pc EXCEPT ![d] = "idle"] /\ access' = [access EXCEPT ![d] = NoAccess]
        /\ UNCHANGED <<next_addr, page, read, shared, l3, tlb, mem, free, content, used, written>>
    BY DEF TranslationFault, End, Goto, vmVars, history
  <2> QED
    BY <1>1, <1>2, <2>1 DEF Uses, IPmap, Typing
<1>4. /\ Rest' /\ \A c \in Cpus \ {d} : Alone(c)'
      /\ get_pte(d)' = get_pte(d) /\ pc'[d] = "idle" /\ tlb'[d] = t /\ access'[d] = NoAccess
      /\ content'[d] = x /\ UNCHANGED <<page, shared>>
  BY <1>3, UseKeepsRest
<1>5. Alone(d)'
  <2> SUFFICES ASSUME Private(d) PROVE (Coherent(d) /\ Bits(d) /\ Removed(d))'
    BY <1>4 DEF Alone, Private
  <2>1. Coherent(d)
    BY DEF IPmap, Alone
  <2>2. ~get_pte(d).valid
    BY <1>1, TranslationIsEntry DEF TranslationFault
  <2> QED
    BY <1>1, <1>2, <1>4, <2>1, <2>2 DEF Coherent, Bits, Removed
<1> QED
  BY <1>4, <1>5, AloneIsAll

(* An access that loads. *)
LEMMA LoadStep == ASSUME IPmap, NEW d \in Cpus, Loads(d) PROVE IPmap'
<1>1. page[d] # 0 /\ pc[d] = "access" /\ access[d] # NoAccess /\ access[d].kind = "load"
  BY Accessing DEF Loads
<1>2. PICK t, x, w : t = tlb[d] /\ x = content[d] /\ w = written[d]
  OBVIOUS
<1>3. Uses(d, "idle", t, NoAccess, x, TRUE, w)
  <2>1. /\ pc' = [pc EXCEPT ![d] = "idle"] /\ access' = [access EXCEPT ![d] = NoAccess]
        /\ used' = [used EXCEPT ![d] = TRUE]
        /\ UNCHANGED <<next_addr, page, read, shared, l3, tlb, mem, free, content, written>>
    BY DEF Loads, End, Goto, vmVars, Note
  <2> QED
    BY <1>1, <1>2, <2>1 DEF Uses, IPmap, Typing
<1>4. /\ Rest' /\ \A c \in Cpus \ {d} : Alone(c)'
      /\ get_pte(d)' = get_pte(d) /\ pc'[d] = "idle" /\ tlb'[d] = t /\ access'[d] = NoAccess
      /\ content'[d] = x /\ used'[d] = TRUE /\ written'[d] = w /\ UNCHANGED <<page, shared>>
  BY <1>3, UseKeepsRest
<1>5. Alone(d)'
  <2> SUFFICES ASSUME Private(d) PROVE (Coherent(d) /\ Bits(d) /\ Removed(d))'
    BY <1>4 DEF Alone, Private
  <2>1. Coherent(d) /\ Bits(d)
    BY DEF IPmap, Alone
  <2>2. get_pte(d).valid /\ get_pte(d).af /\ mem' = mem
    BY <1>1, TranslationIsEntry DEF Loads
  <2>3. Coherent(d)'
    BY <1>1, <1>2, <1>4, <2>1, <2>2 DEF Coherent
  <2>4. Bits(d)'
    BY <1>1, <1>2, <1>4, <2>1, <2>2 DEF Bits, Stores1
  <2>5. Removed(d)'
    BY <1>4 DEF Removed
  <2> QED
    BY <2>3, <2>4, <2>5
<1> QED
  BY <1>4, <1>5, AloneIsAll

(* An access that stores. *)
LEMMA StoreStep == ASSUME IPmap, NEW d \in Cpus, Stores(d) PROVE IPmap'
<1>1. /\ page[d] # 0 /\ page[d] \in Pages /\ get_pte(d) = l3[page[d]]
      /\ pc[d] = "access" /\ access[d] # NoAccess /\ access[d].kind = "store"
      /\ access[d].value \in Values /\ get_pte(d) \in EntryOrNone
  BY Accessing, AccessFields DEF Stores
<1>2. PICK t, x, w, f :
        /\ t = tlb[d] /\ x = access[d].value
        /\ w = (IF written[d] = "no" THEN "yes" ELSE written[d])
        /\ f = Translation(d).frame
  OBVIOUS
<1>3. /\ Translation(d).valid /\ Translation(d).af /\ ~Translation(d).ro
      /\ mem' = [mem EXCEPT ![f] = x] /\ content' = [content EXCEPT ![d] = x]
      /\ used' = [used EXCEPT ![d] = TRUE] /\ written' = [written EXCEPT ![d] = w]
      /\ pc' = [pc EXCEPT ![d] = "idle"] /\ access' = [access EXCEPT ![d] = NoAccess]
      /\ UNCHANGED <<next_addr, page, read, shared, l3, tlb, free>>
  BY <1>2 DEF Stores, End, Goto, vmVars, Note
<1>4. f \in Frames /\ Reaches(page[d], f)
  <2>1. Translation(d) \in EntryOrNone
    BY <1>1 DEF Translation, IPmap, Typing
  <2> QED
    BY <1>1, <1>2, <1>3, <2>1, EntryFields DEF Translation, Reaches
<1>5. Uses(d, "idle", t, NoAccess, x, TRUE, w)
  <2>1. mem' \in [Frames -> Values] /\ \A g \in Frames : mem'[g] = mem[g] \/ Reaches(page[d], g)
    BY <1>1, <1>2, <1>3, <1>4 DEF IPmap, Typing
  <2>2. written[d] \in {"no", "yes", "unknown"} /\ tlb[d] \in EntryOrNone
        /\ tlb' = [tlb EXCEPT ![d] = t]
    BY <1>2, <1>3 DEF IPmap, Typing
  <2> QED
    BY <1>1, <1>2, <1>3, <2>1, <2>2 DEF Uses
<1>6. /\ Rest' /\ \A c \in Cpus \ {d} : Alone(c)'
      /\ get_pte(d)' = get_pte(d) /\ pc'[d] = "idle" /\ tlb'[d] = t /\ access'[d] = NoAccess
      /\ content'[d] = x /\ used'[d] = TRUE /\ written'[d] = w /\ UNCHANGED <<page, shared>>
  BY <1>5, UseKeepsRest
<1>7. Alone(d)'
  <2> SUFFICES ASSUME Private(d) PROVE (Coherent(d) /\ Bits(d) /\ Removed(d))'
    BY <1>6 DEF Alone, Private
  <2>1. Coherent(d) /\ Bits(d)
    BY DEF IPmap, Alone
  <2>2. get_pte(d).valid /\ get_pte(d).af /\ ~get_pte(d).ro /\ f = get_pte(d).frame
    BY <1>1, <1>2, <1>3, TranslationIsEntry
  <2>3. Coherent(d)'
    <3>1. mem'[f] = x
      BY <1>3, <1>4 DEF IPmap, Typing
    <3> QED
      BY <1>1, <1>2, <1>6, <2>1, <2>2, <3>1 DEF Coherent
  <2>4. Bits(d)'
    <3>1. written[d] \in {"no", "yes", "unknown"}
      BY DEF IPmap, Typing
    <3>2. w = written[d] \/ (w = "yes" /\ written[d] = "no")
      BY <1>2
    <3>3. w # "unknown" => w = "yes"
      BY <1>2, <3>1
    <3>4. get_pte(d).sw_rw /\ written[d] # "unknown" => get_pte(d).dbm
      BY <2>1, <2>2 DEF Bits
    <3> QED
      BY <1>6, <2>2, <3>2, <3>3, <3>4 DEF Bits
  <2>5. Removed(d)'
    BY <1>6 DEF Removed
  <2> QED
    BY <2>3, <2>4, <2>5
<1> QED
  BY <1>6, <1>7, AloneIsAll

(* vm_alloc loads next_addr. *)
LEMMA VmLoadStep == ASSUME IPmap, NEW d \in Cpus, VmLoad(d) PROVE IPmap'
<1> USE DEF IPmap
<1>1. /\ page[d] = 0 /\ read' = [read EXCEPT ![d] = next_addr]
      /\ pc' = [pc EXCEPT ![d] = "vmStore"]
      /\ UNCHANGED <<next_addr, l3, tlb, mem, free, page, access, content, used, written, shared>>
      /\ access[d] = NoAccess
  BY DEF VmLoad, Goto, history, Shape
<1>2. Owners' = Owners
  BY <1>1 DEF Owners
<1>3. Typing' /\ Counting' /\ Sharing' /\ OnlyOwned' /\ RoIsTracked'
  BY <1>1, <1>2 DEF Typing, Counting, Sharing, OnlyOwned, RoIsTracked
<1>4. Shape'
  BY <1>1 DEF Shape, Typing
<1>5. FramesApart'
  BY <1>1 DEF FramesApart, Reaches
<1>6. Elsewhere(d)
  BY <1>1 DEF Elsewhere, Typing
<1>7. \A c \in Cpus \ {d} : Alone(c)'
  BY <1>6, OthersAlone
<1>8. Alone(d)'
  BY <1>1 DEF Alone, Private
<1> QED
  BY <1>3, <1>4, <1>5, <1>7, <1>8

(* A core that is given a page shares it with the cores that already have  *)
(* it, and finds it not mapped when there is none.                         *)
LEMMA VmStoreStep == ASSUME IPmap, NEW d \in Cpus, VmStore(d) PROVE IPmap'
<1> USE DEF IPmap
<1> DEFINE v == read[d] + 1
           others == {c \in Cpus \ {d} : page[c] = v}
<1>1. /\ page[d] = 0 /\ next_addr' = v /\ page' = [page EXCEPT ![d] = v]
      /\ read' = [read EXCEPT ![d] = 0] /\ pc' = [pc EXCEPT ![d] = "idle"]
      /\ shared' = [c \in Cpus |-> shared[c] \/ c \in others \/ (c = d /\ others # {})]
      /\ UNCHANGED <<l3, tlb, mem, free, access, content, used, written>>
      /\ access[d] = NoAccess /\ ~tlb[d].valid /\ content[d] = NoValue
  BY DEF VmStore, Goto, history, Shape
<1>2. v \in Nat \ {0} /\ read[d] \in Nat
  BY DEF Typing
<1> HIDE DEF v
<1>3. page'[d] = v /\ \A c \in Cpus \ {d} : page'[c] = page[c]
  BY <1>1 DEF Typing
<1>4. Typing'
  <2>1. shared' \in [Cpus -> BOOLEAN]
    BY <1>1, Zenon
  <2> QED
    BY <1>1, <1>2, <2>1 DEF Typing
<1>5. Counting'
  <2>1. Owners' = Owners \cup {d} /\ d \notin Owners
    BY <1>1, <1>2, <1>3 DEF Owners
  <2>2. IsFiniteSet(Owners)
    BY PmapAssumption, FS_Subset DEF Owners
  <2>3. Cardinality(Owners') = Cardinality(Owners) + 1 /\ Cardinality(Owners) \in Nat
    BY <2>1, <2>2, FS_AddElement, FS_CardinalityType
  <2>4. v <= Cardinality(Owners')
    BY <1>2, <2>3 DEF Counting, v
  <2>5. \A c \in Cpus : read'[c] <= Cardinality(Owners')
    BY <1>1, <2>3 DEF Counting, Typing
  <2>6. \A c \in Cpus \ {d} : page'[c] <= Cardinality(Owners')
    BY <1>3, <2>3 DEF Counting, Typing
  <2> QED
    BY <1>1, <1>3, <2>4, <2>5, <2>6 DEF Counting
<1>6. Shape'
  BY <1>1, <1>2, <1>3 DEF Shape, Typing
<1>7. Sharing'
  <2> SUFFICES ASSUME NEW c \in Cpus, NEW e \in Cpus, c # e, page'[c] = page'[e], page'[c] # 0
               PROVE  shared'[c]
    BY DEF Sharing
  <2>1. CASE c # d /\ e # d
    <3>1. shared[c]
      BY <1>3, <2>1 DEF Sharing
    <3> QED
      BY <1>1, <3>1, Zenon
  <2>2. CASE e = d
    <3>1. c \in others
      BY <1>3, <2>2
    <3> QED
      BY <1>1, <3>1, Zenon
  <2>3. CASE c = d
    <3>1. e \in others
      BY <1>3, <2>3
    <3> QED
      BY <1>1, <2>3, <3>1, Zenon
  <2> QED
    BY <2>1, <2>2, <2>3
<1>8. \A p \in Pages, f \in Frames : Reaches(p, f)' => Reaches(p, f)
  BY <1>1, <1>3 DEF Reaches
<1>9. FramesApart'
  BY <1>1, <1>8 DEF FramesApart
<1>10. OnlyOwned' /\ RoIsTracked'
  <2>1. ASSUME NEW p \in Pages, l3[p].valid PROVE \E c \in Cpus : page'[c] = p
    <3>1. PICK c \in Cpus : page[c] = p
      BY <2>1 DEF OnlyOwned
    <3>2. p # 0
      BY PmapAssumption, FS_CardinalityType DEF Pages
    <3>3. c # d
      BY <1>1, <3>1, <3>2
    <3> QED
      BY <1>3, <3>1, <3>3
  <2> QED
    BY <1>1, <2>1 DEF OnlyOwned, RoIsTracked
<1>11. \A c \in Cpus \ {d} : shared[c] => shared'[c]
  BY <1>1, Zenon
<1>12. Elsewhere(d)
  BY <1>1, <1>3, <1>11 DEF Elsewhere, Typing
<1>13. \A c \in Cpus \ {d} : Alone(c)'
  BY <1>12, OthersAlone
<1>14. Alone(d)'
  <2> SUFFICES ASSUME Private(d)' PROVE (Coherent(d) /\ Bits(d) /\ Removed(d))'
    BY DEF Alone
  <2>1. others = {}
    <3>1. ~shared'[d]
      BY DEF Private
    <3> QED
      BY <1>1, <3>1, Zenon
  <2>2. v \in Pages
    <3>1. v <= Cardinality(Owners')
      BY <1>3, <1>5 DEF Counting
    <3>2. Owners' \subseteq Cpus
      BY DEF Owners
    <3>3. Cardinality(Owners') \in Nat /\ Cardinality(Owners') <= Cardinality(Cpus)
          /\ Cardinality(Cpus) \in Nat
      BY <3>2, PmapAssumption, FS_Subset, FS_CardinalityType
    <3> QED
      BY <1>2, <3>1, <3>3 DEF Pages
  <2>3. ~l3[v].valid
    <3>1. \A c \in Cpus : page[c] # v
      BY <1>1, <1>2, <2>1
    <3> QED
      BY <2>2, <3>1 DEF OnlyOwned
  <2>4. ~get_pte(d).valid'
    BY <1>1, <1>3, <2>3 DEF get_pte
  <2> QED
    BY <1>1, <2>4 DEF Coherent, Bits, Removed
<1> QED
  BY <1>4, <1>5, <1>6, <1>7, <1>9, <1>10, <1>13, <1>14

-----------------------------------------------------------------------------

(* Every step keeps the invariant. *)
LEMMA StepPmap == IPmap /\ [Next]_vars => IPmap'
<1> SUFFICES ASSUME IPmap, [Next]_vars PROVE IPmap'
  OBVIOUS
<1>1. ASSUME NEW d \in Cpus, Vm(d) PROVE IPmap'
  BY <1>1, VmLoadStep, VmStoreStep DEF Vm
<1>2. ASSUME NEW d \in Cpus, Table(d) PROVE IPmap'
  BY <1>2, EnterStep, RemoveStep, FlushStep, ClearReferencedStep, ClearModifiedStep DEF Table
<1>3. ASSUME NEW d \in Cpus, Fault(d) PROVE IPmap'
  BY <1>3, TranslationFaultStep, AccessFaultStep, ModifyFaultStep DEF Fault
<1>4. ASSUME NEW d \in Cpus, Begin(d) \/ Loads(d) \/ Stores(d) \/ Cache(d) \/ Evict(d)
      PROVE  IPmap'
  BY <1>4, BeginStep, LoadStep, StoreStep, TlbStep
<1>5. CASE UNCHANGED vars
  <2>1. Owners' = Owners
    BY <1>5 DEF vars, Owners
  <2>2. Rest'
    BY <1>5, <2>1 DEF vars, IPmap, Rest, Typing, Counting, Shape, Sharing, FramesApart, Reaches,
       OnlyOwned, RoIsTracked
  <2>3. \A c \in Cpus : Alone(c)'
    BY <1>5 DEF vars, IPmap, Alone, Private, Coherent, Bits, Removed, Stores1, get_pte
  <2> QED
    BY <2>2, <2>3 DEF Rest, IPmap
<1> QED
  BY <1>1, <1>2, <1>3, <1>4, <1>5 DEF Next

(* The invariant of the tables, the TLBs and the pages holds in every state. *)
THEOREM PmapInvariant == Spec => []IPmap
  BY InitPmap, StepPmap, PTL DEF Spec

(* However the cores race for pages, whatever their TLBs hold: on a page   *)
(* of its own a core's access finds what it stored last.                   *)
THEOREM NoStaleTranslation == Spec => []LoadReturnsStored
<1>1. IPmap => LoadReturnsStored
  <2> SUFFICES ASSUME IPmap, NEW c \in Cpus, pc[c] = "access", Private(c)
               PROVE  Loaded(c) = content[c]
    BY DEF LoadReturnsStored
  <2>1. Translation(c) = get_pte(c) /\ Coherent(c)
    BY TranslationIsEntry DEF IPmap, Alone
  <2> QED
    BY <2>1 DEF Loaded, Coherent
<1> QED
  BY <1>1, PmapInvariant, PTL

(* The bits that the faults keep tell how the page was used. *)
THEOREM BitsAreTrue == Spec => []BitsTellUse
<1>1. IPmap => BitsTellUse
  <2> SUFFICES ASSUME IPmap, NEW c \in Cpus, TrackedPage(c)
               PROVE  /\ get_pte(c).af <=> used[c]
                      /\ written[c] # "unknown" => (get_pte(c).dbm <=> written[c] = "yes")
    BY DEF BitsTellUse, ReferencedIffUsed, ModifiedIffWritten
  <2>1. Bits(c) /\ access[c] = NoAccess
    BY DEF IPmap, Alone, TrackedPage, Shape
  <2>2. get_pte(c).valid /\ get_pte(c).sw_rw /\ ~Stores1(c)
    BY <2>1 DEF TrackedPage, Stores1
  <2> QED
    BY <2>1, <2>2 DEF Bits
<1> QED
  BY <1>1, PmapInvariant, PTL

(* Every fault removes its cause. *)
THEOREM FaultsEnd == Spec => []FaultsOnceEach
<1>1. IPmap => FaultsOnceEach
  <2> SUFFICES ASSUME IPmap, NEW c \in Cpus, Private(c), access[c] # NoAccess
               PROVE  access[c].faults <= (IF access[c].kind = "store" THEN 2 ELSE 1)
    BY DEF FaultsOnceEach
  <2>1. Removed(c) /\ access[c].faults \in 0..MaxFaults
    BY AccessFields DEF IPmap, Alone, Typing
  <2> QED
    BY <2>1 DEF Removed
<1> QED
  BY <1>1, PmapInvariant, PTL

===========================================================================
