----------------------------- MODULE PageTable ------------------------------
(***************************************************************************)
(* The four-level page table of shared/page_table/src/lib.rs: map_init,    *)
(* map_raw, translate and free, with the number of entries in use of every *)
(* table kept in the entry that points to it, and tables created and freed *)
(* on the way.  A table has Fan entries instead of 512; addresses count    *)
(* 4 KiB pages, so the three page sizes are 1, Fan and Fan * Fan.  One bit *)
(* above the index bits stands for the 16 that make an address canonical.  *)
(* The caller holds the page table's lock: one call at a time, a step per  *)
(* page.                                                                   *)
(***************************************************************************)
EXTENDS Integers, Sequences, FiniteSets

CONSTANTS Fan,       \* entries in a table: 512
          NFrames,   \* frames of physical memory; frame 0 is the root table
          Requests   \* map requests: [vaddr, type, size], in 4 KiB pages

ASSUME PageTableAssumption == /\ Fan \in Nat \ {0, 1} /\ Fan % 2 = 0
                              /\ NFrames \in Nat \ {0}
                              /\ \A q \in Requests : q.size \in Nat \ {0}

Frames == 0 .. NFrames - 1
Root == 0
None == -1
NoEntry == <<>>

Span == [d \in 0 .. 4 |-> Fan ^ (4 - d)]   \* pages below an entry at depth d - 1
VAddrs == 0 .. 2 * Span[0] - 1
Types == {"Page4K", "Page2M", "Page1G"}

\* Number of levels that a page of this type is reached through.
Depth(t) == CASE t = "Page1G" -> 2 [] t = "Page2M" -> 3 [] t = "Page4K" -> 4

PageSize(t) == Span[Depth(t)]

\* An entry: the frame it points to (None: not present), PAGE_SIZE, and the
\* count in its ignored bits.
Absent == [to |-> None, large |-> FALSE, in_use |-> 0]
Zeroed == [i \in 0 .. Fan - 1 |-> Absent]

VARIABLES mem,      \* contents of the frames, read as tables; pages are zeroed
          free,     \* frames the allocator has
          op,       \* the call in progress
          regions,  \* what callers have mapped and may free
          maps      \* history: the mappings that translate finds

vars == <<mem, free, op, regions, maps>>

Idle == [kind |-> "idle"]

Init == /\ mem = [f \in Frames |-> Zeroed]
        /\ free = Frames \ {Root}
        /\ op = Idle
        /\ regions = {}
        /\ maps = {}

-----------------------------------------------------------------------------
(* Addresses and translation.                                              *)

canonicalize_address(v) ==
    LET low == v % Span[0] IN
    IF low >= Span[0] \div 2 THEN low + Span[0] ELSE low

Index(v, d) == (v \div Span[d + 1]) % Fan

\* The table that entry i of table f leads to.
Child(m, f, i) == IF f = None \/ m[f][i].large THEN None ELSE m[f][i].to

\* translate: the entry of each level that the walk reaches, as its frame and
\* index, and the page that the last of them maps.
translate(m, v) ==
    LET t1 == Child(m, Root, Index(v, 0))
        t2 == Child(m, t1, Index(v, 1))
        t3 == Child(m, t2, Index(v, 2))
        tab == <<Root, t1, t2, t3>>
        depth == CHOOSE d \in 1 .. 4 : tab[d] # None /\ (d < 4 => tab[d + 1] = None)
        ent == m[tab[depth]][Index(v, depth - 1)]
        mapped == ent.to # None /\ (depth = 4 \/ ent.large)
        start == ((v % Span[0]) \div Span[depth]) * Span[depth] IN
    [entries |-> [d \in 0 .. 3 |-> IF d < depth THEN <<tab[d + 1], Index(v, d)>> ELSE NoEntry],
     depth   |-> depth,
     base    |-> canonicalize_address(start),
     page    |-> IF mapped THEN ent.to ELSE None]

Canonical == {v \in VAddrs : canonicalize_address(v) = v}

\* The mappings that translate finds.
Mapped(m) ==
    LET walks == {translate(m, v) : v \in Canonical} IN
    {[base |-> w.base, size |-> Span[w.depth], to |-> w.page] :
        w \in {x \in walks : x.page # None}}

At(m, e) == m[e[1]][e[2]]
Put(m, e, ent) == [m EXCEPT ![e[1]][e[2]] = ent]

-----------------------------------------------------------------------------
(* The physical allocator, as the page table uses it; which frames it      *)
(* picks is immaterial.                                                    *)

Run(f, n) == f .. f + n - 1
Fits(A, n) == {f \in Frames : f % n = 0 /\ Run(f, n) \subseteq A}
alloc_phys(A, n) == CHOOSE f \in Fits(A, n) : \A g \in Fits(A, n) : f <= g

-----------------------------------------------------------------------------
(* map_raw.                                                                *)

\* A plausible slip: only pages are looked for, not tables of smaller pages.
RefusesPagesOnly(v, t) ==
    \/ canonicalize_address(v) # v
    \/ translate(mem, v).page # None

\* The early returns: not canonical, mapped, or a table where a large page is
\* to go.
Refuses(v, t) ==
    \/ canonicalize_address(v) # v
    \/ translate(mem, v).page # None
    \/ t # "Page4K" /\ translate(mem, v).entries[Depth(t)] # NoEntry

\* A plausible slip: the count of a table with a new table in it stays.
CountedPagesOnly(m, e, isPage) ==
    IF isPage THEN Put(m, e, [At(m, e) EXCEPT !.in_use = @ + 1]) ELSE m

\* One more entry in use in the table that e points to.
Counted(m, e, isPage) == Put(m, e, [At(m, e) EXCEPT !.in_use = @ + 1])

\* The loop that creates the missing tables, up to level ii.
Tables(v, t, A) ==
    LET found == translate(mem, v).entries
        st[ii \in 0 .. Depth(t) - 1] ==
            IF ii = 0 THEN [mem |-> mem, free |-> A, entries |-> found]
            ELSE LET s == st[ii - 1] IN
                 IF s.entries[ii] # NoEntry THEN s
                 ELSE LET table == alloc_phys(s.free, 1)
                          counted == IF ii >= 2 THEN Counted(s.mem, s.entries[ii - 2], FALSE)
                                     ELSE s.mem IN
                      [mem     |-> Put([counted EXCEPT ![table] = Zeroed], s.entries[ii - 1],
                                       [to |-> table, large |-> FALSE, in_use |-> 0]),
                       free    |-> s.free \ {table},
                       entries |-> [s.entries EXCEPT ![ii] = <<table, Index(v, ii)>>]]
    IN st[Depth(t) - 1]

\* The tables, the count, and the entry for the page at frame f.
map_raw(v, t, f, A) ==
    LET s == Tables(v, t, A)
        d == Depth(t)
        counted == Counted(s.mem, s.entries[d - 2], TRUE) IN
    /\ mem' = Put(counted, s.entries[d - 1],
                  [to |-> f, large |-> t # "Page4K", in_use |-> 0])
    /\ free' = s.free
    /\ maps' = Mapped(mem')

-----------------------------------------------------------------------------
(* map_init.                                                               *)

\* The checks before the loop; a request they refuse changes nothing.
map_init(q) ==
    /\ op.kind = "idle"
    /\ q.vaddr % PageSize(q.type) = 0
    /\ q.vaddr + q.size - 1 \in VAddrs
    /\ op' = [kind |-> "map", orig |-> q.vaddr, cur |-> q.vaddr, end |-> q.vaddr + q.size - 1,
              type |-> q.type, freed |-> 0, was |-> mem]
    /\ UNCHANGED <<mem, free, regions, maps>>

\* Tables that map_raw has to create.
Missing(v, t) ==
    IF Refuses(v, t) THEN {}
    ELSE {ii \in 1 .. Depth(t) - 1 : translate(mem, v).entries[ii] = NoEntry}

\* Are there frames for the page and the tables?
Enough(v, t) ==
    /\ Fits(free, PageSize(t)) # {}
    /\ Cardinality(free) >= PageSize(t) + Cardinality(Missing(v, t))

\* The allocator panics when it has nothing left.
OutOfMemory ==
    /\ op.kind = "map"
    /\ ~ Enough(op.cur, op.type)
    /\ op' = [kind |-> "out_of_memory"]
    /\ UNCHANGED <<mem, free, regions, maps>>

MapPage ==
    /\ op.kind = "map"
    /\ Enough(op.cur, op.type)
    /\ ~ Refuses(op.cur, op.type)
    /\ LET n == PageSize(op.type)
           page == alloc_phys(free, n)
           next == op.cur + n IN
       /\ map_raw(op.cur, op.type, page, free \ Run(page, n))
       /\ IF next > op.end
          THEN /\ regions' = regions \cup {[base |-> op.orig, size |-> next - op.orig]}
               /\ op' = Idle
          ELSE /\ op' = [op EXCEPT !.cur = next]
               /\ UNCHANGED regions

\* A plausible slip: what was mapped so far stays.
UndoNothing == Idle

\* What is left to do after a refused page.
Undo == IF op.cur > op.orig
        THEN [op EXCEPT !.kind = "undo", !.cur = op.orig, !.end = op.cur - 1]
        ELSE Idle

\* map_raw refuses: the page just allocated is not given back, the pages mapped
\* so far are freed.
MapRefused ==
    /\ op.kind = "map"
    /\ Enough(op.cur, op.type)
    /\ Refuses(op.cur, op.type)
    /\ free' = free \ Run(alloc_phys(free, PageSize(op.type)), PageSize(op.type))
    /\ op' = Undo
    /\ UNCHANGED <<mem, regions, maps>>

-----------------------------------------------------------------------------
(* free.                                                                   *)

\* A caller gives back a region it mapped.
StartFree(r) ==
    /\ op.kind = "idle"
    /\ op' = [kind |-> "free", orig |-> r.base, cur |-> r.base, end |-> r.base + r.size - 1,
              freed |-> 0, was |-> mem]
    /\ regions' = regions \ {r}
    /\ UNCHANGED <<mem, free, maps>>

LastUse(in_use) == in_use = 1

\* From the entry at level ii upwards: clear it; the table it is in goes when
\* it was its last entry, and the entry above is next.
Clear(m, A, w) ==
    LET up[ii \in 0 .. w.depth - 1] ==     \* state before level ii is cleared
            IF ii = w.depth - 1 THEN [mem |-> m, free |-> A, go |-> TRUE, ok |-> TRUE]
            ELSE LET s == up[ii + 1]
                     cleared == Put(s.mem, w.entries[ii + 1], Absent)
                     above == At(s.mem, w.entries[ii])
                     table == w.entries[ii + 1][1] IN
                 IF ~ s.go THEN s
                 ELSE IF LastUse(above.in_use)
                 THEN [s EXCEPT !.mem = [cleared EXCEPT ![table] = Zeroed],
                                !.free = @ \cup {table}]
                 ELSE [mem |-> Put(cleared, w.entries[ii],
                                   [above EXCEPT !.in_use = @ - 1]),
                       free |-> s.free, go |-> FALSE, ok |-> above.in_use \in 1 .. Fan]
        top == up[0] IN
    IF top.go THEN [top EXCEPT !.mem = Put(top.mem, w.entries[0], Absent)] ELSE top

\* A plausible slip: one page on, whatever the size of this one.
NextSmallPage(w) == w.base + 1

NextPage(w) == w.base + Span[w.depth]

Released(w) == Run(w.page, Span[w.depth])

\* One turn of the loop; nothing mapped here, a broken count or a wrong total
\* are panics.
FreePage ==
    /\ op.kind \in {"free", "undo"}
    /\ LET w == translate(mem, op.cur)
           n == Span[w.depth]
           c == Clear(mem, free, w)
           bad == canonicalize_address(op.cur) # op.cur \/ w.page = None \/ ~ c.ok IN
       \/ /\ bad
          /\ op' = [kind |-> "panic"]
          /\ UNCHANGED <<mem, free, maps>>
       \/ /\ ~ bad
          /\ mem' = c.mem
          /\ maps' = Mapped(mem')
          /\ free' = c.free \cup Released(w)
          /\ op' = IF NextPage(w) \in VAddrs /\ NextPage(w) <= op.end
                   THEN [op EXCEPT !.cur = NextPage(w), !.freed = @ + n]
                   ELSE IF op.freed + n = op.end - op.orig + 1 THEN Idle
                   ELSE [kind |-> "panic"]
    /\ UNCHANGED regions

Next == \/ \E q \in Requests : map_init(q)
        \/ MapPage \/ MapRefused \/ OutOfMemory
        \/ \E r \in regions : StartFree(r)
        \/ FreePage

Spec == Init /\ [][Next]_vars


-----------------------------------------------------------------------------
(* Properties.                                                             *)

\* Entries that point to tables, from the root down, with their depth.
Links ==
    LET below(f, d) == {<<f, i>> : i \in {j \in 0 .. Fan - 1 :
                            mem[f][j].to # None /\ ~ mem[f][j].large /\ d < 3}}
        at1 == below(Root, 0)
        at2 == UNION {below(At(mem, e).to, 1) : e \in at1}
        at3 == UNION {below(At(mem, e).to, 2) : e \in at2} IN
    at1 \cup at2 \cup at3

TableFrames == {At(mem, e).to : e \in Links}
PageFrames == UNION {Run(m.to, m.size) : m \in maps}

\* Every table is linked once and counts its entries, of which it has at least
\* one: the assert in free ("ref counts broken") cannot fail, and no empty table
\* is left behind.
CountsRight ==
    /\ Cardinality(TableFrames) = Cardinality(Links)
    /\ \A e \in Links :
        LET in_use == At(mem, e).in_use IN
        /\ in_use = Cardinality({i \in 0 .. Fan - 1 : mem[At(mem, e).to][i].to # None})
        /\ in_use > 0

\* A frame is free, the root, a table or (part of) a page, and only one of them.
FramesApart ==
    /\ Root \notin free \cup TableFrames \cup PageFrames
    /\ free \cap (TableFrames \cup PageFrames) = {}
    /\ TableFrames \cap PageFrames = {}
    /\ \A m, n \in maps : m # n => Run(m.to, m.size) \cap Run(n.to, n.size) = {}

\* The bookkeeping of the tables is right whatever was mapped, refused and freed:
\* a table freed too early shows as a frame with two uses, one that is never
\* freed as an entry that counts nothing.
TablesConsistent == CountsRight /\ FramesApart

\* A caller that frees what it mapped never meets an unwrap or an assert.
FreeNeverPanics == op.kind # "panic"

Promise == INSTANCE AddressSpace WITH
    Addresses <- Canonical, Sizes <- {PageSize(t) : t \in Types}

\* The tables implement a set of mappings: a step maps or unmaps one page and
\* leaves what every other address translates to.
ImplementsAddressSpace == Promise!Spec

\* lib.rs on map_init: "this will return `None` and the page table will not be
\* modified": a map that ends without a region ends with the tables, counts
\* included, that it began with.
AllOrNothing ==
    [][op.kind \in {"map", "undo"} /\ op'.kind = "idle" /\ regions' = regions
        => mem' = op.was]_vars

=============================================================================
