--------------------------- MODULE BufPoolProofs ---------------------------
(***************************************************************************)
(* Proofs about BufPool, for every number of buffers that fits the pages   *)
(* the code allocates and every page-aligned address of the pool.          *)
(***************************************************************************)
EXTENDS BufPool, TLAPS

\* Nothing is handed out while net_bufpool_init still fills the pool.
QuietInit == ~Ready => held = Null /\ pending = {} /\ done = {}

PoolInv == TypeOK /\ SingleHolder /\ FreeListExact /\ QuietInit

-----------------------------------------------------------------------------
\* A buffer address is a positive multiple of the buffer size.
LEMMA BufferAligned ==
    ASSUME NEW b \in Buffers
    PROVE  b \in Nat /\ b # Null /\ b % BufSize = 0
<1>1. PICK i \in 0 .. ETH_BUFFERS - 1 : b = BufAt(i)
    BY DEF Buffers
<1>2. PICK k \in Nat : eth_buffer_phys = 4096 * k
    BY PhysAssumption, SMT DEF PageSize
<1> QED
    BY <1>1, <1>2, PhysAssumption, BuffersAssumption DEF BufAt, BufSize, Null

\* net_bufpool_return finds the buffer again from the data pointer handed out,
\* and from its own address.
LEMMA BufOfData ==
    ASSUME NEW b \in Buffers
    PROVE  BufOf(Data(b)) = b /\ BufOf(b) = b /\ Data(b) # Null
<1>1. b \in Nat /\ b % 2048 = 0
    BY BufferAligned DEF BufSize
<1>2. PICK k \in Nat : b = 2048 * k
    BY <1>1
<1>3. (b + 8) % 2048 = 8
    BY <1>2
<1> QED
    BY <1>1, <1>3 DEF BufOf, Data, BufSize, LinkSize, Null

\* The range check of net_poll accepts the data pointers of the pool.
LEMMA DataInPool ==
    ASSUME NEW b \in Buffers
    PROVE  InPool(Data(b))
<1>1. PICK i \in 0 .. ETH_BUFFERS - 1 : b = BufAt(i)
    BY DEF Buffers
<1> QED
    BY <1>1, PhysAssumption, BuffersAssumption
    DEF BufAt, BufSize, InPool, Data, LinkSize, ETH_BUFFERS_PAGES, PageSize

\* It accepts no other address that the interface can report.
LEMMA ForeignNotInPool ==
    ASSUME NEW p \in Foreign
    PROVE  ~InPool(p)
<1> QED
    BY ForeignAssumption, PhysAssumption, BuffersAssumption
    DEF InPool, ETH_BUFFERS_PAGES, PageSize, AllocatedPages

\* Different buffers have different data pointers.
LEMMA DataInjective ==
    ASSUME NEW b \in Buffers, NEW c \in Buffers, Data(b) = Data(c)
    PROVE  b = c
<1> QED
    BY BufferAligned DEF Data, LinkSize

-----------------------------------------------------------------------------
\* net_bufpool_return of a buffer that was not free keeps the list exact, when
\* that buffer is the only one that becomes free: the new list t has it in
\* front of the old list s.
LEMMA ReturnKeepsExact ==
    ASSUME TypeOK, FreeListExact,
           NEW b \in Buffers, OwnerOf(b) # "free",
           NEW p, BufOf(p) = b, net_bufpool_return(p),
           \A c \in Buffers :
               (OwnerOf(c) = "free")' <=> (OwnerOf(c) = "free" \/ c = b)
    PROVE  /\ FreeListExact'
           /\ eth_bufpool' \in Buffers
           /\ next' \in [Buffers -> Buffers \cup {Null}]
           /\ eth_bufpool_avail' \in Nat
<1> DEFINE n == eth_bufpool_avail
<1>1. PICK s \in [1 .. n -> Buffers] :
         /\ IsList(s, n, eth_bufpool, next)
         /\ \A c \in Buffers : OwnerOf(c) = "free" <=> \E i \in 1 .. n : s[i] = c
    BY DEF FreeListExact
<1>2. \A i \in 1 .. n : s[i] # b
    BY <1>1
<1>3. n \in Nat /\ next \in [Buffers -> Buffers \cup {Null}]
      /\ eth_bufpool \in Buffers \cup {Null}
    BY DEF TypeOK
<1>4. n' = n + 1 /\ eth_bufpool' = b /\ next' = [next EXCEPT ![b] = eth_bufpool]
    BY DEF net_bufpool_return
<1> DEFINE t == [i \in 1 .. n + 1 |-> IF i = 1 THEN b ELSE s[i - 1]]
<1>5. /\ t \in [1 .. n + 1 -> Buffers]
      /\ t[1] = b
      /\ \A i \in 1 .. n : t[i + 1] = s[i]
      /\ \A i \in 2 .. n + 1 : i - 1 \in 1 .. n /\ t[i] = s[i - 1]
    BY <1>3
<1>6. next'[b] = eth_bufpool /\ \A c \in Buffers \ {b} : next'[c] = next[c]
    BY <1>3, <1>4
<1> HIDE DEF t, n
<1>7. \A i, j \in 1 .. n + 1 : t[i] = t[j] => i = j
    BY <1>1, <1>2, <1>3, <1>5 DEF IsList
<1>8. \A i \in 1 .. n + 1 : next'[t[i]] = IF i = n + 1 THEN Null ELSE t[i + 1]
    BY <1>1, <1>2, <1>3, <1>5, <1>6 DEF IsList
<1>9. IsList(t, n + 1, b, next')
    BY <1>3, <1>5, <1>7, <1>8 DEF IsList
<1>10. ASSUME NEW c \in Buffers
       PROVE  (OwnerOf(c) = "free")' <=> \E i \in 1 .. n + 1 : t[i] = c
    BY <1>1, <1>3, <1>5
<1>11. FreeListExact'
    BY <1>4, <1>5, <1>9, <1>10 DEF FreeListExact, n
<1> QED
    BY <1>3, <1>4, <1>11 DEF n

\* net_bufpool_get keeps the list exact, when the head of the list is the only
\* buffer that stops being free: the new list t is the tail of the old list s.
LEMMA GetKeepsExact ==
    ASSUME TypeOK, FreeListExact, net_bufpool_get,
           \A c \in Buffers :
               (OwnerOf(c) = "free")' <=> (OwnerOf(c) = "free" /\ c # eth_bufpool)
    PROVE  /\ FreeListExact'
           /\ eth_bufpool' \in Buffers \cup {Null}
           /\ next' \in [Buffers -> Buffers \cup {Null}]
           /\ eth_bufpool_avail' \in Nat
<1> DEFINE n == eth_bufpool_avail
<1>1. PICK s \in [1 .. n -> Buffers] :
         /\ IsList(s, n, eth_bufpool, next)
         /\ \A c \in Buffers : OwnerOf(c) = "free" <=> \E i \in 1 .. n : s[i] = c
    BY DEF FreeListExact
<1>2. n \in Nat /\ next \in [Buffers -> Buffers \cup {Null}] /\ eth_bufpool # Null
    BY DEF TypeOK, net_bufpool_get
<1>3. n # 0 /\ n - 1 \in Nat /\ eth_bufpool = s[1] /\ eth_bufpool \in Buffers
    BY <1>1, <1>2 DEF IsList
<1>4. /\ n' = n - 1 /\ eth_bufpool' = next[eth_bufpool]
      /\ next' = [next EXCEPT ![eth_bufpool] = Null]
    BY DEF net_bufpool_get
<1> DEFINE t == [i \in 1 .. n - 1 |-> s[i + 1]]
<1>5. /\ t \in [1 .. n - 1 -> Buffers]
      /\ \A i \in 1 .. n - 1 : t[i] = s[i + 1] /\ i + 1 \in 1 .. n
      /\ \A i \in 2 .. n : i - 1 \in 1 .. n - 1 /\ t[i - 1] = s[i]
    BY <1>2, <1>3
<1>6. \A c \in Buffers \ {eth_bufpool} : next'[c] = next[c]
    BY <1>2, <1>4
<1> HIDE DEF t, n
<1>7. \A i \in 1 .. n - 1 : t[i] # eth_bufpool
    BY <1>1, <1>2, <1>3, <1>5 DEF IsList
<1>8. \A i, j \in 1 .. n - 1 : t[i] = t[j] => i = j
    BY <1>1, <1>2, <1>5 DEF IsList
<1>9. next[eth_bufpool] = IF n - 1 = 0 THEN Null ELSE t[1]
    BY <1>1, <1>2, <1>3, <1>5 DEF IsList
<1>10. \A i \in 1 .. n - 1 : next'[t[i]] = IF i = n - 1 THEN Null ELSE t[i + 1]
    BY <1>1, <1>2, <1>5, <1>6, <1>7 DEF IsList
<1>11. IsList(t, n - 1, next[eth_bufpool], next')
    BY <1>8, <1>9, <1>10 DEF IsList
<1>12. ASSUME NEW c \in Buffers
       PROVE  (OwnerOf(c) = "free")' <=> \E i \in 1 .. n - 1 : t[i] = c
    <2>1. ASSUME NEW i \in 1 .. n, s[i] = c, c # eth_bufpool
          PROVE  \E j \in 1 .. n - 1 : t[j] = c
        <3>1. i \in 2 .. n
            BY <1>2, <1>3, <2>1
        <3> QED
            BY <1>5, <2>1, <3>1
    <2>2. ASSUME NEW i \in 1 .. n - 1, t[i] = c
          PROVE  c # eth_bufpool /\ \E j \in 1 .. n : s[j] = c
        BY <1>5, <1>7, <2>2
    <2> QED
        BY <1>1, <2>1, <2>2
<1>13. FreeListExact'
    BY <1>4, <1>5, <1>11, <1>12 DEF FreeListExact, n
<1> QED
    BY <1>2, <1>3, <1>4, <1>13 DEF n

\* The head of a list that is not empty is a free buffer.
LEMMA HeadIsFree ==
    ASSUME TypeOK, FreeListExact, eth_bufpool # Null
    PROVE  eth_bufpool \in Buffers /\ OwnerOf(eth_bufpool) = "free"
<1> DEFINE n == eth_bufpool_avail
<1>1. PICK s \in [1 .. n -> Buffers] :
         /\ IsList(s, n, eth_bufpool, next)
         /\ \A c \in Buffers : OwnerOf(c) = "free" <=> \E i \in 1 .. n : s[i] = c
    BY DEF FreeListExact
<1>2. n \in Nat /\ n # 0 /\ eth_bufpool = s[1] /\ 1 \in 1 .. n
    BY <1>1 DEF IsList, TypeOK
<1> QED
    BY <1>1, <1>2

-----------------------------------------------------------------------------
\* Before net_bufpool_init nobody owns a buffer.
LEMMA InitOwners == Init => \A b \in Buffers : OwnerOf(b) = "none"
<1> SUFFICES ASSUME Init, NEW b \in Buffers PROVE OwnerOf(b) = "none"
    OBVIOUS
<1>1. Data(b) # Null
    BY BufOfData
<1>2. b >= BufAt(0)
    BY PhysAssumption, BuffersAssumption DEF Buffers, BufAt, BufSize
<1> QED
    BY <1>1, <1>2 DEF OwnerOf, Init

\* The inductive invariant holds before net_bufpool_init.
LEMMA InitInv == Init => PoolInv
<1> SUFFICES ASSUME Init PROVE PoolInv
    OBVIOUS
<1>1. TypeOK /\ SingleHolder /\ QuietInit
    BY BuffersAssumption DEF Init, TypeOK, SingleHolder, QuietInit
<1>2. \A b \in Buffers : OwnerOf(b) = "none"
    BY InitOwners
<1>3. FreeListExact
    <2> DEFINE s == [i \in 1 .. 0 |-> eth_buffer_phys]
    <2>1. s \in [1 .. 0 -> Buffers] /\ IsList(s, 0, Null, next)
        BY DEF IsList
    <2>2. \A b \in Buffers : OwnerOf(b) = "free" <=> \E i \in 1 .. 0 : s[i] = b
        BY <1>2
    <2>3. eth_bufpool_avail = 0 /\ eth_bufpool = Null
        BY DEF Init
    <2> HIDE DEF s
    <2> QED
        BY <2>1, <2>2, <2>3 DEF FreeListExact
<1> QED
    BY <1>1, <1>3 DEF PoolInv

\* Who owns what after each kind of step; the list does not occur here.
\* First: a turn of net_bufpool_init makes one buffer free.
LEMMA SeedOwners ==
    ASSUME PoolInv, net_bufpool_init
    PROVE  /\ BufAt(seeded) \in Buffers
           /\ OwnerOf(BufAt(seeded)) = "none"
           /\ \A c \in Buffers :
                 OwnerOf(c)' = IF c = BufAt(seeded) THEN "free" ELSE OwnerOf(c)
<1>1. seeded \in 0 .. ETH_BUFFERS - 1 /\ seeded' = seeded + 1
    BY BuffersAssumption DEF PoolInv, TypeOK, net_bufpool_init
<1>2. /\ held = Null /\ pending = {} /\ done = {}
      /\ held' = Null /\ pending' = {} /\ done' = {}
    BY <1>1, BuffersAssumption
    DEF PoolInv, QuietInit, Ready, net_bufpool_init
<1>3. BufAt(seeded) \in Buffers
    BY <1>1 DEF Buffers
<1>4. \A c \in Buffers : OwnerOf(c) = IF c >= BufAt(seeded) THEN "none" ELSE "free"
    BY <1>2, BufOfData DEF OwnerOf
<1>5. \A c \in Buffers :
         OwnerOf(c)' = IF c >= BufAt(seeded + 1) THEN "none" ELSE "free"
    BY <1>1, <1>2, BufOfData DEF OwnerOf, BufAt
<1>6. ASSUME NEW c \in Buffers
      PROVE  c >= BufAt(seeded + 1) <=> c >= BufAt(seeded) /\ c # BufAt(seeded)
    <2>1. PICK i \in 0 .. ETH_BUFFERS - 1 : c = BufAt(i)
        BY DEF Buffers
    <2> QED
        BY <1>1, <2>1, PhysAssumption, BuffersAssumption DEF BufAt, BufSize
<1>7. BufAt(seeded) >= BufAt(seeded)
    BY <1>1, PhysAssumption DEF BufAt, BufSize
<1> QED
    BY <1>3, <1>4, <1>5, <1>6, <1>7

\* Once net_bufpool_init is through, every buffer has an owner.
LEMMA AllSeeded ==
    ASSUME PoolInv, Ready, NEW c \in Buffers
    PROVE  ~(c >= BufAt(seeded))
<1> QED
    BY PhysAssumption, BuffersAssumption DEF Ready, Buffers, BufAt, BufSize

\* The pointer the running send function owns is that of exactly one buffer.
LEMMA HeldBuffer ==
    ASSUME PoolInv, held # Null
    PROVE  /\ Ready
           /\ \E b \in Buffers : held = Data(b) /\ OwnerOf(b) = "stack"
<1>1. PICK b \in Buffers : held = Data(b)
    BY DEF PoolInv, TypeOK
<1>2. OwnerOf(b) = "stack"
    BY <1>1 DEF OwnerOf
<1> QED
    BY <1>1, <1>2 DEF PoolInv, QuietInit

\* Taking a buffer moves the head of the list to the protocol code.
LEMMA GetOwners ==
    ASSUME PoolInv, BeginSend
    PROVE  /\ eth_bufpool \in Buffers
           /\ OwnerOf(eth_bufpool) = "free"
           /\ \A c \in Buffers :
                 OwnerOf(c)' = IF c = eth_bufpool THEN "stack" ELSE OwnerOf(c)
<1>1. eth_bufpool \in Buffers /\ OwnerOf(eth_bufpool) = "free"
    BY HeadIsFree DEF PoolInv, BeginSend, net_bufpool_get
<1>2. /\ held = Null /\ held' = Data(eth_bufpool)
      /\ pending' = pending /\ done' = done /\ seeded' = seeded
    BY DEF BeginSend, net_bufpool_get
<1>3. ASSUME NEW c \in Buffers, c # eth_bufpool
      PROVE  OwnerOf(c)' = OwnerOf(c)
    <2>1. held # Data(c) /\ held' # Data(c)
        BY <1>1, <1>2, <1>3, BufOfData, DataInjective
    <2> QED
        BY <1>2, <2>1 DEF OwnerOf, BufAt
<1>4. ASSUME NEW c \in Buffers, c = eth_bufpool
      PROVE  OwnerOf(c)' = "stack"
    BY <1>2, <1>4 DEF OwnerOf
<1> QED
    BY <1>1, <1>3, <1>4

\* Giving up the held buffer, to the pool or to the interface.
LEMMA DropOwners ==
    ASSUME PoolInv, NEW b \in Buffers, held = Data(b),
           held' = Null, seeded' = seeded, done' = done,
           pending' \in {pending, pending \cup {held}}
    PROVE  \A c \in Buffers :
              OwnerOf(c)' = IF c # b THEN OwnerOf(c)
                            ELSE IF pending' = pending THEN "free" ELSE "nic"
<1>1. Ready /\ held \notin pending \cup done
    BY BufOfData DEF PoolInv, QuietInit, SingleHolder
<1>2. ASSUME NEW c \in Buffers
      PROVE  held' # Data(c) /\ (held = Data(c) <=> c = b) /\ ~(c >= BufAt(seeded))
    BY <1>1, BufOfData, DataInjective, AllSeeded
<1>3. BufAt(seeded)' = BufAt(seeded)
    BY DEF BufAt
<1>4. ASSUME NEW c \in Buffers, c # b
      PROVE  OwnerOf(c)' = OwnerOf(c)
    <2>1. Data(c) \in pending' \cup done' <=> Data(c) \in pending \cup done
        BY <1>2, <1>4
    <2> QED
        BY <1>2, <1>3, <1>4, <2>1 DEF OwnerOf
<1>5. CASE pending' = pending
    <2>1. ASSUME NEW c \in Buffers, c = b PROVE OwnerOf(c)' = "free"
        BY <1>1, <1>2, <1>3, <1>5, <2>1 DEF OwnerOf
    <2> QED
        BY <1>4, <1>5, <2>1
<1>6. CASE pending' # pending
    <2>1. ASSUME NEW c \in Buffers, c = b PROVE OwnerOf(c)' = "nic"
        <3>1. Data(c) \in pending' \cup done'
            BY <1>6, <2>1
        <3> QED
            BY <1>2, <3>1 DEF OwnerOf
    <2> QED
        BY <1>4, <1>6, <2>1
<1> QED
    BY <1>5, <1>6

\* A reported transmit buffer of the pool becomes free.
LEMMA ReclaimOwners ==
    ASSUME PoolInv, Ready, held = Null,
           NEW b \in Buffers, Data(b) \in done,
           held' = Null, seeded' = seeded, pending' = pending,
           done' = done \ {Data(b)}
    PROVE  /\ OwnerOf(b) = "nic"
           /\ \A c \in Buffers :
                 OwnerOf(c)' = IF c = b THEN "free" ELSE OwnerOf(c)
<1>1. Data(b) \notin pending
    BY DEF PoolInv, SingleHolder
<1>2. ASSUME NEW c \in Buffers
      PROVE  /\ held # Data(c) /\ held' # Data(c)
             /\ ~(c >= BufAt(seeded)) /\ BufAt(seeded)' = BufAt(seeded)
             /\ Data(c) \in pending' \cup done'
                   <=> Data(c) \in pending \cup done /\ c # b
    BY <1>1, BufOfData, DataInjective, AllSeeded DEF BufAt
<1>3. OwnerOf(b) = "nic"
    BY <1>2 DEF OwnerOf
<1>4. ASSUME NEW c \in Buffers
      PROVE  OwnerOf(c)' = IF c = b THEN "free" ELSE OwnerOf(c)
    BY <1>2 DEF OwnerOf
<1> QED
    BY <1>3, <1>4

-----------------------------------------------------------------------------
\* Every step of the pool and its users preserves the inductive invariant.
LEMMA NextInv == PoolInv /\ [Next]_vars => PoolInv'
<1> SUFFICES ASSUME PoolInv, [Next]_vars PROVE PoolInv'
    OBVIOUS
<1> USE DEF PoolInv
<1>1. CASE net_bufpool_init
    <2>1. /\ seeded \in 0 .. ETH_BUFFERS - 1 /\ seeded' = seeded + 1
          /\ net_bufpool_return(BufAt(seeded))
          /\ held' = Null /\ pending' = {} /\ done' = {}
        BY <1>1, BuffersAssumption DEF net_bufpool_init, TypeOK, QuietInit, Ready
    <2>2. /\ BufAt(seeded) \in Buffers
          /\ OwnerOf(BufAt(seeded)) # "free"
          /\ BufOf(BufAt(seeded)) = BufAt(seeded)
          /\ \A c \in Buffers : (OwnerOf(c) = "free")'
                                   <=> (OwnerOf(c) = "free" \/ c = BufAt(seeded))
        BY <1>1, SeedOwners, BufOfData
    <2>3. /\ FreeListExact' /\ eth_bufpool' \in Buffers
          /\ next' \in [Buffers -> Buffers \cup {Null}] /\ eth_bufpool_avail' \in Nat
        BY <2>1, <2>2, ReturnKeepsExact
    <2>4. TypeOK'
        BY <2>1, <2>3, BuffersAssumption DEF TypeOK
    <2> QED
        BY <2>1, <2>3, <2>4 DEF SingleHolder, QuietInit
<1>2. CASE BeginSend
    <2>1. /\ Ready /\ net_bufpool_get /\ held' = Data(eth_bufpool)
          /\ pending' = pending /\ done' = done /\ seeded' = seeded
        BY <1>2 DEF BeginSend, net_bufpool_get
    <2>2. /\ eth_bufpool \in Buffers /\ OwnerOf(eth_bufpool) = "free"
          /\ \A c \in Buffers : (OwnerOf(c) = "free")'
                                   <=> (OwnerOf(c) = "free" /\ c # eth_bufpool)
        BY <1>2, GetOwners
    <2>3. /\ FreeListExact' /\ eth_bufpool' \in Buffers \cup {Null}
          /\ next' \in [Buffers -> Buffers \cup {Null}] /\ eth_bufpool_avail' \in Nat
        BY <2>1, <2>2, GetKeepsExact
    <2>4. TypeOK'
        BY <2>1, <2>2, <2>3 DEF TypeOK
    <2>5. SingleHolder'
        BY <2>1, <2>2 DEF SingleHolder, OwnerOf
    <2> QED
        BY <2>1, <2>3, <2>4, <2>5 DEF QuietInit, Ready
<1>3. CASE AbandonSend \/ net_eth_send_error
    <2>1. /\ held # Null /\ net_bufpool_return(held) /\ held' = Null
          /\ pending' = pending /\ done' = done /\ seeded' = seeded
        BY <1>3 DEF AbandonSend, net_eth_send_error
    <2>2. PICK b \in Buffers : held = Data(b) /\ OwnerOf(b) = "stack"
        BY <2>1, HeldBuffer
    <2>3. \A c \in Buffers : (OwnerOf(c) = "free")' <=> (OwnerOf(c) = "free" \/ c = b)
        BY <2>1, <2>2, DropOwners
    <2>4. /\ FreeListExact' /\ eth_bufpool' \in Buffers
          /\ next' \in [Buffers -> Buffers \cup {Null}] /\ eth_bufpool_avail' \in Nat
        BY <2>1, <2>2, <2>3, BufOfData, ReturnKeepsExact
    <2>5. TypeOK'
        BY <2>1, <2>4 DEF TypeOK
    <2>6. SingleHolder'
        BY <2>1, BufOfData DEF SingleHolder, TypeOK
    <2> QED
        BY <2>1, <2>4, <2>5, <2>6, HeldBuffer DEF QuietInit, Ready
<1>4. CASE net_eth_send_ok
    <2>1. /\ held # Null /\ held' = Null /\ pending' = pending \cup {held}
          /\ done' = done /\ seeded' = seeded
          /\ eth_bufpool' = eth_bufpool /\ next' = next
          /\ eth_bufpool_avail' = eth_bufpool_avail
        BY <1>4 DEF net_eth_send_ok
    <2>2. PICK b \in Buffers : held = Data(b) /\ OwnerOf(b) = "stack"
        BY <2>1, HeldBuffer
    <2>3. \A c \in Buffers : (OwnerOf(c) = "free")' <=> OwnerOf(c) = "free"
        <3>1. pending' # pending
            BY <2>1 DEF SingleHolder
        <3> QED
            BY <2>1, <2>2, <3>1, DropOwners
    <2>4. FreeListExact'
        BY <2>1, <2>3 DEF FreeListExact
    <2>5. TypeOK'
        BY <2>1, <2>2 DEF TypeOK
    <2>6. SingleHolder'
        BY <2>1, BufOfData DEF SingleHolder, TypeOK
    <2> QED
        BY <2>1, <2>4, <2>5, <2>6, HeldBuffer DEF QuietInit, Ready
<1>5. ASSUME NEW p \in pending, TransmitDone(p) PROVE PoolInv'
    <2>1. /\ pending' = pending \ {p} /\ done' = done \cup {p}
          /\ held' = held /\ seeded' = seeded
          /\ eth_bufpool' = eth_bufpool /\ next' = next
          /\ eth_bufpool_avail' = eth_bufpool_avail
        BY <1>5 DEF TransmitDone
    <2>2. pending' \cup done' = pending \cup done
        BY <2>1
    <2>3. \A c \in Buffers : OwnerOf(c)' = OwnerOf(c)
        BY <2>1, <2>2 DEF OwnerOf, BufAt
    <2>4. FreeListExact'
        BY <2>1, <2>3 DEF FreeListExact
    <2>5. TypeOK' /\ SingleHolder'
        BY <2>1, <2>2 DEF TypeOK, SingleHolder
    <2> QED
        BY <2>1, <2>4, <2>5 DEF QuietInit, Ready
<1>6. ASSUME NEW p \in done \cup Foreign, net_poll_reclaim(p) PROVE PoolInv'
    <2>1. /\ Ready /\ held = Null /\ held' = Null /\ seeded' = seeded
          /\ pending' = pending /\ done' = done \ {p}
        BY <1>6 DEF net_poll_reclaim
    <2>2. CASE p \in done
        <3>1. PICK b \in Buffers : p = Data(b)
            BY <2>2 DEF TypeOK
        <3>2. net_bufpool_return(p) /\ BufOf(p) = b
            BY <1>6, <3>1, DataInPool, BufOfData DEF net_poll_reclaim
        <3>3. /\ OwnerOf(b) # "free"
              /\ \A c \in Buffers :
                    (OwnerOf(c) = "free")' <=> (OwnerOf(c) = "free" \/ c = b)
            BY <2>1, <2>2, <3>1, ReclaimOwners
        <3>4. /\ FreeListExact' /\ eth_bufpool' \in Buffers
              /\ next' \in [Buffers -> Buffers \cup {Null}] /\ eth_bufpool_avail' \in Nat
            BY <3>2, <3>3, ReturnKeepsExact
        <3> QED
            BY <2>1, <3>4 DEF TypeOK, SingleHolder, QuietInit, Ready
    <2>3. CASE p \in Foreign /\ p \notin done
        <3>1. /\ done' = done /\ eth_bufpool' = eth_bufpool /\ next' = next
              /\ eth_bufpool_avail' = eth_bufpool_avail
            BY <1>6, <2>1, <2>3, ForeignNotInPool DEF net_poll_reclaim, poolVars
        <3>2. \A c \in Buffers : OwnerOf(c)' = OwnerOf(c)
            BY <2>1, <3>1 DEF OwnerOf, BufAt
        <3>3. FreeListExact'
            BY <3>1, <3>2 DEF FreeListExact
        <3> QED
            BY <2>1, <3>1, <3>3 DEF TypeOK, SingleHolder, QuietInit, Ready
    <2> QED
        BY <2>2, <2>3
<1>7. CASE UNCHANGED vars
    <2>1. \A c \in Buffers : OwnerOf(c)' = OwnerOf(c)
        BY <1>7 DEF vars, OwnerOf, BufAt
    <2>2. FreeListExact'
        BY <1>7, <2>1 DEF vars, FreeListExact
    <2> QED
        BY <1>7, <2>2 DEF vars, TypeOK, SingleHolder, QuietInit, Ready
<1> QED
    BY <1>1, <1>2, <1>3, <1>4, <1>5, <1>6, <1>7 DEF Next

\* The pool's invariant, for any number of buffers and any address: the free
\* list is acyclic, ends in NULL, has eth_bufpool_avail members, and holds
\* exactly the buffers that neither the protocol code nor the interface owns.
THEOREM PoolCorrect == Spec => [](TypeOK /\ SingleHolder /\ FreeListExact)
<1>1. PoolInv => TypeOK /\ SingleHolder /\ FreeListExact
    BY DEF PoolInv
<1> QED
    BY <1>1, InitInv, NextInv, PTL DEF Spec

-----------------------------------------------------------------------------
\* A step that changes the owner of one buffer from x to y passes that buffer.
LEMMA OwnerStep ==
    ASSUME NEW b \in Buffers, NEW x, NEW y, OwnerOf(b) = x,
           \A c \in Buffers : OwnerOf(c)' = IF c = b THEN y ELSE OwnerOf(c)
    PROVE  Ownership!Pass(b, x, y)
<1> QED
    BY DEF Ownership!Pass

\* Every step of the pool passes one buffer between owners, or none.
LEMMA StepRefines ==
    PoolInv /\ [Next]_vars => [Ownership!Next]_([b \in Buffers |-> OwnerOf(b)])
<1> SUFFICES ASSUME PoolInv, [Next]_vars
             PROVE  \/ \E b \in Buffers :
                          \/ Ownership!Seed(b) \/ Ownership!Take(b)
                          \/ Ownership!Release(b) \/ Ownership!Submit(b)
                          \/ Ownership!Recycle(b)
                    \/ \A c \in Buffers : OwnerOf(c)' = OwnerOf(c)
    BY DEF Ownership!Next
<1>1. CASE net_bufpool_init
    <2>1. PICK b \in Buffers :
             /\ OwnerOf(b) = "none"
             /\ \A c \in Buffers : OwnerOf(c)' = IF c = b THEN "free" ELSE OwnerOf(c)
        BY <1>1, SeedOwners
    <2> QED
        BY <2>1, OwnerStep DEF Ownership!Seed
<1>2. CASE BeginSend
    <2>1. PICK b \in Buffers :
             /\ OwnerOf(b) = "free"
             /\ \A c \in Buffers : OwnerOf(c)' = IF c = b THEN "stack" ELSE OwnerOf(c)
        BY <1>2, GetOwners
    <2> QED
        BY <2>1, OwnerStep DEF Ownership!Take
<1>3. CASE AbandonSend \/ net_eth_send_error
    <2>1. /\ held # Null /\ held' = Null
          /\ pending' = pending /\ done' = done /\ seeded' = seeded
        BY <1>3 DEF AbandonSend, net_eth_send_error
    <2>2. PICK b \in Buffers : held = Data(b) /\ OwnerOf(b) = "stack"
        BY <2>1, HeldBuffer
    <2>3. \A c \in Buffers : OwnerOf(c)' = IF c = b THEN "free" ELSE OwnerOf(c)
        BY <2>1, <2>2, DropOwners
    <2> QED
        BY <2>2, <2>3, OwnerStep DEF Ownership!Release
<1>4. CASE net_eth_send_ok
    <2>1. /\ held # Null /\ held' = Null /\ pending' = pending \cup {held}
          /\ pending' # pending /\ done' = done /\ seeded' = seeded
        BY <1>4 DEF net_eth_send_ok, PoolInv, SingleHolder
    <2>2. PICK b \in Buffers : held = Data(b) /\ OwnerOf(b) = "stack"
        BY <2>1, HeldBuffer
    <2>3. \A c \in Buffers : OwnerOf(c)' = IF c = b THEN "nic" ELSE OwnerOf(c)
        BY <2>1, <2>2, DropOwners
    <2> QED
        BY <2>2, <2>3, OwnerStep DEF Ownership!Submit
<1>5. ASSUME NEW p \in pending, TransmitDone(p)
      PROVE  \A c \in Buffers : OwnerOf(c)' = OwnerOf(c)
    <2>1. /\ pending' \cup done' = pending \cup done
          /\ held' = held /\ seeded' = seeded
        BY <1>5 DEF TransmitDone
    <2> QED
        BY <2>1 DEF OwnerOf, BufAt
<1>6. ASSUME NEW p \in done \cup Foreign, net_poll_reclaim(p)
      PROVE  \/ \E b \in Buffers : Ownership!Recycle(b)
             \/ \A c \in Buffers : OwnerOf(c)' = OwnerOf(c)
    <2>1. /\ Ready /\ held = Null /\ held' = Null /\ seeded' = seeded
          /\ pending' = pending /\ done' = done \ {p}
        BY <1>6 DEF net_poll_reclaim
    <2>2. CASE p \in done
        <3>1. PICK b \in Buffers : p = Data(b)
            BY <2>2 DEF PoolInv, TypeOK
        <3>2. /\ OwnerOf(b) = "nic"
              /\ \A c \in Buffers : OwnerOf(c)' = IF c = b THEN "free" ELSE OwnerOf(c)
            BY <2>1, <2>2, <3>1, ReclaimOwners
        <3> QED
            BY <3>2, OwnerStep DEF Ownership!Recycle
    <2>3. CASE p \notin done
        <3>1. done' = done
            BY <2>1, <2>3
        <3> QED
            BY <2>1, <3>1 DEF OwnerOf, BufAt
    <2> QED
        BY <2>2, <2>3
<1>7. CASE UNCHANGED vars
    BY <1>7 DEF vars, OwnerOf, BufAt
<1> QED
    BY <1>1, <1>2, <1>3, <1>4, <1>5, <1>6, <1>7 DEF Next

\* The linked list of net/bufpool.c implements BufferOwnership: buffers only
\* ever pass between the free list, the protocol code and the interface along
\* the edges that module allows.
THEOREM PoolImplementsOwnership == Spec => OwnershipSpec
<1>1. Init => Ownership!Init
    BY InitOwners DEF Ownership!Init
<1> QED
    BY <1>1, InitInv, NextInv, StepRefines, PTL DEF Spec, OwnershipSpec, Ownership!Spec
=============================================================================
