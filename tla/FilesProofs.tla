---------------------------- MODULE FilesProofs ----------------------------
(***************************************************************************)
(* Proofs about the device list and the file descriptors, for any drivers, *)
(* any number of descriptors, and whether or not main() initialises the    *)
(* system a second time.                                                   *)
(***************************************************************************)
EXTENDS Files, DataTheorems

LEMMA Numerals == /\ MaxFds \in Nat /\ MaxFds >= 3 /\ StdFds \subseteq Fds
                  /\ \A i \in Fds : i \in Nat /\ i <= MaxFds - 1
                  /\ \A i \in StdFds : i \in Nat /\ i <= 2
BY FilesAssumption DEF StdFds, Fds

LEMMA Distinct == /\ NoDevice \notin Nodes /\ NoDevice \notin Names
                  /\ DevList \notin Names /\ Unknown \notin Nodes
                  /\ Names \cap Nodes = Devices /\ DevList \in Nodes
BY FilesAssumption DEF Names, Nodes, Devices, Drivers

LEMMA RegisteredSeq == Registered \in Seq(Drivers) /\ Registered # <<>>
<1>1. Registered \in Seq(STRING) /\ \E k \in DOMAIN Registered : Registered[k] = Stdio
  BY FilesAssumption
<1>2. Len(Registered) \in Nat /\ DOMAIN Registered = 1 .. Len(Registered)
  BY <1>1, LenProperties
<1>3. \A k \in 1 .. Len(Registered) : Registered[k] \in Drivers
  BY <1>2 DEF Drivers
<1>4. Registered \in Seq(Drivers)
  BY <1>1, <1>2, <1>3, SeqDef
<1>5. Registered # <<>>
  BY <1>1, <1>2
<1> QED BY <1>4, <1>5

LEMMA TailFacts ==
  ASSUME NEW S, NEW s \in Seq(S), s # <<>>
  PROVE  Head(s) \in S /\ Tail(s) \in Seq(S)
BY HeadTailProperties

LEMMA StreamsSeq == Streams \in Seq(StdFds) /\ Streams # <<>>
BY DEF Streams, StdFds

-----------------------------------------------------------------------------
(***************************************************************************)
(* What the steps do to the descriptor table.                              *)
(***************************************************************************)

\* A free descriptor carries nothing, and the standard ones are never free.
LEMMA FreeFds ==
  ASSUME IInv
  PROVE  /\ \A i \in Fds : fd[i].dev = NoDevice => fd[i] = FreeFd
         /\ \A i \in Fds \ Allocated(fd) : i > 2 /\ fd[i] = FreeFd
<1>1. \A i \in Fds : fd[i] \in FdType
  BY DEF IInv, TypeOK
<1>2. \A i \in Fds : fd[i].dev = NoDevice => fd[i] = FreeFd
  BY <1>1, Distinct DEF FdType, Nodes
<1>3. \A i \in Fds \ Allocated(fd) : fd[i].dev = NoDevice /\ i \notin StdFds
  BY DEF IInv, MaxInv, Allocated
<1>4. \A i \in Fds : i \notin StdFds => i > 2
  BY Numerals DEF Fds, StdFds
<1> QED BY <1>2, <1>3, <1>4

\* What OpenFound adds to the table before it looks for a holder.
Entry == [dev |-> call.name, access |-> call.access, flags |-> call.flags \cup {"ALT_FD_DEV"}]

LEMMA EntryFacts ==
  ASSUME IInv, call # NoCall, cursor = call.name
  PROVE  /\ call.name \in Devices /\ Entry \in FdType /\ Entry # FreeFd
         /\ "ALT_FD_EXCL" \notin Entry.flags /\ "ALT_FD_DEV" \in Entry.flags
         /\ Entry.dev = call.name
<1>1. call.name \in Names /\ call.name \in Nodes
  BY DEF IInv, StageInv, TypeOK
<1>2. call.name \in Devices
  BY <1>1, Distinct
<1>3. call.access \in Access /\ call.flags \in SUBSET {"O_NONBLOCK"}
  BY DEF IInv, TypeOK, CallType
<1>4. call.flags \cup {"ALT_FD_DEV"} \in SUBSET Flags
  BY <1>3 DEF Flags
<1>5. Entry \in FdType
  BY <1>2, <1>3, <1>4 DEF Entry, FdType
<1>6. "ALT_FD_EXCL" \notin Entry.flags /\ "ALT_FD_DEV" \in Entry.flags
  BY <1>3 DEF Entry
<1>7. Entry # FreeFd
  BY <1>2, Distinct DEF Entry, FreeFd, Nodes
<1> QED BY <1>2, <1>5, <1>6, <1>7 DEF Entry

\* A descriptor comes to refer to a device nobody holds.
Attached(i) ==
    /\ fd' = [fd EXCEPT ![i] = Entry]
    /\ ~Holds(i) /\ \A j \in Fds \ {i} : ~(fd[j].dev = call.name /\ Holds(j))
    /\ i <= alt_max_fd'

\* The search for a holder misses none, although it ends at alt_max_fd.
LEMMA NobodyHolds ==
  ASSUME IInv, call # NoCall, cursor = call.name,
         NEW i \in Fds \ Allocated(fd), NEW max \in Int, alt_max_fd <= max, i <= max,
         ~alt_file_locked([fd EXCEPT ![i] = Entry], max, i)
  PROVE  ~Holds(i) /\ \A j \in Fds \ {i} : ~(fd[j].dev = call.name /\ Holds(j))
<1>1. fd \in [Fds -> FdType] /\ alt_max_fd \in Int
  BY DEF IInv, TypeOK
<1>2. ~Holds(i)
  BY FreeFds DEF Holds, FreeFd
<1>3. ASSUME NEW j \in Fds \ {i}, fd[j].dev = call.name, Holds(j)
      PROVE  FALSE
  <2>1. "ALT_FD_DEV" \in fd[j].flags
    BY <1>3 DEF IInv, LockInv
  <2>2. j <= alt_max_fd
    BY <2>1 DEF IInv, MaxInv
  <2>3. j <= max
    BY <1>1, <2>2, Numerals
  <2> DEFINE table == [fd EXCEPT ![i] = Entry]
  <2>4. table[j] = fd[j] /\ table[i] = Entry
    BY <1>1
  <2>5. table[j].dev = table[i].dev /\ "ALT_FD_EXCL" \in table[j].flags
    BY <1>3, <2>4, EntryFacts DEF Holds
  <2>6. ~\E k \in Fds : /\ k <= max /\ k # i /\ table[k].dev = table[i].dev
                        /\ "ALT_FD_EXCL" \in table[k].flags
    BY DEF alt_file_locked
  <2> HIDE DEF table
  <2> QED BY <2>3, <2>5, <2>6
<1> QED BY <1>2, <1>3

LEMMA OpenOutcome ==
  ASSUME IInv, OpenFound
  PROVE  /\ alt_max_fd' \in -1 .. MaxFds - 1 /\ alt_max_fd <= alt_max_fd'
         /\ rval' \in [index : -1 .. MaxFds - 1, errno : Errno]
         /\ rval'.index < 0 => fd' = fd
         /\ \/ fd' = fd
            \/ \E i \in Fds : /\ Attached(i)
                             /\ IF stage = "main" THEN fd[i].dev = NoDevice
                                ELSE i \in StdFds /\ \A j \in Fds : ~Holds(j)
<1>1. /\ fd \in [Fds -> FdType] /\ alt_max_fd \in -1 .. MaxFds - 1
      /\ call # NoCall /\ cursor = call.name
  BY DEF IInv, TypeOK, OpenFound
<1>2. CASE Allocated(fd) = Fds /\ Opened(fd, Fails("EMFILE")) /\ UNCHANGED alt_max_fd
  <2>1. rval' = Fails("EMFILE") /\ Fails("EMFILE") = [index |-> -1, errno |-> "EMFILE"]
    BY <1>2 DEF Opened, Fails
  <2>2. rval' \in [index : -1 .. MaxFds - 1, errno : Errno] /\ rval'.index = -1
    BY <2>1, Numerals DEF Errno
  <2>3. fd' = fd
    BY <1>2, <2>1 DEF Opened
  <2> QED BY <1>1, <1>2, <2>2, <2>3
<1>3. ASSUME NEW i \in Lowest(Fds \ Allocated(fd)),
             NEW max, max = RaisedMax(i), NEW table, table = [fd EXCEPT ![i] = Entry],
             alt_max_fd' = max,
             IF alt_file_locked(table, max, i)
             THEN Opened(Refused(table, i), Fails("EACCES")) ELSE Opened(table, Ok(i))
      PROVE  /\ alt_max_fd' \in -1 .. MaxFds - 1 /\ alt_max_fd <= alt_max_fd'
             /\ rval' \in [index : -1 .. MaxFds - 1, errno : Errno]
             /\ rval'.index < 0 => fd' = fd
             /\ \/ fd' = fd
                \/ \E k \in Fds : /\ Attached(k)
                                 /\ IF stage = "main" THEN fd[k].dev = NoDevice
                                    ELSE k \in StdFds /\ \A j \in Fds : ~Holds(j)
  <2>1. i \in Fds \ Allocated(fd) /\ i \in Nat /\ i <= MaxFds - 1
    BY <1>3, Numerals DEF Lowest
  <2>2. /\ max \in -1 .. MaxFds - 1 /\ max \in Int
        /\ alt_max_fd <= max /\ i <= max
    BY <1>1, <1>3, <2>1, Numerals DEF RaisedMax
  <2>3. i > 2 /\ fd[i] = FreeFd /\ fd[i].dev = NoDevice
    BY <2>1, FreeFds DEF FreeFd
  <2>4. CASE alt_file_locked(table, max, i)
    <3>1. Refused(table, i) = fd
      BY <1>1, <1>3, <2>1, <2>3 DEF Refused, alt_release_fd
    <3>2. Opened(fd, Fails("EACCES"))
      BY <1>3, <2>4, <3>1
    <3>3. rval' = Fails("EACCES") /\ Fails("EACCES") = [index |-> -1, errno |-> "EACCES"]
      BY <3>2 DEF Opened, Fails
    <3>4. rval' \in [index : -1 .. MaxFds - 1, errno : Errno] /\ rval'.index = -1
      BY <3>3, Numerals DEF Errno
    <3>5. fd' = fd
      BY <3>2, <3>3 DEF Opened
    <3> QED BY <1>3, <2>2, <3>4, <3>5
  <2>5. CASE ~alt_file_locked(table, max, i)
    <3>1. Opened(table, Ok(i)) /\ Ok(i) = [index |-> i, errno |-> "none"]
      BY <1>3, <2>5 DEF Ok
    <3>2. rval' \in [index : -1 .. MaxFds - 1, errno : Errno] /\ rval'.index = i
      BY <2>1, <3>1 DEF Opened, Errno
    <3>3. ~Holds(i) /\ \A j \in Fds \ {i} : ~(fd[j].dev = call.name /\ Holds(j))
      BY <1>1, <1>3, <2>1, <2>2, <2>5, NobodyHolds
    <3>4. CASE stage = "main"
      <4>1. fd' = table
        BY <3>1, <3>4 DEF Opened
      <4>2. Attached(i)
        BY <1>3, <2>2, <3>3, <4>1 DEF Attached
      <4> QED BY <1>3, <2>1, <2>2, <2>3, <3>2, <3>4, <4>2
    <3>5. CASE stage # "main"
      <4>1. stage = "alt_io_redirect" /\ todo \in Seq(StdFds) /\ todo # <<>>
        BY <1>1, <3>5 DEF IInv, StageInv
      <4> DEFINE k == Head(todo)
      <4>2. k \in StdFds /\ k \in Fds /\ k <= 2 /\ k \in Nat
        BY <4>1, TailFacts, Numerals
      <4>3. fd' = alt_open_fd(table, k, i)
        BY <2>1, <3>1, <4>1 DEF Opened
      <4> HIDE DEF k
      <4>4. fd' = [[table EXCEPT ![k] = table[i]] EXCEPT ![i] = FreeFd]
        BY <2>3, <4>3 DEF alt_open_fd, alt_release_fd
      <4>5. table[i] = Entry
        BY <1>1, <1>3, <2>1
      <4>6. k # i
        BY <2>1, <2>3, <4>2
      <4>7. fd' = [fd EXCEPT ![k] = Entry]
        BY <1>1, <1>3, <2>1, <2>3, <4>2, <4>4, <4>5, <4>6
      <4>8. \A j \in Fds : ~Holds(j)
        BY <3>5 DEF IInv, LockInv
      <4>9. k <= alt_max_fd'
        BY <1>3, <2>1, <2>2, <2>3, <4>2
      <4>10. Attached(k)
        BY <4>2, <4>7, <4>8, <4>9 DEF Attached
      <4> QED BY <1>3, <2>1, <2>2, <3>2, <3>5, <4>2, <4>8, <4>10
    <3> QED BY <3>4, <3>5
  <2> QED BY <2>4, <2>5
<1>4. \/ Allocated(fd) = Fds /\ Opened(fd, Fails("EMFILE")) /\ UNCHANGED alt_max_fd
      \/ \E i \in Lowest(Fds \ Allocated(fd)) :
            /\ alt_max_fd' = RaisedMax(i)
            /\ IF alt_file_locked([fd EXCEPT ![i] = Entry], RaisedMax(i), i)
               THEN Opened(Refused([fd EXCEPT ![i] = Entry], i), Fails("EACCES"))
               ELSE Opened([fd EXCEPT ![i] = Entry], Ok(i))
  BY DEF OpenFound, Entry
<1> QED BY <1>2, <1>3, <1>4

-----------------------------------------------------------------------------
(***************************************************************************)
(* The device list, also when a device on the list is registered again.    *)
(***************************************************************************)
LEMMA Registering ==
  ASSUME IInv, NEW dev \in Drivers, alt_dev_reg(dev), cursor' = cursor
  PROVE  /\ links' \in [Nodes -> [next : Nodes \cup {NoDevice}, previous : Nodes \cup {NoDevice}]]
         /\ LinksInv'
<1> DEFINE Link == [next : Nodes \cup {NoDevice}, previous : Nodes \cup {NoDevice}]
           a == [links EXCEPT ![dev] = [next |-> links[DevList].next, previous |-> DevList]]
           b == [a EXCEPT ![a[DevList].next].previous = dev]
           c == [b EXCEPT ![DevList].next = dev]
<1>1. /\ links \in [Nodes -> Link] /\ dev \in Nodes /\ DevList \in Nodes /\ dev # DevList
      /\ dev # NoDevice /\ DevList # NoDevice
  BY Distinct, FilesAssumption DEF IInv, TypeOK, Nodes, Devices, Drivers
<1>2. links' = c
  BY DEF alt_dev_reg, alt_llist_insert
<1>3. links[DevList].next \in Nodes /\ OnList(links[DevList].next)
  BY <1>1 DEF IInv, LinksInv, OnList
<1>4. /\ a \in [Nodes -> Link] /\ a[DevList] = links[DevList]
      /\ a[dev] = [next |-> links[DevList].next, previous |-> DevList]
      /\ \A n \in Nodes \ {dev} : a[n] = links[n]
  BY <1>1, <1>3
<1> HIDE DEF a
<1>5. /\ b \in [Nodes -> Link]
      /\ \A n \in Nodes : b[n].next = a[n].next
      /\ \A n \in Nodes : b[n].previous = IF n = links[DevList].next THEN dev ELSE a[n].previous
  BY <1>1, <1>3, <1>4
<1> HIDE DEF b
<1>6. /\ c \in [Nodes -> Link]
      /\ \A n \in Nodes : c[n].next = IF n = DevList THEN dev ELSE b[n].next
      /\ \A n \in Nodes : c[n].previous = b[n].previous
  BY <1>1, <1>5
<1> HIDE DEF c
<1>7. \A n \in Nodes : c[n].next = IF n = DevList THEN dev
                                   ELSE IF n = dev THEN links[DevList].next ELSE links[n].next
  BY <1>1, <1>4, <1>5, <1>6
<1>8. \A n \in Nodes : OnList(n) \/ n = dev => OnList(n)'
  BY <1>1, <1>2, <1>3, <1>4, <1>5, <1>6, <1>7, Distinct DEF OnList
<1>9. \A n \in Nodes : OnList(n)' => OnList(n) \/ n = dev
  <2> SUFFICES ASSUME NEW n \in Nodes, OnList(n)', n # dev PROVE OnList(n)
    OBVIOUS
  <2>1. CASE n \in {DevList, links[DevList].next}
    BY <1>3, <2>1 DEF IInv, LinksInv
  <2>2. CASE n \notin {DevList, links[DevList].next}
    BY <1>2, <1>4, <1>5, <1>6, <1>7, <2>2 DEF OnList
  <2> QED BY <2>1, <2>2
<1>10. OnList(DevList)' /\ OnList(cursor)'
  <2>1. OnList(DevList) /\ OnList(cursor) /\ cursor \in Nodes
    BY DEF IInv, LinksInv, TypeOK
  <2>2. OnList(DevList)'
    BY <1>1, <1>8, <2>1
  <2>3. links'[cursor].next # NoDevice /\ links'[cursor].previous # NoDevice
    BY <1>8, <2>1 DEF OnList
  <2> QED BY <2>2, <2>3 DEF OnList
<1>11. ASSUME NEW n \in Nodes, OnList(n)' PROVE OnList(links[n].next)'
  <2>1. OnList(n) \/ n = dev
    BY <1>9, <1>11
  <2>2. OnList(n) => links[n].next \in Nodes /\ OnList(links[n].next)
    BY <1>1 DEF IInv, LinksInv, OnList
  <2>3. c[n].next \in Nodes /\ (OnList(c[n].next) \/ c[n].next = dev)
    BY <1>1, <1>3, <1>7, <2>1, <2>2
  <2>4. links'[c[n].next].next # NoDevice /\ links'[c[n].next].previous # NoDevice
    BY <1>8, <2>3 DEF OnList
  <2> QED BY <1>2, <2>4 DEF OnList
<1> QED BY <1>2, <1>6, <1>10, <1>11 DEF LinksInv

-----------------------------------------------------------------------------
(***************************************************************************)
(* The descriptor table keeps MaxInv and LockInv.                          *)
(***************************************************************************)
LEMMA SameTable ==
  ASSUME IInv, fd' = fd, alt_max_fd' \in Int, alt_max_fd <= alt_max_fd',
         stage = "main" => stage' = "main"
  PROVE  MaxInv' /\ LockInv'
<1>1. alt_max_fd \in Int
  BY DEF IInv, TypeOK
<1>2. MaxInv'
  <2>1. ASSUME NEW i \in Fds, "ALT_FD_DEV" \in fd[i].flags PROVE i <= alt_max_fd'
    <3>1. i <= alt_max_fd
      BY <2>1 DEF IInv, MaxInv
    <3> QED BY <1>1, <3>1, Numerals
  <2>2. StdFds \subseteq Allocated(fd)
    BY DEF IInv, MaxInv
  <2> QED BY <2>1, <2>2 DEF MaxInv
<1>3. LockInv'
  BY DEF IInv, LockInv, Holds
<1> QED BY <1>2, <1>3

LEMMA NewEntry ==
  ASSUME IInv, call # NoCall, cursor = call.name, NEW i \in Fds, Attached(i),
         alt_max_fd' \in Int, alt_max_fd <= alt_max_fd', stage = "main" => stage' = "main"
  PROVE  fd' \in [Fds -> FdType] /\ MaxInv' /\ LockInv'
<1>1. fd \in [Fds -> FdType] /\ alt_max_fd \in Int
  BY DEF IInv, TypeOK
<1>2. /\ fd' = [fd EXCEPT ![i] = Entry] /\ Entry \in FdType
      /\ Entry.dev = call.name /\ call.name \in Devices
      /\ "ALT_FD_EXCL" \notin Entry.flags
  BY EntryFacts DEF Attached
<1>3. fd' \in [Fds -> FdType] /\ fd'[i] = Entry /\ \A j \in Fds \ {i} : fd'[j] = fd[j]
  BY <1>1, <1>2
<1>4. MaxInv'
  <2>1. ASSUME NEW j \in Fds, "ALT_FD_DEV" \in fd'[j].flags PROVE j <= alt_max_fd'
    <3>1. CASE j = i
      BY <3>1 DEF Attached
    <3>2. CASE j # i
      <4>1. j <= alt_max_fd
        BY <1>3, <2>1, <3>2 DEF IInv, MaxInv
      <4> QED BY <1>1, <4>1, Numerals
    <3> QED BY <3>1, <3>2
  <2>2. ASSUME NEW j \in StdFds PROVE j \in Allocated(fd')
    <3>1. j \in Fds /\ fd[j].dev # NoDevice
      BY DEF IInv, MaxInv, Allocated
    <3>2. Entry.dev # NoDevice
      BY <1>2, Distinct DEF Nodes
    <3>3. fd'[j].dev # NoDevice
      BY <1>3, <3>1, <3>2
    <3> QED BY <3>1, <3>3 DEF Allocated
  <2> QED BY <2>1, <2>2 DEF MaxInv, Allocated
<1>5. \A j \in Fds : Holds(j)' => j # i /\ Holds(j) /\ fd[j].dev # call.name
  <2>1. \A j \in Fds : Holds(j)' => j # i /\ Holds(j)
    BY <1>2, <1>3 DEF Holds
  <2> QED BY <2>1 DEF Attached
<1>6. LockInv'
  <2>1. ASSUME NEW j \in Fds, Holds(j)'
        PROVE  stage' = "main" /\ "ALT_FD_DEV" \in fd'[j].flags
    BY <1>3, <1>5, <2>1 DEF IInv, LockInv
  <2>2. ASSUME NEW j \in Fds, NEW k \in Fds, j # k, fd'[j].dev = fd'[k].dev, Holds(j)'
        PROVE  j < k
    <3>1. j # i /\ Holds(j) /\ fd[j].dev # call.name /\ fd'[j] = fd[j]
      BY <1>3, <1>5, <2>2
    <3>2. k # i /\ fd'[k] = fd[k]
      BY <1>2, <1>3, <2>2, <3>1
    <3> QED BY <2>2, <3>1, <3>2 DEF IInv, LockInv
  <2> QED BY <2>1, <2>2 DEF LockInv
<1> QED BY <1>3, <1>4, <1>6

LEMMA Released ==
  ASSUME IInv, NEW i \in Fds, fd' = alt_release_fd(fd, i),
         alt_max_fd' = alt_max_fd, stage' = stage
  PROVE  fd' \in [Fds -> FdType] /\ MaxInv' /\ LockInv'
<1>1. fd \in [Fds -> FdType] /\ alt_max_fd \in Int
  BY DEF IInv, TypeOK
<1>2. CASE i <= 2
  <2>1. fd' = fd
    BY <1>2, Numerals DEF alt_release_fd
  <2> QED BY <1>1, <2>1, SameTable
<1>3. CASE i > 2
  <2>1. fd' = [fd EXCEPT ![i] = FreeFd] /\ FreeFd \in FdType
    BY <1>3 DEF alt_release_fd, FdType
  <2>2. fd' \in [Fds -> FdType] /\ fd'[i] = FreeFd /\ \A j \in Fds \ {i} : fd'[j] = fd[j]
    BY <1>1, <2>1
  <2>3. FreeFd.flags = {}
    BY DEF FreeFd
  <2>4. \A j \in StdFds : j # i
    BY <1>3, Numerals
  <2>5. MaxInv'
    <3>1. ASSUME NEW j \in Fds, "ALT_FD_DEV" \in fd'[j].flags PROVE j <= alt_max_fd'
      BY <2>2, <2>3, <3>1 DEF IInv, MaxInv
    <3>2. ASSUME NEW j \in StdFds PROVE j \in Allocated(fd')
      <4>1. j \in Fds /\ fd[j].dev # NoDevice
        BY DEF IInv, MaxInv, Allocated
      <4>2. fd'[j] = fd[j]
        BY <2>2, <2>4, <4>1
      <4> QED BY <4>1, <4>2 DEF Allocated
    <3> QED BY <3>1, <3>2 DEF MaxInv, Allocated
  <2>6. \A j \in Fds : Holds(j)' => j # i /\ Holds(j)
    BY <2>2, <2>3 DEF Holds
  <2>7. LockInv'
    <3>1. ASSUME NEW j \in Fds, Holds(j)'
          PROVE  stage' = "main" /\ "ALT_FD_DEV" \in fd'[j].flags
      BY <2>2, <2>6, <3>1 DEF IInv, LockInv
    <3>2. ASSUME NEW j \in Fds, NEW k \in Fds, j # k, fd'[j].dev = fd'[k].dev, Holds(j)'
          PROVE  j < k
      <4>1. j # i /\ Holds(j) /\ fd'[j] = fd[j]
        BY <2>2, <2>6, <3>2
      <4>2. fd[j].dev # NoDevice
        <5>1. fd[j] = FreeFd => "ALT_FD_EXCL" \notin fd[j].flags
          BY <2>3
        <5> QED BY <4>1, <5>1, FreeFds DEF Holds
      <4>3. k # i /\ fd'[k] = fd[k]
        BY <2>2, <3>2, <4>1, <4>2 DEF FreeFd
      <4> QED BY <3>2, <4>1, <4>3 DEF IInv, LockInv
    <3> QED BY <3>1, <3>2 DEF LockInv
  <2> QED BY <2>2, <2>5, <2>7
<1> QED BY <1>2, <1>3, Numerals

\* A descriptor's flags change; it becomes a holder only if alt_fd_lock()
\* sees nobody else at the device.
LEMMA Flagged ==
  ASSUME IInv, NEW i \in Fds, fd[i].dev # NoDevice, NEW flags \in SUBSET Flags,
         fd' = [fd EXCEPT ![i].flags = flags],
         "ALT_FD_DEV" \in flags <=> "ALT_FD_DEV" \in fd[i].flags,
         "ALT_FD_EXCL" \in flags =>
            Holds(i) \/ (stage = "main" /\ "ALT_FD_DEV" \in fd[i].flags /\ ~Shared(i)),
         alt_max_fd' = alt_max_fd, stage' = stage
  PROVE  fd' \in [Fds -> FdType] /\ MaxInv' /\ LockInv'
<1>1. fd \in [Fds -> FdType] /\ alt_max_fd \in Int
  BY DEF IInv, TypeOK
<1>2. fd[i] \in [dev : Devices, access : Access, flags : SUBSET Flags]
  BY <1>1 DEF FdType, FreeFd
<1>3. /\ fd' \in [Fds -> FdType] /\ \A j \in Fds \ {i} : fd'[j] = fd[j]
      /\ fd'[i].dev = fd[i].dev /\ fd'[i].flags = flags
  <2>1. [fd[i] EXCEPT !.flags = flags] \in [dev : Devices, access : Access, flags : SUBSET Flags]
    BY <1>2
  <2>2. [fd[i] EXCEPT !.flags = flags] \in FdType
    BY <2>1 DEF FdType
  <2>3. fd' = [fd EXCEPT ![i] = [fd[i] EXCEPT !.flags = flags]]
    BY <1>1
  <2>4. fd'[i] = [fd[i] EXCEPT !.flags = flags]
    BY <1>1, <2>3
  <2>5. fd'[i].dev = fd[i].dev /\ fd'[i].flags = flags
    BY <1>2, <2>4
  <2> QED BY <1>1, <2>2, <2>3, <2>5
<1>4. \A j \in Fds : fd'[j].dev = fd[j].dev
  BY <1>3
<1>5. MaxInv'
  <2>1. ASSUME NEW j \in Fds, "ALT_FD_DEV" \in fd'[j].flags PROVE j <= alt_max_fd'
    <3>1. "ALT_FD_DEV" \in fd[j].flags
      BY <1>3, <2>1
    <3> QED BY <3>1 DEF IInv, MaxInv
  <2>2. Allocated(fd') = Allocated(fd)
    BY <1>4 DEF Allocated
  <2> QED BY <2>1, <2>2 DEF IInv, MaxInv, Allocated
<1>6. ASSUME NEW j \in Fds, Holds(j)'
      PROVE  stage' = "main" /\ "ALT_FD_DEV" \in fd'[j].flags
  <2>1. CASE j = i
    <3>1. "ALT_FD_EXCL" \in flags
      BY <1>3, <1>6, <2>1 DEF Holds
    <3>2. stage = "main" /\ "ALT_FD_DEV" \in fd[i].flags
      BY <3>1 DEF IInv, LockInv
    <3> QED BY <1>3, <2>1, <3>2
  <2>2. CASE j # i
    <3>1. Holds(j) /\ fd'[j] = fd[j]
      BY <1>3, <1>6, <2>2 DEF Holds
    <3> QED BY <3>1 DEF IInv, LockInv
  <2> QED BY <2>1, <2>2
<1>7. ASSUME NEW j \in Fds, NEW k \in Fds, j # k, fd'[j].dev = fd'[k].dev, Holds(j)'
      PROVE  j < k
  <2>1. fd[j].dev = fd[k].dev
    BY <1>4, <1>7
  <2>2. CASE Holds(j)
    BY <1>7, <2>1, <2>2 DEF IInv, LockInv
  <2>3. CASE ~Holds(j)
    <3>1. j = i
      BY <1>3, <1>7, <2>3 DEF Holds
    <3>2. "ALT_FD_DEV" \in fd[j].flags /\ ~Shared(j)
      BY <1>3, <1>7, <2>3, <3>1 DEF Holds
    <3>3. j <= alt_max_fd
      BY <3>2 DEF IInv, MaxInv
    <3>4. ~(k < alt_max_fd)
      BY <1>7, <2>1, <3>2 DEF Shared
    <3> QED BY <1>1, <1>7, <3>3, <3>4, Numerals
  <2> QED BY <2>2, <2>3
<1>8. LockInv'
  BY <1>6, <1>7 DEF LockInv
<1> QED BY <1>3, <1>5, <1>8

-----------------------------------------------------------------------------
(***************************************************************************)
(* The invariant.                                                          *)
(***************************************************************************)
LEMMA NoCallType == NoCall \in CallType /\ DevList \in Nodes /\ FreeFd \in FdType
BY DEF NoCall, CallType, Access, Nodes, FdType

\* An open() that returns leaves the boot sequence where it should be.
LEMMA Returned ==
  ASSUME IInv, call # NoCall, NEW table, NEW result, Opened(table, result)
  PROVE  /\ call' = NoCall /\ cursor' = DevList /\ links' = links
         /\ call' \in CallType /\ cursor' \in Nodes /\ links' \in [Nodes -> [next : Nodes \cup {NoDevice}, previous : Nodes \cup {NoDevice}]]
         /\ stage' \in {"alt_sys_init", "alt_io_redirect", "main_sys_init", "main"}
         /\ stage = "main" => stage' = "main"
         /\ StageInv' /\ LinksInv'
<1>1. call' = NoCall /\ cursor' = DevList /\ links' = links
  BY DEF Opened
<1>2. call' \in CallType /\ cursor' \in Nodes
  BY <1>1, NoCallType
<1>3. LinksInv'
  <2>1. OnList(DevList) /\ \A n \in Nodes : OnList(n) => OnList(links[n].next)
    BY DEF IInv, LinksInv
  <2> QED BY <1>1, <2>1 DEF LinksInv, OnList
<1>4. CASE stage = "main"
  <2>1. stage' = "main"
    BY <1>4 DEF Opened
  <2> QED BY <1>1, <1>2, <1>3, <1>4, <2>1 DEF StageInv, IInv, TypeOK
<1>5. CASE stage # "main"
  <2>1. stage = "alt_io_redirect" /\ todo \in Seq(StdFds) /\ todo # <<>>
    BY <1>5 DEF IInv, StageInv
  <2>2. CASE Tail(todo) # <<>>
    <3>1. todo' = Tail(todo) /\ stage' = stage
      BY <1>5, <2>2 DEF Opened
    <3>2. todo' \in Seq(StdFds) /\ todo' # <<>>
      BY <2>1, <2>2, <3>1, TailFacts
    <3> QED BY <1>1, <1>2, <1>3, <2>1, <3>1, <3>2 DEF StageInv, IInv, TypeOK
  <2>3. CASE Tail(todo) = <<>>
    <3>1. stage' = Redirected /\ todo' = (IF MainReinits THEN Registered ELSE <<>>)
      BY <1>5, <2>3 DEF Opened
    <3>2. \/ stage' = "main_sys_init" /\ todo' = Registered
          \/ stage' = "main"
      BY <3>1, FilesAssumption DEF Redirected
    <3> QED BY <1>1, <1>2, <1>3, <1>5, <3>2, RegisteredSeq DEF StageInv, IInv, TypeOK
  <2> QED BY <2>2, <2>3
<1> QED BY <1>4, <1>5

\* The inductive invariant holds when alt_main() begins.
THEOREM InitIInv == Init => IInv
<1> SUFFICES ASSUME Init PROVE IInv
  OBVIOUS
<1> DEFINE Link == [next : Nodes \cup {NoDevice}, previous : Nodes \cup {NoDevice}]
<1>1. NullDev \in Nodes /\ DevList \in Nodes /\ NullDev # DevList /\ NullDev # NoDevice /\ NullDev \in Devices
      /\ NullDev \notin Drivers /\ DevList \notin Drivers /\ DevList # NoDevice
  BY FilesAssumption DEF Nodes, Devices, Drivers
<1>2. links \in [Nodes -> Link] /\ links[DevList] = Alone(NullDev) /\ links[NullDev] = Alone(DevList)
      /\ \A n \in Drivers : links[n] = [next |-> NoDevice, previous |-> NoDevice]
  <2>1. \A n \in Nodes : n \in Drivers \/ n = DevList \/ n = NullDev
    BY DEF Nodes, Devices
  <2>2. Alone(NullDev) \in Link /\ Alone(DevList) \in Link /\ [next |-> NoDevice, previous |-> NoDevice] \in Link
    BY <1>1 DEF Alone
  <2>3. Drivers \subseteq Nodes
    BY DEF Nodes, Devices
  <2> QED BY <1>1, <2>1, <2>2, <2>3 DEF Init
<1>3. LinksInv
  <2>1. OnList(DevList) /\ OnList(NullDev) /\ links[DevList].next = NullDev /\ links[NullDev].next = DevList
    BY <1>1, <1>2 DEF OnList, Alone
  <2>2. \A n \in Nodes : OnList(n) => n = DevList \/ n = NullDev
    BY <1>2 DEF OnList, Nodes, Devices
  <2> QED BY <2>1, <2>2 DEF Init, LinksInv
<1>4. /\ fd \in [Fds -> FdType] /\ \A i \in Fds : fd[i].flags = {}
      /\ \A i \in StdFds : fd[i].dev = NullDev
  <2>1. [FreeFd EXCEPT !.dev = NullDev] = [dev |-> NullDev, access |-> "O_RDONLY", flags |-> {}]
    BY DEF FreeFd
  <2>2. [FreeFd EXCEPT !.dev = NullDev] \in FdType
    BY <1>1, <2>1 DEF FdType, Access, Flags
  <2> QED BY <2>1, <2>2, NoCallType, Numerals DEF Init, FreeFd
<1>5. TypeOK
  <2>1. alt_max_fd \in -1 .. MaxFds - 1 /\ rval \in [index : -1 .. MaxFds - 1, errno : Errno]
    BY Numerals DEF Init, Ok, Errno
  <2> QED BY <1>2, <1>4, <2>1, NoCallType DEF Init, TypeOK
<1>6. MaxInv
  BY <1>1, <1>4, Numerals DEF MaxInv, Allocated
<1>7. LockInv
  BY <1>4 DEF LockInv, Holds
<1>8. StageInv
  BY RegisteredSeq DEF Init, StageInv
<1> QED BY <1>3, <1>5, <1>6, <1>7, <1>8 DEF IInv

LEMMA StepIInv == IInv /\ [Next]_vars => IInv'
<1> SUFFICES ASSUME IInv, [Next]_vars PROVE IInv'
  OBVIOUS
<1> USE DEF IInv
<1> DEFINE Link == [next : Nodes \cup {NoDevice}, previous : Nodes \cup {NoDevice}]
<1>0. /\ links \in [Nodes -> Link] /\ fd \in [Fds -> FdType] /\ alt_max_fd \in -1 .. MaxFds - 1
      /\ alt_max_fd \in Int /\ call \in CallType /\ cursor \in Nodes
      /\ stage \in {"alt_sys_init", "alt_io_redirect", "main_sys_init", "main"}
      /\ rval \in [index : -1 .. MaxFds - 1, errno : Errno]
      /\ alt_max_fd <= alt_max_fd
  BY Numerals DEF TypeOK
<1>1. CASE UNCHANGED vars
  <2>1. MaxInv' /\ LockInv'
    BY <1>0, <1>1, SameTable DEF vars
  <2>2. LinksInv'
    <3>1. /\ OnList(DevList) /\ OnList(cursor)
          /\ \A n \in Nodes : OnList(n) => OnList(links[n].next)
      BY DEF LinksInv
    <3> QED BY <1>1, <3>1 DEF LinksInv, OnList, vars
  <2> QED BY <1>1, <2>1, <2>2 DEF vars, TypeOK, StageInv
<1>2. CASE alt_sys_init
  <2>1. /\ stage \in {"alt_sys_init", "main_sys_init"} /\ todo \in Seq(Drivers) /\ todo # <<>>
        /\ alt_dev_reg(Head(todo)) /\ cursor' = cursor /\ fd' = fd /\ alt_max_fd' = alt_max_fd
        /\ call' = call /\ rval' = rval
    BY <1>2 DEF alt_sys_init, StageInv
  <2>2. Head(todo) \in Drivers /\ Tail(todo) \in Seq(Drivers)
    BY <2>1, TailFacts
  <2>3. links' \in [Nodes -> Link] /\ LinksInv'
    BY <2>1, <2>2, Registering
  <2>4. MaxInv' /\ LockInv'
    BY <1>0, <2>1, SameTable
  <2>5. stage' \in {"alt_sys_init", "alt_io_redirect", "main_sys_init", "main"} /\ StageInv'
    <3>1. call = NoCall
      BY <2>1 DEF StageInv
    <3>2. CASE Tail(todo) # <<>>
      BY <1>2, <2>1, <2>2, <3>1, <3>2 DEF alt_sys_init, StageInv
    <3>3. CASE Tail(todo) = <<>> /\ stage = "alt_sys_init"
      BY <1>2, <2>1, <3>1, <3>3, StreamsSeq DEF alt_sys_init, StageInv
    <3>4. CASE Tail(todo) = <<>> /\ stage # "alt_sys_init"
      BY <1>2, <2>1, <3>1, <3>4 DEF alt_sys_init, StageInv
    <3> QED BY <3>2, <3>3, <3>4
  <2> QED BY <1>0, <2>1, <2>3, <2>4, <2>5 DEF TypeOK
<1>3. ASSUME NEW name \in Names, NEW access \in Access, NEW flags \in SUBSET {"O_NONBLOCK"},
             Open(name, access, flags), stage \in {"alt_io_redirect", "main"},
             UNCHANGED <<links, fd, alt_max_fd, stage, todo, rval>>
      PROVE  IInv'
  <2>1. call' = [name |-> name, access |-> access, flags |-> flags] /\ cursor' = links[DevList].next
    BY <1>3 DEF Open
  <2>2. call' \in CallType /\ call'.name \in Names
    BY <2>1 DEF CallType
  <2>3. cursor' \in Nodes /\ OnList(cursor')
    BY <1>0, <2>1, Distinct DEF LinksInv, OnList
  <2>4. LinksInv'
    <3>1. OnList(DevList) /\ \A n \in Nodes : OnList(n) => OnList(links[n].next)
      BY DEF LinksInv
    <3> QED BY <1>3, <2>3, <3>1 DEF LinksInv, OnList
  <2>5. MaxInv' /\ LockInv'
    BY <1>0, <1>3, SameTable
  <2>6. StageInv'
    BY <1>3, <2>2 DEF StageInv
  <2> QED BY <1>0, <1>3, <2>2, <2>3, <2>4, <2>5, <2>6 DEF TypeOK
<1>4. CASE alt_io_redirect
  <2>1. Stdio \in Names
    BY FilesAssumption DEF Names, Devices, Drivers
  <2>2. (IF Head(todo) = 0 THEN "O_RDONLY" ELSE "O_WRONLY") \in Access /\ {} \in SUBSET {"O_NONBLOCK"}
    BY DEF Access
  <2> QED BY <1>3, <1>4, <2>1, <2>2 DEF alt_io_redirect
<1>5. CASE ProgramOpens
  <2>1. ProgramAccess \subseteq Access
    BY FilesAssumption DEF Access
  <2> QED BY <1>3, <1>5, <2>1 DEF ProgramOpens, Idle
<1>6. CASE alt_find_dev
  <2>1. cursor' = links[cursor].next /\ UNCHANGED <<links, fd, alt_max_fd, stage, todo, call, rval>>
    BY <1>6 DEF alt_find_dev
  <2>2. OnList(cursor') /\ cursor' \in Nodes
    BY <1>0, <2>1 DEF LinksInv, OnList
  <2>3. LinksInv'
    <3>1. OnList(DevList) /\ \A n \in Nodes : OnList(n) => OnList(links[n].next)
      BY DEF LinksInv
    <3> QED BY <2>1, <2>2, <3>1 DEF LinksInv, OnList
  <2>4. MaxInv' /\ LockInv'
    BY <1>0, <2>1, SameTable
  <2>5. StageInv'
    BY <2>1 DEF StageInv
  <2> QED BY <1>0, <2>1, <2>2, <2>3, <2>4, <2>5 DEF TypeOK
<1>7. CASE OpenUnknown
  <2>1. call # NoCall /\ Opened(fd, Fails("ENODEV")) /\ alt_max_fd' = alt_max_fd
    BY <1>7 DEF OpenUnknown
  <2>2. Fails("ENODEV") = [index |-> -1, errno |-> "ENODEV"]
    BY DEF Fails
  <2>3. fd' = fd /\ rval' = Fails("ENODEV")
    BY <2>1, <2>2 DEF Opened
  <2>4. rval' \in [index : -1 .. MaxFds - 1, errno : Errno]
    BY <2>2, <2>3, Numerals DEF Errno
  <2>5. /\ call' \in CallType /\ cursor' \in Nodes /\ links' \in [Nodes -> Link]
        /\ stage' \in {"alt_sys_init", "alt_io_redirect", "main_sys_init", "main"}
        /\ stage = "main" => stage' = "main"
        /\ StageInv' /\ LinksInv'
    BY <2>1, Returned
  <2>6. MaxInv' /\ LockInv'
    BY <1>0, <2>1, <2>3, <2>5, SameTable
  <2> QED BY <1>0, <2>1, <2>3, <2>4, <2>5, <2>6 DEF TypeOK
<1>8. CASE OpenFound
  <2>1. call # NoCall /\ cursor = call.name /\ \E table, result : Opened(table, result)
    BY <1>8 DEF OpenFound
  <2>2. /\ call' \in CallType /\ cursor' \in Nodes /\ links' \in [Nodes -> Link]
        /\ stage' \in {"alt_sys_init", "alt_io_redirect", "main_sys_init", "main"}
        /\ stage = "main" => stage' = "main"
        /\ StageInv' /\ LinksInv'
    BY <2>1, Returned
  <2>3. /\ alt_max_fd' \in -1 .. MaxFds - 1 /\ alt_max_fd <= alt_max_fd'
        /\ rval' \in [index : -1 .. MaxFds - 1, errno : Errno]
        /\ fd' = fd \/ \E i \in Fds : Attached(i)
    BY <1>8, OpenOutcome
  <2>4. alt_max_fd' \in Int
    BY <2>3, Numerals
  <2>5. fd' \in [Fds -> FdType] /\ MaxInv' /\ LockInv'
    <3>1. CASE fd' = fd
      BY <1>0, <2>2, <2>3, <2>4, <3>1, SameTable
    <3>2. CASE \E i \in Fds : Attached(i)
      BY <2>1, <2>2, <2>3, <2>4, <3>2, NewEntry
    <3> QED BY <2>3, <3>1, <3>2
  <2> QED BY <2>2, <2>3, <2>5 DEF TypeOK
<1>9. ASSUME NEW table, NEW result \in [index : -1 .. MaxFds - 1, errno : Errno],
             Returns(table, result),
             fd' \in [Fds -> FdType] /\ MaxInv' /\ LockInv'
      PROVE  IInv'
  <2>1. UNCHANGED <<links, alt_max_fd, stage, todo, call, cursor>> /\ rval' = result
    BY <1>9 DEF Returns
  <2>2. LinksInv'
    <3>1. /\ OnList(DevList) /\ OnList(cursor)
          /\ \A n \in Nodes : OnList(n) => OnList(links[n].next)
      BY DEF LinksInv
    <3> QED BY <2>1, <3>1 DEF LinksInv, OnList
  <2>3. StageInv'
    BY <2>1 DEF StageInv
  <2> QED BY <1>0, <1>9, <2>1, <2>2, <2>3 DEF TypeOK
<1>10. /\ Ok(0) \in [index : -1 .. MaxFds - 1, errno : Errno]
       /\ \A e \in Errno : Fails(e) \in [index : -1 .. MaxFds - 1, errno : Errno]
  BY Numerals DEF Ok, Fails, Errno
<1>11. ASSUME NEW i \in Fds, alt_close(i) PROVE IInv'
  <2>1. \E result \in {Ok(0), Fails("EWOULDBLOCK")} : Returns(alt_release_fd(fd, i), result)
    BY <1>11 DEF alt_close
  <2>2. fd' = alt_release_fd(fd, i) /\ alt_max_fd' = alt_max_fd /\ stage' = stage
    BY <2>1 DEF Returns
  <2>3. fd' \in [Fds -> FdType] /\ MaxInv' /\ LockInv'
    BY <2>2, Released
  <2> QED BY <1>9, <1>10, <2>1, <2>3 DEF Errno
<1>12. ASSUME NEW i \in Fds, fd[i].dev # NoDevice, NEW flags \in SUBSET Flags,
              Returns([fd EXCEPT ![i].flags = flags], Ok(0)),
              "ALT_FD_DEV" \in flags <=> "ALT_FD_DEV" \in fd[i].flags,
              "ALT_FD_EXCL" \in flags =>
                 Holds(i) \/ (stage = "main" /\ "ALT_FD_DEV" \in fd[i].flags /\ ~Shared(i))
       PROVE  IInv'
  <2>1. /\ fd' = [fd EXCEPT ![i].flags = flags]
        /\ alt_max_fd' = alt_max_fd /\ stage' = stage
    BY <1>12 DEF Returns
  <2>2. fd' \in [Fds -> FdType] /\ MaxInv' /\ LockInv'
    BY <1>12, <2>1, Flagged
  <2> QED BY <1>9, <1>10, <1>12, <2>2
<1>13. ASSUME NEW i \in Fds, NEW e \in Errno, Returns(fd, Fails(e)) PROVE IInv'
  <2>1. fd' = fd /\ alt_max_fd' = alt_max_fd /\ stage' = stage
    BY <1>13 DEF Returns
  <2>2. MaxInv' /\ LockInv'
    BY <1>0, <2>1, SameTable
  <2> QED BY <1>0, <1>9, <1>10, <1>13, <2>1, <2>2
<1>14. \A i \in Fds : fd[i].flags \in SUBSET Flags
  BY <1>0 DEF FdType, FreeFd, Flags
<1>15. ASSUME NEW i \in Fds, alt_ioctl(i) PROVE IInv'
  <2>1. fd[i].dev # NoDevice /\ stage = "main"
    BY <1>15 DEF alt_ioctl, Idle
  <2>2. CASE "ALT_FD_DEV" \in fd[i].flags /\ alt_fd_lock(i)
    <3>1. CASE Shared(i)
      BY <1>13, <2>2, <3>1 DEF alt_fd_lock, Errno
    <3>2. CASE ~Shared(i)
      <4> DEFINE flags == fd[i].flags \cup {"ALT_FD_EXCL"}
      <4>1. flags \in SUBSET Flags /\ ("ALT_FD_DEV" \in flags <=> "ALT_FD_DEV" \in fd[i].flags)
        BY <1>14 DEF Flags
      <4>2. Returns([fd EXCEPT ![i].flags = flags], Ok(0))
        BY <2>2, <3>2 DEF alt_fd_lock
      <4> HIDE DEF flags
      <4> QED BY <1>12, <2>1, <2>2, <3>2, <4>1, <4>2
    <3> QED BY <3>1, <3>2
  <2>3. CASE alt_fd_unlock(i)
    <3> DEFINE flags == fd[i].flags \ {"ALT_FD_EXCL"}
    <3>1. flags \in SUBSET Flags /\ ("ALT_FD_DEV" \in flags <=> "ALT_FD_DEV" \in fd[i].flags)
          /\ "ALT_FD_EXCL" \notin flags
      BY <1>14 DEF Flags
    <3>2. Returns([fd EXCEPT ![i].flags = flags], Ok(0))
      BY <2>3 DEF alt_fd_unlock
    <3> HIDE DEF flags
    <3> QED BY <1>12, <2>1, <3>1, <3>2
  <2>4. CASE Returns(fd, Fails("ENOTTY"))
    BY <1>13, <2>4 DEF Errno
  <2> QED BY <1>15, <2>2, <2>3, <2>4 DEF alt_ioctl
<1>16. ASSUME NEW i \in Fds, alt_fcntl(i) PROVE IInv'
  <2>1. fd[i].dev # NoDevice
    BY <1>16 DEF alt_fcntl
  <2>2. PICK more \in SUBSET {"O_NONBLOCK"} :
            Returns([fd EXCEPT ![i].flags = (@ \ {"O_NONBLOCK"}) \cup more], Ok(0))
    BY <1>16 DEF alt_fcntl
  <2> DEFINE flags == (fd[i].flags \ {"O_NONBLOCK"}) \cup more
  <2>3. flags \in SUBSET Flags /\ ("ALT_FD_DEV" \in flags <=> "ALT_FD_DEV" \in fd[i].flags)
        /\ ("ALT_FD_EXCL" \in flags => Holds(i))
    BY <1>14 DEF Flags, Holds
  <2>4. Returns([fd EXCEPT ![i].flags = flags], Ok(0))
    BY <2>2
  <2> HIDE DEF flags
  <2> QED BY <1>12, <2>1, <2>3, <2>4
<1> QED BY <1>1, <1>2, <1>4, <1>5, <1>6, <1>7, <1>8, <1>11, <1>15, <1>16 DEF Next

\* The inductive invariant: what the table, the list and the calls under way have in common.
THEOREM Invariance == Spec => []IInv
<1> QED BY InitIInv, StepIInv, PTL DEF Spec

\* Every variable has its type, a free descriptor carries no flags, and the
\* search for a device never leaves the nodes of the list.
THEOREM TypeCorrect == Spec => []TypeOK
<1>1. IInv => TypeOK
  BY DEF IInv
<1> QED BY <1>1, Invariance, PTL

\* A device has at most one exclusive user, although the scan of
\* alt_fd_lock() leaves out the topmost descriptor.
THEOREM OneHolderHolds == Spec => []OneHolder
<1>1. IInv => OneHolder
  <2> SUFFICES ASSUME IInv, NEW i \in Fds, NEW j \in Fds, i # j,
                      fd[i].dev = fd[j].dev, Holds(i), Holds(j)
               PROVE  FALSE
    BY DEF OneHolder
  <2>1. i < j /\ j < i
    BY DEF IInv, LockInv
  <2> QED BY <2>1, Numerals
<1> QED BY <1>1, Invariance, PTL

\* An open() that fails, for whatever reason, leaves the descriptor table as
\* it found it.
THEOREM FailedOpenLeavesNoTrace == Spec => FailedOpenLeavesTable
<1>1. IInv /\ [Next]_vars => [call # NoCall /\ call' = NoCall /\ rval'.index < 0 => fd' = fd]_vars
  <2> SUFFICES ASSUME IInv, Next, call # NoCall, call' = NoCall, rval'.index < 0
               PROVE  fd' = fd
    BY DEF vars
  <2>1. CASE OpenFound
    BY <2>1, OpenOutcome
  <2>2. CASE OpenUnknown
    BY <2>2 DEF OpenUnknown, Opened, Fails
  <2>3. CASE \E i \in Fds : alt_close(i) \/ alt_ioctl(i) \/ alt_fcntl(i)
    BY <2>3 DEF alt_close, alt_ioctl, alt_fcntl, Idle
  <2> QED BY <2>1, <2>2, <2>3 DEF Next, alt_sys_init, alt_io_redirect, alt_find_dev, ProgramOpens, Idle
<1> QED BY <1>1, Invariance, PTL DEF Spec, FailedOpenLeavesTable

-----------------------------------------------------------------------------
(***************************************************************************)
(* Descriptors and TIOCEXCL implement the lock service.                    *)
(***************************************************************************)

\* The holder of a device, without the CHOOSE.
LEMMA HolderFacts ==
  ASSUME IInv, NEW d \in Devices
  PROVE  /\ \A i \in Fds : fd[i].dev = d /\ Holds(i) => Holder[d] = i
         /\ Holder[d] # NoFd =>
               Holder[d] \in Fds /\ fd[Holder[d]].dev = d /\ Holds(Holder[d])
<1>1. ASSUME NEW i \in Fds, fd[i].dev = d, Holds(i) PROVE Holder[d] = i
  <2>1. \A j \in Fds : fd[j].dev = d /\ Holds(j) => j = i
    <3> SUFFICES ASSUME NEW j \in Fds, fd[j].dev = d, Holds(j), j # i PROVE FALSE
      OBVIOUS
    <3>1. i < j /\ j < i
      BY <1>1 DEF IInv, LockInv
    <3> QED BY <3>1, Numerals
  <2>2. Holder[d] = CHOOSE k \in Fds : fd[k].dev = d /\ Holds(k)
    BY <1>1 DEF Holder
  <2>3. (CHOOSE k \in Fds : fd[k].dev = d /\ Holds(k)) \in {k \in Fds : fd[k].dev = d /\ Holds(k)}
    BY <1>1
  <2> QED BY <2>1, <2>2, <2>3
<1>2. ASSUME Holder[d] # NoFd
      PROVE  \E i \in Fds : fd[i].dev = d /\ Holds(i)
  BY <1>2 DEF Holder
<1> QED BY <1>1, <1>2

LEMMA HolderType == Holder = [d \in Devices |-> Holder[d]] /\ At = [i \in Fds |-> fd[i].dev]
BY DEF Holder, At

\* What the lock service sees of a step: who refers to what, and who holds.
LEMMA HolderIs ==
  ASSUME IInv', NEW d \in Devices, NEW i \in Fds, fd'[i].dev = d, "ALT_FD_EXCL" \in fd'[i].flags
  PROVE  Holder'[d] = i
<1>1. Holder' = [e \in Devices |-> IF \E k \in Fds : fd'[k].dev = e /\ "ALT_FD_EXCL" \in fd'[k].flags
                                   THEN CHOOSE k \in Fds : fd'[k].dev = e /\ "ALT_FD_EXCL" \in fd'[k].flags
                                   ELSE NoFd]
  BY DEF Holder, Holds
<1>2. \A j \in Fds : fd'[j].dev = d /\ "ALT_FD_EXCL" \in fd'[j].flags => j = i
  <2> SUFFICES ASSUME NEW j \in Fds, fd'[j].dev = d, "ALT_FD_EXCL" \in fd'[j].flags, j # i PROVE FALSE
    OBVIOUS
  <2>1. \A k, l \in Fds : k # l /\ fd'[k].dev = fd'[l].dev /\ "ALT_FD_EXCL" \in fd'[k].flags => k < l
    BY DEF IInv, LockInv, Holds
  <2>2. i < j /\ j < i
    BY <2>1
  <2> QED BY <2>2, Numerals
<1>3. (CHOOSE k \in Fds : fd'[k].dev = d /\ "ALT_FD_EXCL" \in fd'[k].flags) = i
  BY <1>2
<1> QED BY <1>1, <1>3

LEMMA HolderNone ==
  ASSUME NEW d \in Devices, \A i \in Fds : ~(fd'[i].dev = d /\ "ALT_FD_EXCL" \in fd'[i].flags)
  PROVE  Holder'[d] = NoFd
BY DEF Holder, Holds

LEMMA HolderKept ==
  ASSUME NEW d \in Devices,
         \A i \in Fds : fd'[i].dev = d /\ "ALT_FD_EXCL" \in fd'[i].flags <=> fd[i].dev = d /\ Holds(i)
  PROVE  Holder'[d] = Holder[d]
<1> DEFINE S == {i \in Fds : fd[i].dev = d /\ Holds(i)}
           T == {i \in Fds : fd'[i].dev = d /\ "ALT_FD_EXCL" \in fd'[i].flags}
<1>1. Holder[d] = IF S # {} THEN CHOOSE i \in Fds : fd[i].dev = d /\ Holds(i) ELSE NoFd
  BY DEF Holder
<1>2. Holder'[d] = IF T # {} THEN CHOOSE i \in Fds : fd'[i].dev = d /\ "ALT_FD_EXCL" \in fd'[i].flags ELSE NoFd
  BY DEF Holder, Holds
<1>3. S = T
  OBVIOUS
<1>4. \A i \in Fds : (fd'[i].dev = d /\ "ALT_FD_EXCL" \in fd'[i].flags) = (fd[i].dev = d /\ Holds(i))
  OBVIOUS
<1>5. (CHOOSE i \in Fds : fd[i].dev = d /\ Holds(i)) = (CHOOSE i \in Fds : fd'[i].dev = d /\ "ALT_FD_EXCL" \in fd'[i].flags)
  BY <1>4
<1> QED BY <1>1, <1>2, <1>3, <1>5

LEMMA HolderSame ==
  ASSUME \A i \in Fds : fd'[i].dev = fd[i].dev /\ ("ALT_FD_EXCL" \in fd'[i].flags <=> Holds(i))
  PROVE  Holder' = Holder /\ At' = At
<1>1. At' = At
  BY DEF At
<1>2. \A d \in Devices : Holder'[d] = Holder[d]
  BY HolderKept
<1>3. Holder' = [d \in Devices |-> Holder'[d]]
  BY DEF Holder
<1> QED BY <1>1, <1>2, <1>3, HolderType

LEMMA AttachStep ==
  ASSUME IInv, call # NoCall, cursor = call.name, NEW i \in Fds, Attached(i)
  PROVE  Locks!Attach(i, call.name)
<1>1. /\ fd \in [Fds -> FdType] /\ fd' = [fd EXCEPT ![i] = Entry]
      /\ call.name \in Devices /\ Entry.dev = call.name /\ "ALT_FD_EXCL" \notin Entry.flags
  BY EntryFacts DEF IInv, TypeOK, Attached
<1>2. ~Holds(i) /\ \A j \in Fds \ {i} : ~(fd[j].dev = call.name /\ Holds(j))
  BY DEF Attached
<1>3. fd'[i] = Entry /\ \A j \in Fds \ {i} : fd'[j] = fd[j]
  BY <1>1
<1>4. Holder[call.name] = NoFd
  BY <1>1, <1>2, HolderFacts
<1>5. At[i] # NoDevice => Holder[At[i]] # i
  <2> SUFFICES ASSUME At[i] # NoDevice, Holder[At[i]] = i PROVE FALSE
    OBVIOUS
  <2>1. At[i] = fd[i].dev /\ At[i] \in Devices
    BY <1>1 DEF At, FdType, FreeFd
  <2>2. i # NoFd
    BY Numerals DEF NoFd
  <2> QED BY <1>2, <2>1, <2>2, HolderFacts
<1>6. At' = [At EXCEPT ![i] = call.name]
  BY <1>1, <1>3 DEF At
<1>7. Holder' = Holder
  <2>1. ASSUME NEW d \in Devices PROVE Holder'[d] = Holder[d]
    <3>1. \A j \in Fds : fd'[j].dev = d /\ "ALT_FD_EXCL" \in fd'[j].flags <=> fd[j].dev = d /\ Holds(j)
      BY <1>1, <1>2, <1>3 DEF Holds
    <3> QED BY <3>1, HolderKept
  <2>2. Holder' = [d \in Devices |-> Holder'[d]]
    BY DEF Holder
  <2> QED BY <2>1, <2>2, HolderType
<1> QED BY <1>4, <1>5, <1>6, <1>7 DEF Locks!Attach

\* Closing a descriptor gives its device's lock back, if it has it.
LEMMA DetachStep ==
  ASSUME IInv, NEW i \in Fds, i > 2, fd[i].dev # NoDevice, fd' = alt_release_fd(fd, i)
  PROVE  Locks!Detach(i)
<1>1. fd \in [Fds -> FdType] /\ fd' = [fd EXCEPT ![i] = FreeFd]
  BY DEF IInv, TypeOK, alt_release_fd
<1>2. fd'[i] = FreeFd /\ \A j \in Fds \ {i} : fd'[j] = fd[j]
  BY <1>1
<1>3. FreeFd.dev = NoDevice /\ NoDevice \notin Devices
  BY Distinct DEF FreeFd, Nodes
<1>4. At' = [At EXCEPT ![i] = NoDevice]
  BY <1>1, <1>2, <1>3 DEF At
<1>5. ASSUME NEW d \in Devices
      PROVE  Holder'[d] = IF Holder[d] = i THEN NoFd ELSE Holder[d]
  <2>1. CASE Holder[d] = i
    <3>1. \A j \in Fds \ {i} : ~(fd[j].dev = d /\ Holds(j))
      BY <2>1, HolderFacts
    <3>2. \A j \in Fds : ~(fd'[j].dev = d /\ "ALT_FD_EXCL" \in fd'[j].flags)
      BY <1>2, <1>3, <3>1 DEF Holds
    <3> QED BY <2>1, <3>2, HolderNone
  <2>2. CASE Holder[d] # i
    <3>1. ~(fd[i].dev = d /\ Holds(i))
      BY <2>2, HolderFacts
    <3>2. \A j \in Fds : fd'[j].dev = d /\ "ALT_FD_EXCL" \in fd'[j].flags <=> fd[j].dev = d /\ Holds(j)
      BY <1>2, <1>3, <3>1 DEF Holds
    <3> QED BY <2>2, <3>2, HolderKept
  <2> QED BY <2>1, <2>2
<1>6. Holder' = [d \in Devices |-> Holder'[d]]
  BY DEF Holder
<1>7. Holder' = [d \in Devices |-> IF Holder[d] = i THEN NoFd ELSE Holder[d]]
  BY <1>5, <1>6
<1>8. At[i] # NoDevice
  BY DEF At
<1> QED BY <1>4, <1>7, <1>8 DEF Locks!Detach

\* A change of one descriptor's lock flag alone.
LEMMA FlagStep ==
  ASSUME IInv, NEW i \in Fds, fd[i].dev # NoDevice, NEW flags, fd' = [fd EXCEPT ![i].flags = flags]
  PROVE  /\ At' = At /\ At[i] = fd[i].dev /\ At[i] \in Devices
         /\ fd'[i].flags = flags /\ fd'[i].dev = fd[i].dev
         /\ \A j \in Fds \ {i} : fd'[j] = fd[j]
         /\ \A d \in Devices \ {fd[i].dev} : Holder'[d] = Holder[d]
<1>1. fd \in [Fds -> FdType]
  BY DEF IInv, TypeOK
<1>2. fd[i] \in [dev : Devices, access : Access, flags : SUBSET Flags]
  BY <1>1 DEF FdType, FreeFd
<1>3. fd'[i].flags = flags /\ fd'[i].dev = fd[i].dev /\ \A j \in Fds \ {i} : fd'[j] = fd[j]
  BY <1>1, <1>2
<1>4. At' = At /\ At[i] = fd[i].dev
  BY <1>3 DEF At
<1>5. ASSUME NEW d \in Devices \ {fd[i].dev} PROVE Holder'[d] = Holder[d]
  <2>1. \A j \in Fds : fd'[j].dev = d /\ "ALT_FD_EXCL" \in fd'[j].flags <=> fd[j].dev = d /\ Holds(j)
    BY <1>3 DEF Holds
  <2> QED BY <2>1, HolderKept
<1> QED BY <1>2, <1>3, <1>4, <1>5

\* No open descriptor but the standard ones lies above alt_max_fd, and once it
\* is set they lie below it.
TopInv == /\ alt_max_fd < 0 \/ alt_max_fd > 2
          /\ \A i \in Fds : fd[i].dev # NoDevice => i <= 2 \/ i <= alt_max_fd

LEMMA InitTop == Init => TopInv
<1> SUFFICES ASSUME Init PROVE TopInv
  OBVIOUS
<1>1. ASSUME NEW i \in Fds, fd[i].dev # NoDevice PROVE i <= 2
  <2>1. i \in StdFds
    BY <1>1 DEF Init, FreeFd
  <2> QED BY <2>1, Numerals
<1> QED BY <1>1 DEF TopInv, Init

\* Where open() leaves alt_max_fd.
LEMMA MaxRaised ==
  ASSUME IInv, OpenFound
  PROVE  alt_max_fd' = alt_max_fd \/ alt_max_fd' > 2
<1>1. ASSUME NEW i \in Lowest(Fds \ Allocated(fd)), alt_max_fd' = RaisedMax(i)
      PROVE  alt_max_fd' = alt_max_fd \/ alt_max_fd' > 2
  BY <1>1, FreeFds DEF Lowest, RaisedMax
<1> QED BY <1>1 DEF OpenFound

LEMMA StepTop == IInv /\ TopInv /\ [Next]_vars => TopInv'
<1> SUFFICES ASSUME IInv, TopInv, [Next]_vars PROVE TopInv'
  OBVIOUS
<1>1. fd \in [Fds -> FdType] /\ alt_max_fd \in Int /\ \A i \in Fds : i \in Int
  BY Numerals DEF IInv, TypeOK
<1>2. CASE alt_max_fd' = alt_max_fd /\ \A i \in Fds : fd'[i].dev # NoDevice => fd[i].dev # NoDevice
  BY <1>2 DEF TopInv
<1>3. CASE OpenFound
  <2>1. /\ alt_max_fd' \in Int /\ alt_max_fd <= alt_max_fd'
        /\ fd' = fd \/ \E i \in Fds : Attached(i)
    BY <1>3, OpenOutcome
  <2>2. alt_max_fd' < 0 \/ alt_max_fd' > 2
    BY <1>3, MaxRaised DEF TopInv
  <2>3. ASSUME NEW j \in Fds, fd'[j].dev # NoDevice PROVE j <= 2 \/ j <= alt_max_fd'
    <3>1. CASE fd[j].dev # NoDevice
      BY <1>1, <2>1, <3>1 DEF TopInv
    <3>2. CASE fd[j].dev = NoDevice
      <4>1. PICK i \in Fds : Attached(i)
        BY <2>1, <2>3, <3>2
      <4>2. j = i
        BY <1>1, <2>3, <3>2, <4>1 DEF Attached
      <4> QED BY <4>1, <4>2 DEF Attached
    <3> QED BY <3>1, <3>2
  <2> QED BY <2>2, <2>3 DEF TopInv
<1>4. ASSUME NEW i \in Fds, alt_close(i) PROVE TopInv'
  <2>1. fd' = alt_release_fd(fd, i) /\ alt_max_fd' = alt_max_fd
    BY <1>4 DEF alt_close, Returns
  <2>2. \A j \in Fds : fd'[j].dev # NoDevice => fd[j].dev # NoDevice
    BY <1>1, <2>1 DEF alt_release_fd, FreeFd
  <2> QED BY <1>2, <2>1, <2>2
<1>5. ASSUME NEW i \in Fds, NEW flags, fd' = [fd EXCEPT ![i].flags = flags],
             alt_max_fd' = alt_max_fd, fd[i].dev # NoDevice
      PROVE  TopInv'
  <2>1. \A j \in Fds : fd'[j].dev # NoDevice => fd[j].dev # NoDevice
    BY <1>1, <1>5
  <2> QED BY <1>2, <1>5, <2>1
<1>6. ASSUME NEW i \in Fds, alt_ioctl(i) PROVE TopInv'
  <2>1. alt_max_fd' = alt_max_fd /\ fd[i].dev # NoDevice
    BY <1>6 DEF alt_ioctl, alt_fd_lock, alt_fd_unlock, Returns
  <2>2. \/ fd' = fd
        \/ fd' = [fd EXCEPT ![i].flags = @ \cup {"ALT_FD_EXCL"}]
        \/ fd' = [fd EXCEPT ![i].flags = @ \ {"ALT_FD_EXCL"}]
    BY <1>6 DEF alt_ioctl, alt_fd_lock, alt_fd_unlock, Returns
  <2>3. \/ fd' = fd
        \/ \E flags : fd' = [fd EXCEPT ![i].flags = flags]
    BY <2>2
  <2> QED BY <1>2, <1>5, <2>1, <2>3
<1>7. ASSUME NEW i \in Fds, alt_fcntl(i) PROVE TopInv'
  <2>1. alt_max_fd' = alt_max_fd /\ fd[i].dev # NoDevice
        /\ \E flags : fd' = [fd EXCEPT ![i].flags = flags]
    BY <1>7 DEF alt_fcntl, Returns
  <2> QED BY <1>5, <2>1
<1>8. CASE fd' = fd /\ alt_max_fd' = alt_max_fd
  BY <1>2, <1>8
<1>9. CASE OpenUnknown
  <2>1. fd' = fd /\ alt_max_fd' = alt_max_fd
    BY <1>9 DEF OpenUnknown, Opened, Fails
  <2> QED BY <1>8, <2>1
<1> QED BY <1>3, <1>4, <1>6, <1>7, <1>8, <1>9
        DEF Next, vars, alt_sys_init, alt_io_redirect, alt_find_dev, ProgramOpens

\* What alt_fd_lock() overlooks is the topmost open descriptor.
LEMMA OnlyTopmost ==
  ASSUME IInv, TopInv, NEW i \in Fds, fd[i].dev # NoDevice, "ALT_FD_DEV" \in fd[i].flags,
         ~Shared(i), NEW j \in Fds \ {i}, fd[j].dev = fd[i].dev,
         NEW k \in Fds, fd[k].dev # NoDevice
  PROVE  k <= j
<1>1. i <= alt_max_fd /\ alt_max_fd \in Int
  BY DEF IInv, MaxInv, TypeOK
<1>2. alt_max_fd > 2
  BY <1>1, Numerals DEF TopInv
<1>3. ~(j < alt_max_fd)
  BY DEF Shared
<1>4. k <= 2 \/ k <= alt_max_fd
  BY DEF TopInv
<1> QED BY <1>1, <1>2, <1>3, <1>4, Numerals

LEMMA LockStep ==
  ASSUME IInv, IInv', TopInv, NEW i \in Fds, fd[i].dev # NoDevice, "ALT_FD_DEV" \in fd[i].flags, ~Shared(i),
         fd' = [fd EXCEPT ![i].flags = @ \cup {"ALT_FD_EXCL"}]
  PROVE  Locks!Lock(i) \/ (Holder' = Holder /\ At' = At)
<1> DEFINE d == fd[i].dev
<1>1. /\ At' = At /\ At[i] = d /\ d \in Devices
      /\ "ALT_FD_EXCL" \in fd'[i].flags /\ fd'[i].dev = d
      /\ \A j \in Fds \ {i} : fd'[j] = fd[j]
      /\ \A e \in Devices \ {d} : Holder'[e] = Holder[e]
  <2> DEFINE flags == fd[i].flags \cup {"ALT_FD_EXCL"}
  <2>1. fd' = [fd EXCEPT ![i].flags = flags] /\ "ALT_FD_EXCL" \in flags
    OBVIOUS
  <2> HIDE DEF flags
  <2>2. /\ At' = At /\ At[i] = fd[i].dev /\ At[i] \in Devices
        /\ fd'[i].flags = flags /\ fd'[i].dev = fd[i].dev
        /\ \A j \in Fds \ {i} : fd'[j] = fd[j]
        /\ \A e \in Devices \ {fd[i].dev} : Holder'[e] = Holder[e]
    BY <2>1, FlagStep
  <2> QED BY <2>1, <2>2
<1>2. CASE Holds(i)
  <2>1. \A j \in Fds : fd'[j].dev = fd[j].dev /\ ("ALT_FD_EXCL" \in fd'[j].flags <=> Holds(j))
    BY <1>1, <1>2 DEF Holds
  <2> QED BY <2>1, HolderSame
<1>3. CASE ~Holds(i)
  <2>1. Holder[d] = NoFd
    <3> SUFFICES ASSUME Holder[d] # NoFd PROVE FALSE
      OBVIOUS
    <3>1. PICK k \in Fds : fd[k].dev = d /\ Holds(k)
      BY <1>1, HolderFacts
    <3>2. k # i /\ k < i
      BY <1>3, <3>1 DEF IInv, LockInv
    <3>3. i <= alt_max_fd /\ alt_max_fd \in Int
      BY DEF IInv, MaxInv, TypeOK
    <3>4. k < alt_max_fd
      BY <3>2, <3>3, Numerals
    <3> QED BY <3>1, <3>2, <3>4 DEF Shared
  <2>2. Holder'[d] = i
    BY <1>1, HolderIs
  <2>3. Holder' = [e \in Devices |-> Holder'[e]] /\ Holder = [e \in Devices |-> Holder[e]]
    BY DEF Holder
  <2> HIDE DEF d
  <2>4. Holder' = [Holder EXCEPT ![d] = i]
    BY <1>1, <2>2, <2>3
  <2>5. At[i] # NoDevice /\ Holder[At[i]] = NoFd
    BY <1>1, <2>1, Distinct DEF d, Nodes
  <2>6. \A j \in Locks!Sharers(i) : Locks!Topmost(j)
    BY OnlyTopmost DEF Locks!Sharers, Locks!Topmost, At
  <2> QED BY <1>1, <2>4, <2>5, <2>6 DEF Locks!Lock
<1> QED BY <1>2, <1>3

LEMMA UnlockStep ==
  ASSUME IInv, NEW i \in Fds, fd[i].dev # NoDevice,
         fd' = [fd EXCEPT ![i].flags = @ \ {"ALT_FD_EXCL"}]
  PROVE  Locks!Unlock(i) \/ (Holder' = Holder /\ At' = At)
<1> DEFINE d == fd[i].dev
<1>1. /\ At' = At /\ At[i] = d /\ d \in Devices
      /\ "ALT_FD_EXCL" \notin fd'[i].flags /\ fd'[i].dev = d
      /\ \A j \in Fds \ {i} : fd'[j] = fd[j]
      /\ \A e \in Devices \ {d} : Holder'[e] = Holder[e]
  <2> DEFINE flags == fd[i].flags \ {"ALT_FD_EXCL"}
  <2>1. fd' = [fd EXCEPT ![i].flags = flags] /\ "ALT_FD_EXCL" \notin flags
    OBVIOUS
  <2> HIDE DEF flags
  <2>2. /\ At' = At /\ At[i] = fd[i].dev /\ At[i] \in Devices
        /\ fd'[i].flags = flags /\ fd'[i].dev = fd[i].dev
        /\ \A j \in Fds \ {i} : fd'[j] = fd[j]
        /\ \A e \in Devices \ {fd[i].dev} : Holder'[e] = Holder[e]
    BY <2>1, FlagStep
  <2> QED BY <2>1, <2>2
<1>2. CASE ~Holds(i)
  <2>1. \A j \in Fds : fd'[j].dev = fd[j].dev /\ ("ALT_FD_EXCL" \in fd'[j].flags <=> Holds(j))
    BY <1>1, <1>2 DEF Holds
  <2> QED BY <2>1, HolderSame
<1>3. CASE Holds(i)
  <2>1. Holder[d] = i
    BY <1>1, <1>3, HolderFacts
  <2>2. \A j \in Fds \ {i} : ~(fd[j].dev = d /\ Holds(j))
    BY <1>1, <2>1, HolderFacts
  <2>3. \A j \in Fds : ~(fd'[j].dev = d /\ "ALT_FD_EXCL" \in fd'[j].flags)
    BY <1>1, <2>2 DEF Holds
  <2>4. Holder'[d] = NoFd
    BY <1>1, <2>3, HolderNone
  <2>5. Holder' = [e \in Devices |-> Holder'[e]] /\ Holder = [e \in Devices |-> Holder[e]]
    BY DEF Holder
  <2> HIDE DEF d
  <2>6. Holder' = [Holder EXCEPT ![d] = NoFd]
    BY <1>1, <2>4, <2>5
  <2> QED BY <1>1, <2>1, <2>6, Distinct DEF Locks!Unlock, Nodes
<1> QED BY <1>2, <1>3

LEMMA InitLocks == Init => Locks!Init
<1> SUFFICES ASSUME Init PROVE Locks!Init
  OBVIOUS
<1>1. IInv
  BY InitIInv
<1>2. \A i \in Fds : ~Holds(i)
  BY <1>1 DEF IInv, LockInv, Init
<1>3. Holder = [d \in Devices |-> NoFd]
  BY <1>2 DEF Holder
<1>4. \A i \in Fds : fd[i].dev \in Devices \cup {NoDevice}
  BY <1>1 DEF IInv, TypeOK, FdType, FreeFd
<1> QED BY <1>3, <1>4 DEF Locks!Init, At

LEMMA StepLocks == IInv /\ IInv' /\ TopInv /\ [Next]_vars => [Locks!Next]_(Locks!locks)
<1> SUFFICES ASSUME IInv, IInv', TopInv, [Next]_vars
             PROVE  Locks!Next \/ (Holder' = Holder /\ At' = At)
  BY DEF Locks!locks
<1>1. CASE fd' = fd
  BY <1>1, HolderSame DEF Holds
<1>2. CASE OpenFound
  <2>1. CASE fd' = fd
    BY <1>1, <2>1
  <2>2. ASSUME NEW i \in Fds, Attached(i) PROVE Locks!Next
    <3>1. Locks!Attach(i, call.name) /\ call.name \in Devices
      BY <1>2, <2>2, AttachStep, EntryFacts DEF OpenFound
    <3> QED BY <3>1 DEF Locks!Next
  <2> QED BY <1>2, <2>1, <2>2, OpenOutcome
<1>3. ASSUME NEW i \in Fds, alt_close(i)
      PROVE  Locks!Next \/ (Holder' = Holder /\ At' = At)
  <2>1. fd[i].dev # NoDevice /\ fd' = alt_release_fd(fd, i)
    BY <1>3 DEF alt_close, Returns
  <2>2. CASE i > 2
    <3>1. Locks!Detach(i)
      BY <2>1, <2>2, DetachStep
    <3> QED BY <3>1 DEF Locks!Next
  <2>3. CASE ~(i > 2)
    BY <1>1, <2>1, <2>3 DEF alt_release_fd
  <2> QED BY <2>2, <2>3
<1>4. ASSUME NEW i \in Fds, alt_ioctl(i)
      PROVE  Locks!Next \/ (Holder' = Holder /\ At' = At)
  <2>1. CASE fd' = fd
    BY <1>1, <2>1
  <2>2. CASE fd' # fd /\ alt_fd_lock(i)
    <3>1. /\ fd[i].dev # NoDevice /\ "ALT_FD_DEV" \in fd[i].flags /\ ~Shared(i)
          /\ fd' = [fd EXCEPT ![i].flags = @ \cup {"ALT_FD_EXCL"}]
      BY <1>4, <2>2 DEF alt_ioctl, alt_fd_lock, Returns
    <3>2. Locks!Lock(i) \/ (Holder' = Holder /\ At' = At)
      BY <3>1, LockStep
    <3> QED BY <3>2 DEF Locks!Next
  <2>3. CASE fd' # fd /\ alt_fd_unlock(i)
    <3>1. /\ fd[i].dev # NoDevice
          /\ fd' = [fd EXCEPT ![i].flags = @ \ {"ALT_FD_EXCL"}]
      BY <1>4, <2>3 DEF alt_ioctl, alt_fd_unlock, Returns
    <3>2. Locks!Unlock(i) \/ (Holder' = Holder /\ At' = At)
      BY <3>1, UnlockStep
    <3> QED BY <3>2 DEF Locks!Next
  <2> QED BY <1>4, <2>1, <2>2, <2>3 DEF alt_ioctl, Returns
<1>5. ASSUME NEW i \in Fds, alt_fcntl(i)
      PROVE  Holder' = Holder /\ At' = At
  <2>1. PICK flags \in SUBSET {"O_NONBLOCK"} :
           fd' = [fd EXCEPT ![i].flags = (@ \ {"O_NONBLOCK"}) \cup flags]
    BY <1>5 DEF alt_fcntl, Returns
  <2>2. fd[i].dev # NoDevice
    BY <1>5 DEF alt_fcntl
  <2>3. /\ fd'[i].flags = (fd[i].flags \ {"O_NONBLOCK"}) \cup flags /\ fd'[i].dev = fd[i].dev
        /\ \A j \in Fds \ {i} : fd'[j] = fd[j]
    BY <2>1, <2>2, FlagStep
  <2>4. \A j \in Fds : fd'[j].dev = fd[j].dev /\ ("ALT_FD_EXCL" \in fd'[j].flags <=> Holds(j))
    BY <2>3 DEF Holds
  <2> QED BY <2>4, HolderSame
<1>6. CASE OpenUnknown /\ fd' # fd
  BY <1>6 DEF OpenUnknown, Opened, Fails
<1> QED BY <1>1, <1>2, <1>3, <1>4, <1>5, <1>6
        DEF Next, vars, alt_sys_init, alt_io_redirect, alt_find_dev, ProgramOpens

\* TIOCEXCL is exclusive for as long as it is held: it is granted over nobody but
\* the topmost open descriptor, no descriptor comes to refer to a locked device,
\* whichever way open(), ioctl() and close() are ordered, and the lock ends with
\* the descriptor that took it.
THEOREM ImplementsLocks == Spec => LocksRefined
<1>1. Spec => []IInv
  BY Invariance
<1>2. Spec => []TopInv
  BY <1>1, InitTop, StepTop, PTL DEF Spec
<1> QED BY <1>1, <1>2, InitLocks, StepLocks, PTL DEF Spec, LocksRefined, Locks!Spec

-----------------------------------------------------------------------------
(***************************************************************************)
(* The device list, of a program that initialises the system once.         *)
(***************************************************************************)
Pending == {todo[k] : k \in DOMAIN todo}
ChainInv ==
    /\ stage # "main_sys_init"
    /\ stage = "alt_sys_init" => \A j, k \in DOMAIN todo : todo[j] = todo[k] => j = k
    /\ \E c, n : /\ Chain(links, c, n) /\ c[0] = DevList
                 /\ OnChain(c, n) = IF stage = "alt_sys_init" THEN Devices \ Pending
                                    ELSE Devices

LEMMA NodesFinite == IsFiniteSet(Nodes)
<1>1. IsFiniteSet(DOMAIN Registered)
  <2>1. Len(Registered) \in Nat /\ DOMAIN Registered = 1 .. Len(Registered)
    BY RegisteredSeq
  <2> QED BY <2>1, FS_Interval
<1>2. IsFiniteSet(Drivers)
  <2> DEFINE f == [k \in DOMAIN Registered |-> Registered[k]]
  <2>1. f \in Surjection(DOMAIN Registered, Drivers)
    BY DEF Drivers, Surjection
  <2> QED BY <1>1, <2>1, FS_Surjection
<1>3. IsFiniteSet(Devices)
  BY <1>2, FS_AddElement DEF Devices
<1> QED BY <1>3, FS_AddElement DEF Nodes

LEMMA InitChain == Init => ChainInv
<1> SUFFICES ASSUME Init PROVE ChainInv
  OBVIOUS
<1> DEFINE c == [i \in 0 .. 1 |-> IF i = 0 THEN DevList ELSE NullDev]
<1>1. stage = "alt_sys_init" /\ todo = Registered
  BY DEF Init
<1>2. NullDev # DevList /\ NullDev \in Nodes /\ DevList \in Nodes
      /\ NullDev \notin Drivers /\ DevList \notin Drivers
  BY FilesAssumption DEF Nodes, Devices, Drivers
<1>3. /\ DOMAIN links = Nodes
      /\ links[DevList] = Alone(NullDev) /\ links[NullDev] = Alone(DevList)
  BY <1>2 DEF Init
<1>4. /\ c \in [0 .. 1 -> Nodes] /\ c[0] = DevList /\ c[1] = NullDev
      /\ \A i, j \in 0 .. 1 : c[i] = c[j] => i = j
      /\ \A i \in 0 .. 1 - 1 : i = 0
  BY <1>2
<1> HIDE DEF c
<1>5. Chain(links, c, 1)
  BY <1>3, <1>4 DEF Chain, Alone
<1>6. OnChain(c, 1) = {NullDev}
  BY <1>4 DEF OnChain
<1>7. Pending = Drivers
  BY <1>1 DEF Pending, Drivers
<1>8. OnChain(c, 1) = Devices \ Pending
  BY <1>2, <1>6, <1>7 DEF Devices
<1>9. \A j, k \in DOMAIN todo : todo[j] = todo[k] => j = k
  BY <1>1, FilesAssumption
<1> QED BY <1>1, <1>4, <1>5, <1>8, <1>9 DEF ChainInv

LEMMA ChainStep ==
  ASSUME ~MainReinits, IInv, ChainInv, [Next]_vars
  PROVE  ChainInv'
<1>1. CASE alt_sys_init
  <2>1. /\ stage = "alt_sys_init" /\ todo \in Seq(Drivers) /\ todo # <<>>
        /\ links' = alt_llist_insert(links, DevList, Head(todo))
    BY <1>1 DEF IInv, StageInv, ChainInv, alt_sys_init, alt_dev_reg
  <2>2. PICK c, n : /\ Chain(links, c, n) /\ c[0] = DevList
                    /\ OnChain(c, n) = Devices \ Pending
    BY <2>1 DEF ChainInv
  <2> DEFINE d == Behind(c, n, Head(todo))
  <2>3. /\ DOMAIN todo = 1 .. Len(todo) /\ Len(todo) \in Nat /\ Len(todo) # 0
        /\ Head(todo) = todo[1] /\ 1 \in DOMAIN todo
        /\ Head(todo) \in Pending /\ Head(todo) \in Devices
    BY <2>1 DEF Pending, Devices
  <2>4. n \in Nat /\ \A i \in 0 .. n : c[i] # Head(todo)
    <3>1. n \in Nat /\ DevList \notin Devices
      BY <2>2, FilesAssumption DEF Chain, Devices, Drivers
    <3>2. \A i \in 1 .. n : c[i] # Head(todo)
      BY <2>2, <2>3 DEF OnChain
    <3> QED BY <2>2, <2>3, <3>1, <3>2
  <2>5. Chain(links', d, n + 1) /\ d[0] = DevList
    <3>1. links \in Web(Nodes, Nodes \cup {NoDevice}) /\ Head(todo) \in Nodes
      BY <2>3 DEF IInv, TypeOK, Web, Nodes
    <3>2. Chain(links', d, n + 1)
      BY <2>1, <2>2, <2>4, <3>1, InsertChain
    <3>3. 0 \in 0 .. n + 1
      BY <2>4
    <3> QED BY <2>2, <3>2, <3>3 DEF Behind
  <2>6. OnChain(d, n + 1) = OnChain(c, n) \cup {Head(todo)}
    BY <2>4, InsertMembers
  <2> HIDE DEF d
  <2>7. CASE Tail(todo) # <<>>
    <3>1. todo' = Tail(todo) /\ stage' = "alt_sys_init"
      BY <1>1, <2>1, <2>7 DEF alt_sys_init
    <3>2. /\ Tail(todo) \in Seq(Drivers) /\ Len(Tail(todo)) = Len(todo) - 1
          /\ DOMAIN Tail(todo) = 1 .. Len(todo) - 1
          /\ \A k \in 1 .. Len(todo) - 1 : Tail(todo)[k] = todo[k + 1] /\ k + 1 \in DOMAIN todo
      BY <2>1, <2>3, HeadTailProperties
    <3>3. \A j, k \in DOMAIN todo' : todo'[j] = todo'[k] => j = k
      BY <2>1, <2>3, <3>1, <3>2 DEF ChainInv
    <3>4. Pending' = Pending \ {Head(todo)}
      <4>1. \A x \in Pending' : x \in Pending \ {Head(todo)}
        <5> SUFFICES ASSUME NEW k \in 1 .. Len(todo) - 1
                     PROVE  Tail(todo)[k] \in Pending \ {Head(todo)}
          BY <3>1, <3>2 DEF Pending
        <5>1. Tail(todo)[k] = todo[k + 1] /\ k + 1 \in DOMAIN todo /\ k + 1 # 1
          BY <2>3, <3>2
        <5> QED BY <2>1, <2>3, <5>1 DEF Pending, ChainInv
      <4>2. \A x \in Pending \ {Head(todo)} : x \in Pending'
        <5> SUFFICES ASSUME NEW k \in DOMAIN todo, k # 1 PROVE todo[k] \in Pending'
          BY <2>3 DEF Pending
        <5>1. k - 1 \in 1 .. Len(todo) - 1 /\ (k - 1) + 1 = k
          BY <2>3
        <5>2. Tail(todo)[k - 1] = todo[k]
          BY <3>2, <5>1
        <5> QED BY <3>1, <3>2, <5>1, <5>2 DEF Pending
      <4> QED BY <4>1, <4>2
    <3>5. OnChain(d, n + 1) = Devices \ Pending'
      BY <2>2, <2>3, <2>6, <3>4
    <3> QED BY <2>5, <3>1, <3>3, <3>5 DEF ChainInv
  <2>8. CASE Tail(todo) = <<>>
    <3>1. stage' = "alt_io_redirect"
      BY <1>1, <2>1, <2>8 DEF alt_sys_init
    <3>2. Pending = {Head(todo)}
      <4>1. Len(todo) = 1
        <5>1. Len(Tail(todo)) = Len(todo) - 1 /\ Len(<<>>) = 0
          BY <2>1, HeadTailProperties
        <5> QED BY <2>3, <2>8, <5>1
      <4> QED BY <2>3, <4>1 DEF Pending
    <3>3. OnChain(d, n + 1) = Devices
      BY <2>2, <2>3, <2>6, <3>2
    <3> QED BY <2>5, <3>1, <3>3 DEF ChainInv
  <2> QED BY <2>7, <2>8
<1>2. ASSUME links' = links,
             \/ stage' = stage /\ (stage = "alt_sys_init" => todo' = todo)
             \/ stage # "alt_sys_init" /\ stage' = "main"
      PROVE  ChainInv'
  <2>1. PICK c, n : /\ Chain(links, c, n) /\ c[0] = DevList
                    /\ OnChain(c, n) = IF stage = "alt_sys_init" THEN Devices \ Pending
                                       ELSE Devices
    BY DEF ChainInv
  <2>2. OnChain(c, n) = IF stage' = "alt_sys_init" THEN Devices \ Pending' ELSE Devices
    BY <1>2, <2>1 DEF Pending
  <2>3. Chain(links', c, n)
    BY <1>2, <2>1
  <2> QED BY <1>2, <2>1, <2>2, <2>3 DEF ChainInv
<1>3. CASE OpenUnknown \/ OpenFound
  <2>1. stage # "alt_sys_init"
    BY <1>3 DEF IInv, StageInv, OpenUnknown, OpenFound
  <2>2. PICK table, result : Opened(table, result)
    BY <1>3 DEF OpenUnknown, OpenFound
  <2>3. links' = links /\ (stage' = stage \/ stage' = "main")
    BY <2>2 DEF Opened, Redirected
  <2> QED BY <1>2, <2>1, <2>3
<1>4. CASE alt_io_redirect \/ alt_find_dev \/ ProgramOpens \/ UNCHANGED vars
  BY <1>2, <1>4 DEF alt_io_redirect, alt_find_dev, ProgramOpens, vars
<1>5. CASE \E i \in Fds : alt_close(i) \/ alt_ioctl(i) \/ alt_fcntl(i)
  <2>1. UNCHANGED <<links, stage, todo>>
    BY <1>5 DEF alt_close, alt_ioctl, alt_fcntl, alt_fd_lock, alt_fd_unlock, Returns
  <2> QED BY <1>2, <2>1
<1> QED BY <1>1, <1>3, <1>4, <1>5 DEF Next

\* A walk of the device list ends, and meets every device registered so far and
\* nothing else: in a program whose main() does not register them once more.
THEOREM DevicesAreReachable ==
  ASSUME ~MainReinits
  PROVE  Spec => []DevicesReachable
<1>1. ChainInv /\ IInv => DevicesReachable
  <2> SUFFICES ASSUME IInv, NEW c, NEW n, Chain(links, c, n), c[0] = DevList,
                      OnChain(c, n) = IF stage = "alt_sys_init" THEN Devices \ Pending
                                      ELSE Devices
               PROVE  DevicesReachable
    BY DEF ChainInv
  <2>1. IsFiniteSet(DOMAIN links)
    BY NodesFinite DEF IInv, TypeOK
  <2>2. Members(links, DevList) = OnChain(c, n) /\ Circular(links, DevList)
    BY <2>1, ChainMembers
  <2> QED BY <2>2 DEF DevicesReachable, Pending
<1>2. ChainInv /\ IInv /\ [Next]_vars => ChainInv'
  BY ChainStep
<1>3. Spec => []IInv
  BY Invariance
<1> QED BY <1>1, <1>2, <1>3, InitChain, PTL DEF Spec
=============================================================================
