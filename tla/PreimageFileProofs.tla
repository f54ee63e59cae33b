------------------------- MODULE PreimageFileProofs -------------------------
(***************************************************************************)
(* A host that lets one store operation finish before it begins the next   *)
(* has a whole and current file at every moment, for every number of       *)
(* hashes and files, with failing saves, crashes and restarts anywhere.    *)
(* (Overlapping operations tear the file: the run preimage_torn.)          *)
(***************************************************************************)
EXTENDS PreimageFile, TLAPS

Serialized == \A c, d \in Slots : c = d

-----------------------------------------------------------------------------
(* The inductive invariant.                                                *)

\* The temporary path never names the file itself.
Apart ==
  /\ file # None => content[file] \in SUBSET Hashes
  /\ tmp # None => tmp # file /\ content[tmp] # None

\* An operation saves what is in memory, to the inode the temporary path names.
Saving(op) ==
  /\ state = "up" /\ op.snap = entries
  /\ op.old # None => op.old \in drawn \ entries
  /\ op.at # "open" => op.fd = tmp /\ tmp # None
  /\ op.at = "write" => content[tmp] = Torn
  /\ op.at = "rename" => content[tmp] = op.snap

\* What is kept is in the map, and nothing that is gone.
Holds(map) == kept \subseteq map /\ map \intersect gone = {} /\ map \subseteq drawn

Memory == state # "broken" /\ (state = "up" => Holds(entries))

Flights == \A c \in Slots : ops[c] # None => Saving(ops[c])

IInv == TypeOK /\ Apart /\ Memory /\ Holds(Loadable) /\ Flights

-----------------------------------------------------------------------------
\* Nothing is stored at first.
LEMMA InitIInv == Init => IInv
<1> SUFFICES ASSUME Init PROVE IInv
  OBVIOUS
<1> USE PreimageAssumption DEF Init
<1>1. TypeOK
  BY DEF TypeOK, NoOps
<1>2. Apart /\ Memory /\ Holds(Loadable)
  BY DEF Apart, Memory, Holds, Loadable
<1>3. Flights
  BY DEF Flights, NoOps
<1> QED BY <1>1, <1>2, <1>3 DEF IInv

\* The operation in flight is the only one.
LEMMA OnlyFlight ==
  ASSUME Serialized, NEW c \in Slots, NEW op, ops \in [Slots -> Op \union {None}],
         ops' = [ops EXCEPT ![c] = op], op # None => Saving(op)'
  PROVE  Flights'
BY DEF Serialized, Flights

\* Beginning an operation keeps the invariant: its snapshot is the new map.
LEMMA SaveKeeps ==
  ASSUME IInv, Serialized, NEW c \in Slots, NEW h \in Hashes, Create(c, h) \/ Delete(c, h)
  PROVE  IInv'
<1> USE PreimageAssumption DEF IInv
<1> DEFINE new == IF Create(c, h) THEN h ELSE None
           old == IF Create(c, h) THEN None ELSE h
           op == [at |-> "open", snap |-> entries', fd |-> None, new |-> new, old |-> old]
<1>1. /\ state = "up" /\ UNCHANGED <<state, file, tmp, content, gone>>
      /\ drawn \subseteq drawn' /\ drawn' \subseteq Hashes
      /\ kept' \subseteq kept /\ entries' \subseteq Hashes
  BY DEF Create, Delete, Idle, disk, TypeOK
<1>2. ops' = [ops EXCEPT ![c] = op]
  BY DEF Create, Delete, Save
<1>3. Holds(entries)'
  BY <1>1 DEF Create, Delete, Holds, Memory, TypeOK
<1>4. old # None => old \in drawn' \ entries'
  BY DEF Create, Delete, TypeOK
<1>5. op \in Op
  BY <1>1 DEF Op
<1>6. TypeOK'
  BY <1>1, <1>2, <1>3, <1>5 DEF TypeOK, Holds
<1>7. Apart' /\ Memory'
  BY <1>1, <1>3 DEF Apart, Memory
<1>8. Holds(Loadable)'
  BY <1>1 DEF Holds, Loadable
<1>9. op.snap = entries' /\ op.old = old /\ op.at = "open"
  OBVIOUS
<1> HIDE DEF op, old
<1>10. PICK v : v = op
  OBVIOUS
<1>11. Saving(v)'
  BY <1>1, <1>4, <1>9, <1>10 DEF Saving
<1>12. Flights'
  BY <1>2, <1>10, <1>11, OnlyFlight, Zenon DEF TypeOK
<1> QED BY <1>6, <1>7, <1>8, <1>12

\* Opening the temporary path truncates an inode that is not the file.
LEMMA OpenKeeps ==
  ASSUME IInv, Serialized, NEW c \in Slots, OpenTmp(c)
  PROVE  IInv'
<1> USE PreimageAssumption DEF IInv
<1>1. PICK i \in Inodes :
        /\ IF tmp # None THEN i = tmp ELSE content[i] = None
        /\ tmp' = i /\ content' = [content EXCEPT ![i] = Torn]
        /\ ops' = [ops EXCEPT ![c].at = "write", ![c].fd = i]
  BY Zenon DEF OpenTmp
<1>2. ops[c] # None /\ ops[c] \in Op /\ Saving(ops[c])
  BY DEF OpenTmp, At, Flights, TypeOK
<1>3. UNCHANGED <<state, entries, file, drawn, kept, gone>>
  BY DEF OpenTmp, history
<1>4. i # None /\ i # file
  BY <1>1 DEF Apart, TypeOK
<1>a. PICK op : op = [ops[c] EXCEPT !.at = "write", !.fd = i]
  OBVIOUS
<1>5. ops' = [ops EXCEPT ![c] = op]
  BY <1>1, <1>2, <1>a, Zenon DEF TypeOK
<1>6. op \in Op /\ op.snap = ops[c].snap /\ op.old = ops[c].old /\ op.at = "write" /\ op.fd = i
  BY <1>2, <1>a, Zenon DEF Op
<1>7. content' \in [Inodes -> (SUBSET Hashes) \union {Torn, None}]
  BY <1>1 DEF TypeOK
<1>8. TypeOK'
  <2>1. ops' \in [Slots -> Op \union {None}]
    BY <1>5, <1>6 DEF TypeOK
  <2>2. tmp' \in Inodes \union {None}
    BY <1>1
  <2> QED BY <1>3, <1>7, <2>1, <2>2 DEF TypeOK
<1>9. file # None => content'[file] = content[file]
  BY <1>1, <1>4 DEF TypeOK
<1>10. content'[i] = Torn
  BY <1>1 DEF TypeOK
<1>11. Apart' /\ Memory' /\ Holds(Loadable)'
  BY <1>1, <1>3, <1>4, <1>9, <1>10 DEF Apart, Memory, Holds, Loadable
<1>12. Saving(op)'
  BY <1>1, <1>2, <1>3, <1>4, <1>6, <1>10 DEF Saving
<1>13. Flights'
  BY <1>5, <1>12, OnlyFlight, Zenon DEF TypeOK
<1> QED BY <1>8, <1>11, <1>13

\* The text is written over an empty inode: it is whole afterwards.
LEMMA WriteKeeps ==
  ASSUME IInv, Serialized, NEW c \in Slots, WriteTmp(c)
  PROVE  IInv'
<1> USE PreimageAssumption DEF IInv
<1>1. ops[c] # None /\ ops[c] \in Op /\ Saving(ops[c]) /\ ops[c].at = "write"
  BY DEF WriteTmp, At, Flights, TypeOK
<1>2. UNCHANGED <<state, entries, file, tmp, drawn, kept, gone>>
  BY DEF WriteTmp, history
<1>3. ops[c].fd = tmp /\ tmp \in Inodes /\ tmp # file /\ content[tmp] = Torn
  BY <1>1 DEF Saving, Apart, TypeOK
<1>4. content' = [content EXCEPT ![tmp] = entries]
  BY <1>1, <1>3 DEF WriteTmp, Overwrite, TypeOK, Saving
<1>a. PICK op : op = [ops[c] EXCEPT !.at = "rename"]
  BY Zenon
<1>5. ops' = [ops EXCEPT ![c] = op]
  BY <1>1, <1>a DEF WriteTmp, TypeOK
<1>6. /\ op \in Op /\ op.snap = ops[c].snap /\ op.old = ops[c].old /\ op.at = "rename"
      /\ op.fd = ops[c].fd
  BY <1>1, <1>a DEF Op
<1>7. content'[tmp] = entries /\ (file # None => content'[file] = content[file])
  BY <1>3, <1>4 DEF TypeOK
<1>8. TypeOK'
  <2>1. content' \in [Inodes -> (SUBSET Hashes) \union {Torn, None}]
    BY <1>3, <1>4 DEF TypeOK
  <2> QED BY <1>2, <1>5, <1>6, <2>1 DEF TypeOK
<1>9. Apart' /\ Memory' /\ Holds(Loadable)'
  BY <1>2, <1>3, <1>7 DEF Apart, Memory, Holds, Loadable, TypeOK
<1>10. Saving(op)'
  BY <1>1, <1>2, <1>3, <1>6, <1>7 DEF Saving
<1>11. Flights'
  BY <1>5, <1>10, OnlyFlight, Zenon DEF TypeOK
<1> QED BY <1>8, <1>9, <1>11

\* The rename makes the whole text the file, and the operation resolves.
LEMMA RenameKeeps ==
  ASSUME IInv, Serialized, NEW c \in Slots, RenameTmp(c)
  PROVE  IInv'
<1> USE PreimageAssumption DEF IInv
<1>1. ops[c] # None /\ ops[c] \in Op /\ Saving(ops[c]) /\ ops[c].at = "rename"
  BY DEF RenameTmp, At, Flights, TypeOK
<1>2. UNCHANGED <<state, entries, content, drawn>> /\ file' = tmp /\ tmp' = None
  BY DEF RenameTmp
<1>3. /\ kept' = kept \union ({ops[c].new} \intersect entries)
      /\ gone' = gone \union ({ops[c].old} \ {None})
      /\ ops' = [ops EXCEPT ![c] = None]
  BY DEF RenameTmp, Resolve
<1>4. state = "up" /\ tmp \in Inodes /\ tmp # None /\ content[tmp] = entries
  BY <1>1 DEF Saving, TypeOK
<1>5. Holds(entries)'
  BY <1>1, <1>2, <1>3, <1>4 DEF Holds, Memory, Saving
<1>6. TypeOK'
  <2>1. ops' \in [Slots -> Op \union {None}]
    BY <1>3 DEF TypeOK
  <2>2. kept' \subseteq drawn /\ gone' \subseteq drawn
    BY <1>1, <1>2, <1>3, <1>5 DEF TypeOK, Holds, Saving
  <2>3. file' \in Inodes \union {None} /\ tmp' \in Inodes \union {None}
    BY <1>2, <1>4
  <2> QED BY <1>2, <2>1, <2>2, <2>3 DEF TypeOK
<1>7. Apart' /\ Memory'
  BY <1>2, <1>4, <1>5 DEF Apart, Memory, TypeOK
<1>8. Loadable' = entries'
  BY <1>2, <1>4 DEF Loadable
<1>9. Holds(Loadable)'
  BY <1>5, <1>8 DEF Holds
<1>10. Flights'
  BY <1>3, OnlyFlight, Zenon DEF TypeOK
<1> QED BY <1>6, <1>7, <1>9, <1>10

\* A failed save, a crash and a restart keep the invariant.
LEMMA FaultsKeep ==
  ASSUME IInv, Serialized, Crash \/ Restart \/ \E c \in Slots : SaveFails(c)
  PROVE  IInv'
<1> USE PreimageAssumption DEF IInv
<1>1. ASSUME NEW c \in Slots, SaveFails(c) PROVE IInv'
  <2>1. UNCHANGED <<state, entries, file, tmp, content, drawn, kept, gone>>
    BY <1>1 DEF SaveFails, disk, history
  <2>2. ops' = [ops EXCEPT ![c] = None]
    BY <1>1 DEF SaveFails
  <2>3. TypeOK'
    BY <2>1, <2>2 DEF TypeOK
  <2>4. Apart' /\ Memory' /\ Holds(Loadable)'
    BY <2>1 DEF Apart, Memory, Holds, Loadable
  <2>5. Flights'
    BY <2>2, OnlyFlight, Zenon DEF TypeOK
  <2> QED BY <2>3, <2>4, <2>5
<1>2. CASE Crash
  <2>1. UNCHANGED <<file, tmp, content, drawn, kept, gone>> /\ state' = "down"
    BY <1>2 DEF Crash, disk, history
  <2>2. ops' = NoOps /\ entries' = {}
    BY <1>2 DEF Crash
  <2>3. TypeOK'
    BY <2>1, <2>2 DEF TypeOK, NoOps
  <2>4. Apart' /\ Memory' /\ Holds(Loadable)'
    BY <2>1 DEF Apart, Memory, Holds, Loadable
  <2>5. Flights'
    BY <2>2 DEF Flights, NoOps
  <2> QED BY <2>3, <2>4, <2>5
<1>3. CASE Restart
  <2>1. UNCHANGED <<file, tmp, content, drawn, kept, gone, ops>> /\ state = "down"
    BY <1>3 DEF Restart, disk, history
  <2>2. state' = "up" /\ entries' = Loadable
    BY <1>3 DEF Restart, Loadable, Apart
  <2>3. Holds(entries)'
    BY <2>1, <2>2 DEF Holds
  <2>4. TypeOK'
    BY <2>1, <2>2, <2>3 DEF TypeOK, Holds
  <2>5. Apart' /\ Memory' /\ Holds(Loadable)'
    BY <2>1, <2>2, <2>3 DEF Apart, Memory, Holds, Loadable
  <2>6. Flights'
    BY <2>1 DEF Flights, Saving
  <2> QED BY <2>4, <2>5, <2>6
<1> QED BY <1>1, <1>2, <1>3

\* One step, and no step, keeps the invariant.
LEMMA StepKeeps ==
  ASSUME Serialized, IInv, [Next]_vars
  PROVE  IInv'
<1>1. CASE UNCHANGED vars
  <2>1. TypeOK' /\ Apart' /\ Memory' /\ Holds(Loadable)'
    BY <1>1 DEF vars, IInv, TypeOK, Apart, Memory, Holds, Loadable
  <2>2. Flights'
    BY <1>1 DEF vars, IInv, Flights, Saving
  <2> QED BY <2>1, <2>2 DEF IInv
<1> QED
  BY <1>1, SaveKeeps, OpenKeeps, WriteKeeps, RenameKeeps, FaultsKeep DEF Next

\* createFilePreimageStore, replaceTextFileAtomically: when operations do not
\* overlap, the path never names a half-written text, also after a crash.
THEOREM WholeWhenSerialized == Serialized /\ Spec => []FileIsWhole
<1>1. IInv => FileIsWhole
  BY PreimageAssumption DEF IInv, Apart, FileIsWhole, Loadable
<1>2. Serialized /\ IInv /\ [Next]_vars => IInv'
  BY StepKeeps
<1> SUFFICES ASSUME Serialized PROVE Spec => []FileIsWhole
  OBVIOUS
<1>3. IInv /\ [Next]_vars => IInv'
  BY <1>2
<1> QED BY <1>1, <1>3, InitIInv, PTL DEF Spec

\* config.ts's file that "survives restarts": when operations do not overlap,
\* the file always has every preimage kept and none deleted.
THEOREM CurrentWhenSerialized == Serialized /\ Spec => []FileIsCurrent
<1>1. IInv => FileIsCurrent
  BY DEF IInv, Holds, FileIsCurrent
<1>2. Serialized /\ IInv /\ [Next]_vars => IInv'
  BY StepKeeps
<1> SUFFICES ASSUME Serialized PROVE Spec => []FileIsCurrent
  OBVIOUS
<1>3. IInv /\ [Next]_vars => IInv'
  BY <1>2
<1> QED BY <1>1, <1>3, InitIInv, PTL DEF Spec
=============================================================================
