---------------------------- MODULE PreimageFile ----------------------------
(***************************************************************************)
(* The file-backed preimage store of payments/cashu/preimage-store.ts over *)
(* replaceTextFileAtomically (internal/runtime/fs.ts): every create and    *)
(* delete changes the map in memory, writes all of it to one fixed         *)
(* temporary path and renames that over the file.  Opening, writing and    *)
(* renaming are separate asynchronous operations; a writer keeps the inode *)
(* it opened even after somebody else renamed it.                          *)
(***************************************************************************)
EXTENDS Naturals, FiniteSets

CONSTANTS
  Hashes,   \* never drawn twice
  Inodes,   \* files the operating system may create (a bound)
  Slots,    \* store operations in flight at once
  Torn,     \* a text that is not the JSON of any map
  None

VARIABLES
  state,    \* "up", "down", or "broken": the file could not be parsed
  entries,  \* the map in memory
  file,     \* the inode the store's path names, or None
  tmp,      \* the inode the temporary path names, or None
  content,  \* the text of every inode
  ops,      \* the operations in flight
  drawn,    \* hashes drawn so far
  kept,     \* history: hashes create() resolved with, not yet deleted
  gone      \* history: hashes whose delete() resolved

ASSUME PreimageAssumption ==
  /\ None \notin Hashes \union Inodes /\ Torn # None
  /\ \A map \in SUBSET Hashes : map # Torn /\ map # None

vars == <<state, entries, file, tmp, content, ops, drawn, kept, gone>>
history == <<drawn, kept, gone>>
disk == <<file, tmp, content>>

Op == [at : {"open", "write", "rename"}, snap : SUBSET Hashes,
       fd : Inodes \union {None}, new : Hashes \union {None}, old : Hashes \union {None}]

TypeOK ==
  /\ state \in {"up", "down", "broken"}
  /\ entries \subseteq Hashes /\ drawn \subseteq Hashes /\ kept \subseteq drawn /\ gone \subseteq drawn
  /\ file \in Inodes \union {None} /\ tmp \in Inodes \union {None}
  /\ content \in [Inodes -> (SUBSET Hashes) \union {Torn, None}]
  /\ ops \in [Slots -> Op \union {None}]

NoOps == [c \in Slots |-> None]

Init ==
  /\ state = "up" /\ entries = {} /\ file = None /\ tmp = None
  /\ content = [i \in Inodes |-> None] /\ ops = NoOps
  /\ drawn = {} /\ kept = {} /\ gone = {}

-----------------------------------------------------------------------------
Idle(c) == state = "up" /\ ops[c] = None
At(c, await) == ops[c] # None /\ ops[c].at = await

\* Mutant of Save: JSON.stringify of the Map itself, which is {}.
SaveMapItself(c, map, new, old) ==
  ops' = [ops EXCEPT ![c] = [at |-> "open", snap |-> {}, fd |-> None, new |-> new,
                             old |-> old]]

\* saveToPersistence: the whole map is serialised before the first await.
Save(c, map, new, old) ==
  ops' = [ops EXCEPT ![c] = [at |-> "open", snap |-> map, fd |-> None, new |-> new,
                             old |-> old]]

Create(c, h) ==
  /\ Idle(c) /\ h \notin drawn
  /\ drawn' = drawn \union {h} /\ entries' = entries \union {h}
  /\ Save(c, entries', h, None)
  /\ UNCHANGED <<state, disk, kept, gone>>

\* A caller knows a hash once create() resolved with it.
Delete(c, h) ==
  /\ Idle(c) /\ h \in kept
  /\ entries' = entries \ {h} /\ kept' = kept \ {h}
  /\ Save(c, entries', None, h)
  /\ UNCHANGED <<state, disk, drawn, gone>>

\* Mutant of OpenTmp: the store's own path is opened and truncated.
OpenTmpInPlace(c) ==
  /\ At(c, "open")
  /\ \E i \in Inodes :
       /\ IF file # None THEN i = file ELSE content[i] = None
       /\ tmp' = i /\ content' = [content EXCEPT ![i] = Torn]
       /\ ops' = [ops EXCEPT ![c].at = "write", ![c].fd = i]
  /\ UNCHANGED <<state, entries, file, history>>

\* writeTextFile opens path + ".tmp", the same for every writer,
\* creating it or truncating it.
OpenTmp(c) ==
  /\ At(c, "open")
  /\ \E i \in Inodes :
       /\ IF tmp # None THEN i = tmp ELSE content[i] = None
       /\ tmp' = i /\ content' = [content EXCEPT ![i] = Torn]
       /\ ops' = [ops EXCEPT ![c].at = "write", ![c].fd = i]
  /\ UNCHANGED <<state, entries, file, history>>

\* Its text is written from the start: what a longer text already there has
\* beyond its end stays.
Overwrite(old, snap) ==
  IF old # Torn /\ Cardinality(old) > Cardinality(snap) THEN Torn ELSE snap

WriteTmp(c) ==
  /\ At(c, "write")
  /\ content' = [content EXCEPT ![ops[c].fd] = Overwrite(@, ops[c].snap)]
  /\ ops' = [ops EXCEPT ![c].at = "rename"]
  /\ UNCHANGED <<state, entries, file, tmp, history>>

\* create() or delete() resolves.
Resolve(c) ==
  /\ kept' = kept \union ({ops[c].new} \intersect entries)
  /\ gone' = gone \union ({ops[c].old} \ {None})
  /\ ops' = [ops EXCEPT ![c] = None]

\* rename: whatever the temporary path names becomes the file, and the
\* operation resolves.
RenameTmp(c) ==
  /\ At(c, "rename") /\ tmp # None
  /\ file' = tmp /\ tmp' = None /\ Resolve(c)
  /\ UNCHANGED <<state, entries, content, drawn>>

\* The temporary path is gone (NotFound), or the operating system fails one
\* of the operations: the promise rejects, the map in memory stays.
SaveFails(c) ==
  /\ ops[c] # None
  /\ ops' = [ops EXCEPT ![c] = None]
  /\ UNCHANGED <<state, entries, disk, history>>

Crash ==
  /\ state = "up"
  /\ state' = "down" /\ entries' = {} /\ ops' = NoOps
  /\ UNCHANGED <<disk, history>>

\* loadFromPersistence: no file is the empty map, a torn one throws.
Restart ==
  /\ state = "down"
  /\ IF file # None /\ content[file] = Torn
     THEN state' = "broken" /\ UNCHANGED entries
     ELSE /\ state' = "up"
          /\ entries' = IF file = None THEN {} ELSE content[file]
  /\ UNCHANGED <<disk, ops, history>>

Next ==
  \/ Crash \/ Restart
  \/ \E c \in Slots :
       \/ \E h \in Hashes : Create(c, h) \/ Delete(c, h)
       \/ OpenTmp(c) \/ WriteTmp(c) \/ RenameTmp(c) \/ SaveFails(c)

Spec == Init /\ [][Next]_vars

-----------------------------------------------------------------------------
\* What the next process would load.
Loadable == IF file = None THEN {} ELSE content[file]

\* preimage-store.ts: "Writes atomically (temp file + rename) on every
\* create() and delete()": at no moment, crash or not, does the path name a
\* half-written text.
FileIsWhole == Loadable # Torn

\* config.ts: the preimage-store file "Survives restarts": at every moment the
\* file has each preimage whose create() resolved and that nobody deleted, and
\* none whose delete() resolved: no restart loses one or brings one back.
FileIsCurrent ==
  Loadable # Torn => kept \subseteq Loadable /\ Loadable \intersect gone = {}
=============================================================================
