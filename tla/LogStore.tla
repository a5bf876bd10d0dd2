------------------------------ MODULE LogStore ------------------------------
(***************************************************************************)
(* The Raft log store and state machine of pgvisor-core (storage/wal.rs,   *)
(* engine.rs, state_machine.rs): a write-ahead log file with an index in   *)
(* memory, a metadata file and a state machine file, used by the Raft      *)
(* library and reopened after crashes.                                     *)
(*                                                                         *)
(* A crash is one of the machine: what sync_all has not confirmed may be   *)
(* lost, and the last record may be cut short.  The two small files are    *)
(* replaced by rename and are whole before or after.  An operation that    *)
(* only replaces a file or cuts the log is one step: a crash within it     *)
(* leaves the disk as before or as after it.                               *)
(***************************************************************************)
EXTENDS Naturals, Sequences, SequencesExt

CONSTANTS
  Command,   \* subset of {"set_a", "set_b", "delete", "register", "lead"}
  Term,      \* terms of the leaders that send entries
  NoVote,
  Torn,      \* what is left of a record that was cut short
  MaxIndex,  \* bound on the indexes of entries
  MaxCrashes \* bound on crashes

ASSUME LogAssumption == MaxIndex \in Nat /\ MaxCrashes \in Nat

Entry == [index : 1..MaxIndex, term : Term, command : Command]

VARIABLES
  file,         \* records of wal.bin, in the order written
  synced,       \* how many of them are known to be on disk
  index,        \* Wal.index: position of an entry in the file
  last_log_id,  \* Wal.last_log_id, the index of it, 0 for None
  writing,      \* entries an append has still to write
  appending,    \* an append holds the lock
  meta,         \* LogMetadata in memory
  metaDisk,     \* meta.json
  sm,           \* StateMachine.data in memory
  smDisk,       \* the state machine's file
  up,           \* the process runs
  crashes,
  committed     \* external: the entries the cluster has committed

walVars == <<file, synced, index, last_log_id, writing, appending>>
metaVars == <<meta, metaDisk>>
smVars == <<sm, smDisk>>
storeVars == <<walVars, metaVars, smVars, up, crashes, committed>>

NoMeta == [vote |-> NoVote, purged |-> 0]

NoData == [last_applied |-> 0, value |-> "none", role |-> "none"]

EmptyIndex == [i \in {} |-> 0]

StoreInit ==
  /\ file = <<>> /\ synced = 0
  /\ index = EmptyIndex /\ last_log_id = 0
  /\ writing = <<>> /\ appending = FALSE
  /\ meta = NoMeta /\ metaDisk = NoMeta
  /\ sm = NoData /\ smDisk = NoData
  /\ up = TRUE /\ crashes = 0
  /\ committed = <<>>

-----------------------------------------------------------------------------
(* Opening the store.                                                      *)

\* The records before the first one that is not intact.
Intact(records) ==
  LET bad == {k \in DOMAIN records : records[k] = Torn}
  IN IF bad = {} THEN records ELSE SubSeq(records, 1, Min(bad) - 1)

\* The index a scan of the records builds; a later record of the same index
\* replaces an earlier one.
IndexOf(records) ==
  [i \in {records[k].index : k \in DOMAIN records} |->
     Max({k \in DOMAIN records : records[k].index = i})]

LastOf(records) == IF records = <<>> THEN 0 ELSE Last(records).index

\* Mutant: the torn record stays in the file.
OpenKeepsTorn ==
  /\ ~up
  /\ up' = TRUE
  /\ index' = IndexOf(Intact(file))
  /\ last_log_id' = LastOf(Intact(file))
  /\ meta' = metaDisk
  /\ sm' = smDisk
  /\ UNCHANGED <<file, synced, writing, appending, metaDisk, smDisk, crashes,
                 committed>>

\* Wal::open, LogStoreInner::open and StateMachine::open.
Open ==
  /\ ~up
  /\ up' = TRUE
  /\ file' = Intact(file)
  /\ synced' = IF Intact(file) = file THEN synced ELSE Len(Intact(file))
  /\ index' = IndexOf(Intact(file))
  /\ last_log_id' = LastOf(Intact(file))
  /\ meta' = metaDisk
  /\ sm' = smDisk
  /\ UNCHANGED <<writing, appending, metaDisk, smDisk, crashes, committed>>

\* The machine goes down; k records survive, and perhaps a piece of the next.
Crash(k, torn) ==
  /\ up /\ crashes < MaxCrashes
  /\ k \in synced..Len(file)
  /\ torn => k < Len(file) \/ writing # <<>>
  /\ up' = FALSE
  /\ crashes' = crashes + 1
  /\ file' = SubSeq(file, 1, k) \o (IF torn THEN <<Torn>> ELSE <<>>)
  /\ writing' = <<>> /\ appending' = FALSE
  /\ index' = EmptyIndex /\ last_log_id' = 0
  /\ meta' = NoMeta /\ sm' = NoData
  /\ UNCHANGED <<synced, metaDisk, smDisk, committed>>

-----------------------------------------------------------------------------
(* The write-ahead log.  What the Raft library may ask for is in the       *)
(* guards: it appends behind the last entry it knows, truncates only what  *)
(* is not committed and purges only what the state machine has.            *)

Ready == up /\ ~appending

\* The library's last index: that of the log, or of the purged entries.
LastIndex == Max(DOMAIN index \cup {meta.purged})

\* Entries with the payloads, numbered from behind i on.
After(i, payloads) ==
  [k \in DOMAIN payloads |->
     [index |-> i + k, term |-> payloads[k].term,
      command |-> payloads[k].command]]

BeginAppend(payloads) ==
  /\ Ready
  /\ LastIndex >= sm.last_applied
  /\ LastIndex + Len(payloads) <= MaxIndex
  /\ appending' = TRUE
  /\ writing' = After(LastIndex, payloads)
  /\ UNCHANGED <<file, synced, index, last_log_id, metaVars, smVars, up,
                 crashes, committed>>

\* Mutant: the index is given the offset of the record before.
WriteRecordOffByOne ==
  /\ up /\ writing # <<>>
  /\ LET e == Head(writing) IN
       /\ file' = Append(file, e)
       /\ index' = [i \in DOMAIN index \cup {e.index} |->
                      IF i = e.index THEN Max({Len(file), 1}) ELSE index[i]]
       /\ last_log_id' = e.index
  /\ writing' = Tail(writing)
  /\ UNCHANGED <<synced, appending, metaVars, smVars, up, crashes, committed>>

WriteRecord ==
  /\ up /\ writing # <<>>
  /\ LET e == Head(writing) IN
       /\ file' = Append(file, e)
       /\ index' = [i \in DOMAIN index \cup {e.index} |->
                      IF i = e.index THEN Len(file) + 1 ELSE index[i]]
       /\ last_log_id' = e.index
  /\ writing' = Tail(writing)
  /\ UNCHANGED <<synced, appending, metaVars, smVars, up, crashes, committed>>

\* sync_all, after which the caller's callback is told of the success.
FinishAppend ==
  /\ up /\ appending /\ writing = <<>>
  /\ synced' = Len(file)
  /\ appending' = FALSE
  /\ UNCHANGED <<file, index, last_log_id, writing, metaVars, smVars, up,
                 crashes, committed>>

\* truncate_since cuts the file at the first entry from since on.
Truncate(since) ==
  /\ Ready /\ since > Len(committed)
  /\ LET gone == {i \in DOMAIN index : i >= since}
         kept == DOMAIN index \ gone
     IN /\ gone # {}
        /\ file' = SubSeq(file, 1, index[Min(gone)] - 1)
        /\ synced' = Len(file')
        /\ index' = Restrict(index, kept)
        /\ last_log_id' = Max(kept \cup {0})
  /\ UNCHANGED <<writing, appending, metaVars, smVars, up, crashes, committed>>

\* purge only forgets entries: the file keeps them.
Purge(upto) ==
  /\ Ready
  /\ upto > meta.purged /\ upto <= sm.last_applied
  /\ meta' = [meta EXCEPT !.purged = upto]
  /\ metaDisk' = meta'
  /\ index' = Restrict(index, {i \in DOMAIN index : i > upto})
  /\ UNCHANGED <<file, synced, last_log_id, writing, appending, smVars, up,
                 crashes, committed>>

SaveVote(v) ==
  /\ Ready
  /\ v > meta.vote
  /\ meta' = [meta EXCEPT !.vote = v]
  /\ metaDisk' = meta'
  /\ UNCHANGED <<walVars, smVars, up, crashes, committed>>

-----------------------------------------------------------------------------
(* The state machine.                                                      *)

\* apply_command, for one key and one node.
ApplyCommand(data, command) ==
  CASE command = "set_a" -> [data EXCEPT !.value = "a"]
    [] command = "set_b" -> [data EXCEPT !.value = "b"]
    [] command = "delete" -> [data EXCEPT !.value = "none"]
    [] command = "register" -> [data EXCEPT !.role = "standby"]
    [] command = "lead" -> [data EXCEPT !.role = "leader"]

ApplyEntry(data, e) ==
  [ApplyCommand(data, e.command) EXCEPT !.last_applied = e.index]

\* The entry the log returns for i.
Read(i) == file[index[i]]

\* Mutant: the file is only written with the next snapshot.
ApplyInMemory(n) ==
  /\ Ready
  /\ n \in (sm.last_applied + 1)..Len(committed)
  /\ \A i \in (sm.last_applied + 1)..n : i \in DOMAIN index
  /\ sm' = FoldLeft(ApplyEntry, sm,
             [k \in 1..(n - sm.last_applied) |-> Read(sm.last_applied + k)])
  /\ UNCHANGED <<smDisk, walVars, metaVars, up, crashes, committed>>

\* apply, for the committed entries up to n as the log returns them.
Apply(n) ==
  /\ Ready
  /\ n \in (sm.last_applied + 1)..Len(committed)
  /\ \A i \in (sm.last_applied + 1)..n : i \in DOMAIN index
  /\ sm' = FoldLeft(ApplyEntry, sm,
             [k \in 1..(n - sm.last_applied) |-> Read(sm.last_applied + k)])
  /\ smDisk' = sm'
  /\ UNCHANGED <<walVars, metaVars, up, crashes, committed>>

\* What a state machine that has applied the entries holds.
Replay(entries) == FoldLeft(ApplyEntry, NoData, entries)

\* The leader sends its snapshot of entries this node has not seen committed;
\* entries of its own that are not have been truncated before.
InstallSnapshot(payloads) ==
  /\ Ready
  /\ LastIndex <= Len(committed)
  /\ Len(committed) + Len(payloads) <= MaxIndex
  /\ committed' = committed \o After(Len(committed), payloads)
  /\ sm' = Replay(committed')
  /\ smDisk' = sm'
  /\ UNCHANGED <<walVars, metaVars, up, crashes>>

\* The cluster commits the next entry, which this node has acknowledged.
Commit ==
  /\ Ready
  /\ LET i == Len(committed) + 1 IN
       /\ i \in DOMAIN index /\ index[i] <= synced
       /\ committed' = Append(committed, Read(i))
  /\ UNCHANGED <<walVars, metaVars, smVars, up, crashes>>

-----------------------------------------------------------------------------
Payload == [term : Term, command : Command]

Batches == [1..1 -> Payload] \cup [1..2 -> Payload]

StoreNext ==
  \/ \E k \in 0..MaxIndex, torn \in BOOLEAN : Crash(k, torn)
  \/ Open
  \/ \E payloads \in Batches : BeginAppend(payloads) \/ InstallSnapshot(payloads)
  \/ WriteRecord \/ FinishAppend \/ Commit
  \/ \E i \in 1..MaxIndex : Truncate(i) \/ Purge(i) \/ Apply(i)
  \/ \E v \in Term : SaveVote(v)

StoreSpec == StoreInit /\ [][StoreNext]_storeVars

-----------------------------------------------------------------------------
\* What the store holds or, while the process is down, what it would hold
\* when opened.
Stored == IF up THEN meta ELSE metaDisk

StoredIndex == IF up THEN index ELSE IndexOf(Intact(file))

\* A log store as the Raft library sees it; an entry is acknowledged once the
\* record it is read from is on disk.
Promise == INSTANCE RaftLog WITH
  Vote <- Term,
  log <- [i \in DOMAIN StoredIndex \ 1..Stored.purged |-> file[StoredIndex[i]]],
  acked <- Max({i \in DOMAIN StoredIndex : StoredIndex[i] <= synced}
               \cup {Stored.purged}),
  vote <- Stored.vote,
  purged <- Stored.purged,
  open <- up

\* The store keeps the promise of a log store: the entries behind the purged
\* ones follow each other, and no crash and no reopening loses or changes what
\* append, truncate, purge or save_vote had confirmed.
KeepsPromise == Promise!Spec

\* Every index between the purged entries and the last one can be read, and
\* what is read is the entry of that index.
RangeReadable ==
  up => \A i \in (meta.purged + 1)..LastIndex :
          i \in DOMAIN index /\ index[i] <= Len(file) /\ Read(i).index = i

\* The three files fit together after every crash: what the state machine's
\* file has not applied has not been purged from the log, and the state
\* machine is what the committed entries up to last_applied make of it.
StateRecoverable ==
  /\ metaDisk.purged <= smDisk.last_applied
  /\ smDisk = Replay(SubSeq(committed, 1, smDisk.last_applied))
=============================================================================
