------------------------------- MODULE Volume -------------------------------
(***************************************************************************)
(* The filesystem of fs/src: operations that stage changed blocks in the   *)
(* journal, and a write-back cache between them and a device that may stop *)
(* or refuse a write.                                                      *)
(*                                                                         *)
(* A cached page that is clean holds what the device holds, so the cache   *)
(* is its dirty pages.  A dirty page is written when the filesystem asks   *)
(* for a flush or when any other page needs its frame: WriteBack may take  *)
(* any of them at any time, and a flush is over when none is left.  The    *)
(* device writes a block whole.  Sizes are counted in blocks and entries,  *)
(* the checksum of a transaction is the tuple of what it covers, and the   *)
(* bytes of a file's block are the name of the file that wrote them.       *)
(***************************************************************************)
EXTENDS Integers, Sequences, FiniteSets, FiniteSetsExt, SequencesExt

CONSTANTS
  Names,
  Inodes,            \* 0 .. n, of which 0 is the root
  InodesPerBlock,    \* BLOCK / INODE
  DataBlocks,        \* how many blocks there are for data
  MaxStaged,         \* MAX_STAGED
  Direct,            \* blocks an inode names itself
  TableSlots,        \* BLOCK / 4: blocks its indirect table names
  PerBlock,          \* BLOCK / ENTRY
  RunBlocks,         \* RUN_BLOCKS
  Plays              \* what may happen: see Play

ASSUME VolumeAssumption ==
  /\ Inodes = 0 .. Max(Inodes)
  /\ {InodesPerBlock, DataBlocks, MaxStaged, Direct, TableSlots, PerBlock, RunBlocks}
       \subseteq Nat \ {0}

VARIABLES
  dev,       \* [block -> what the device holds]
  dirty,     \* the dirty pages: [some blocks -> what the cache holds]
  pc,        \* the flush that is under way, "mounted" or "down"
  tx,        \* the transaction being built: its home blocks and their staged copies
  inode,     \* write's inode, staged after the data is on the device
  intended,  \* the metadata the transaction will have made
  fs,        \* the metadata that is acknowledged
  play       \* what may still happen

vars == <<dev, dirty, pc, tx, inode, intended, fs, play>>

-----------------------------------------------------------------------------
(* The layout.                                                              *)

Commit == 0
Log(slot) == slot
BitmapBlock == MaxStaged + 1
InodeBlock(i) == MaxStaged + 2 + i \div InodesPerBlock
DataStart == InodeBlock(Max(Inodes)) + 1
Data == DataStart .. DataStart + DataBlocks - 1
Block == 0 .. DataStart + DataBlocks - 1
NoBlock == 0

Zero == [zero |-> TRUE]
NoEntry == [inode |-> 0, name |-> ""]
EmptyDirectory == [entries |-> [e \in 0 .. PerBlock - 1 |-> NoEntry]]
EmptyTable == [table |-> [s \in 1 .. TableSlots |-> NoBlock]]

FreeInode(generation) ==
  [kind |-> "Free", generation |-> generation, size |-> 0,
   direct |-> [b \in 1 .. Direct |-> NoBlock], indirect |-> NoBlock]

NewInode(kind, generation) == [FreeInode(generation) EXCEPT !.kind = kind]

InodesAt(b) == {i \in Inodes : InodeBlock(i) = b}

\* A formatted device: the root, empty, and every data block free.
Formatted ==
  [b \in Block |->
     IF b = BitmapBlock THEN [used |-> {}]
     ELSE IF InodesAt(b) # {}
       THEN [inodes |-> [i \in InodesAt(b) |->
               IF i = 0 THEN NewInode("Directory", 1) ELSE FreeInode(0)]]
     ELSE Zero]

-----------------------------------------------------------------------------
(* Reading, through the cache or off the device.                            *)

Cached == [b \in Block |-> IF b \in DOMAIN dirty THEN dirty[b] ELSE dev[b]]

InodeIn(view, i) == view[InodeBlock(i)].inodes[i]
UsedIn(view) == view[BitmapBlock].used

\* Filesystem::list: entry e of a directory.
EntryIn(view, d, e) == view[d.direct[e \div PerBlock + 1]].entries[e % PerBlock]
EntriesIn(view, d) == {EntryIn(view, d, e) : e \in 0 .. d.size - 1}

\* The block an inode has at a place, direct or through its table.
BlockNumber(view, node, at) ==
  IF at < Direct THEN node.direct[at + 1]
  ELSE IF node.indirect = NoBlock THEN NoBlock
  ELSE view[node.indirect].table[at - Direct + 1]

\* journal::committed: the commit block describes the payload that is there.
Committed(view) ==
  /\ view[Commit] # Zero
  /\ \A slot \in DOMAIN view[Commit].homes : view[Log(slot)] = view[Commit].sum[slot]

\* What a mount makes of a device: the committed transaction, replayed.
Recovered(view) ==
  IF ~Committed(view) THEN view
  ELSE [b \in Block |->
          LET slots == {s \in DOMAIN view[Commit].homes : view[Commit].homes[s] = b}
          IN IF slots = {} THEN view[b] ELSE view[Log(Max(slots))]]

\* The metadata: what is used, every inode, and every directory's entries.
Metadata(view) ==
  [used |-> UsedIn(view),
   inodes |-> [i \in Inodes |-> InodeIn(view, i)],
   listing |-> [i \in Inodes |->
      LET d == InodeIn(view, i) IN
      IF d.kind = "Directory" THEN [e \in 0 .. d.size - 1 |-> EntryIn(view, d, e)] ELSE <<>>]]

-----------------------------------------------------------------------------
(* Building a transaction.                                                  *)

NoTx == [homes |-> <<>>, copies |-> <<>>]

SlotOf(t, home) == SelectInSeq(t.homes, LAMBDA h : h = home)

\* Faulty: a block staged twice gets a second copy.
StageAgain(t, home) ==
  [homes |-> <<home>> \o t.homes, copies |-> <<Cached[home]>> \o t.copies]

\* Volume::stage: a block that is staged already keeps its slot.
Stage(t, home) ==
  IF SlotOf(t, home) # 0 THEN t
  ELSE [homes |-> Append(t.homes, home), copies |-> Append(t.copies, Cached[home])]

StageBlock(t, home, content) ==
  LET s == Stage(t, home) IN [s EXCEPT !.copies[SlotOf(s, home)] = content]

StageEntry(t, home, e, entry) ==
  LET s == Stage(t, home) IN [s EXCEPT !.copies[SlotOf(s, home)].entries[e] = entry]

StageInode(t, i, node) ==
  LET s == Stage(t, InodeBlock(i)) IN
  [s EXCEPT !.copies[SlotOf(s, InodeBlock(i))].inodes[i] = node]

StageBitmap(t, blocks, used) ==
  LET s == Stage(t, BitmapBlock) IN
  IF blocks = {} THEN t
  ELSE [s EXCEPT !.copies[SlotOf(s, BitmapBlock)].used =
          IF used THEN @ \cup blocks ELSE @ \ blocks]

\* What is there once t is applied over pages changed in place.
Applied(t, pages) ==
  [b \in Block |->
     IF SlotOf(t, b) # 0 THEN t.copies[SlotOf(t, b)]
     ELSE IF b \in DOMAIN pages THEN pages[b] ELSE Cached[b]]

\* Faulty: a transaction is prepared over a committed one.
BeginUnasked == pc = "mounted" /\ play.ops > 0

\* Volume::begin.
Begin == pc = "mounted" /\ play.ops > 0 /\ ~Committed(Cached)

\* The rest of an operation up to its first flush: t staged, pages changed in
\* place, and last the transaction as it will be committed.
Prepare(t, pages, last, flush) ==
  /\ tx' = t
  /\ dirty' = t.copies @@ pages @@ dirty
  /\ intended' = Metadata(Applied(last, pages))
  /\ pc' = flush
  /\ play' = [play EXCEPT !.ops = @ - 1]
  /\ UNCHANGED <<dev, fs>>

NoPages == <<>>

-----------------------------------------------------------------------------
(* The operations.  One that is refused before it stages changes nothing.   *)

\* Volume::free_blocks and free_block_excluding, in the order they find them.
FreeBlocks == SetToSortSeq(Data \ UsedIn(Cached), <)

\* Faulty: the generation starts over.
NextGenerationReset(node) == 1

NextGeneration(node) == node.generation + 1

\* Volume::create.
Create(d, name, kind) ==
  LET parent == InodeIn(Cached, d)
      free == {i \in Inodes : InodeIn(Cached, i).kind = "Free"}
      i == Min(free)
      which == parent.size % PerBlock
      at == parent.size \div PerBlock + 1
      block == IF which = 0 THEN FreeBlocks[1] ELSE parent.direct[at]
      t1 == IF which = 0 THEN StageBlock(StageBitmap(NoTx, {block}, TRUE), block, EmptyDirectory)
            ELSE NoTx
      t2 == StageEntry(t1, block, which, [inode |-> i, name |-> name])
      t3 == StageInode(t2, d, [parent EXCEPT !.size = @ + 1, !.direct[at] = block])
      t4 == StageInode(t3, i, NewInode(kind, NextGeneration(InodeIn(Cached, i))))
  IN
  /\ Begin
  /\ parent.kind = "Directory" /\ at <= Direct /\ free # {}
  /\ \A e \in EntriesIn(Cached, parent) : e.name # name
  /\ which = 0 => FreeBlocks # <<>>
  /\ Prepare(t4, NoPages, t4, "payload")
  /\ UNCHANGED inode

\* The blocks before the first hole.
Led(blocks) == {blocks[k] : k \in {k \in DOMAIN blocks : \A j \in 1 .. k : blocks[j] # NoBlock}}

\* Volume::free_contents.
Contents(node) ==
  Led(node.direct) \cup
  (IF node.indirect = NoBlock THEN {}
   ELSE {node.indirect} \cup Led(Cached[node.indirect].table))

\* Volume::remove: the last entry is moved into the hole.
RemoveEntry(d, name) ==
  LET parent == InodeIn(Cached, d)
      places == {e \in 0 .. parent.size - 1 : EntryIn(Cached, parent, e).name = name}
      e == Min(places)
      i == EntryIn(Cached, parent, e).inode
      victim == InodeIn(Cached, i)
      t1 == StageEntry(NoTx, parent.direct[e \div PerBlock + 1], e % PerBlock,
                       EntryIn(Cached, parent, parent.size - 1))
      t2 == StageInode(t1, d, [parent EXCEPT !.size = @ - 1])
      t3 == StageInode(t2, i, FreeInode(victim.generation))
      t4 == StageBitmap(t3, Contents(victim), FALSE)
  IN
  /\ Begin
  /\ parent.kind = "Directory" /\ places # {}
  /\ victim.kind = "Directory" => victim.size = 0
  /\ Prepare(t4, NoPages, t4, "payload")
  /\ UNCHANGED inode

\* Volume::truncate.
Truncate(i) ==
  LET file == InodeIn(Cached, i)
      t1 == StageBitmap(NoTx, Contents(file), FALSE)
      t2 == StageInode(t1, i, NewInode("File", file.generation))
  IN
  /\ Begin
  /\ file.kind = "File"
  /\ file.size # 0 \/ file.indirect # NoBlock \/ file.direct[1] # NoBlock
  /\ Prepare(t2, NoPages, t2, "payload")
  /\ UNCHANGED inode

\* Faulty: the last block of the run is left out.
DataPagesShort(places, text) ==
  [b \in Range(places) \ {places[Max(DOMAIN places)]} |-> text]

\* The data, in the cache and at its homes.
DataPages(places, text) == [b \in Range(places) |-> text]

\* The common part of write and write_run: places[at] is the block for place at,
\* table the inode's indirect block.  Data and table are changed in place.
WriteBlocks(i, places, table) ==
  LET file == InodeIn(Cached, i)
      node == [file EXCEPT
                 !.size = Max({file.size} \cup {at + 1 : at \in DOMAIN places}),
                 !.direct = [k \in 1 .. Direct |->
                               IF k - 1 \in DOMAIN places THEN places[k - 1] ELSE @[k]],
                 !.indirect = table]
      old == IF table = file.indirect /\ table # NoBlock THEN Cached[table] ELSE EmptyTable
      new == [table |-> [s \in 1 .. TableSlots |->
                IF Direct + s - 1 \in DOMAIN places THEN places[Direct + s - 1] ELSE old.table[s]]]
      fresh == {places[at] : at \in {at \in DOMAIN places : BlockNumber(Cached, file, at) = NoBlock}}
                 \cup ({table} \ {file.indirect})
      pages == DataPages(places, [text |-> <<i, file.generation>>])
               @@ (IF table = NoBlock \/ (new = old /\ table = file.indirect) THEN NoPages
                   ELSE table :> new)
      t == StageBitmap(NoTx, fresh, TRUE)
  IN
  /\ inode' = [index |-> i, node |-> node]
  /\ Prepare(t, pages, StageInode(t, i, node), "data")

\* Volume::write: one block, and the table before it if there is none.
Write(i, at) ==
  LET file == InodeIn(Cached, i)
      newTable == at >= Direct /\ file.indirect = NoBlock
      existing == BlockNumber(Cached, file, at)
      first == IF newTable THEN 2 ELSE 1
  IN
  /\ Begin
  /\ file.kind = "File"
  /\ existing = NoBlock => Len(FreeBlocks) >= first
  /\ WriteBlocks(i, at :> (IF existing = NoBlock THEN FreeBlocks[first] ELSE existing),
                 IF newTable THEN FreeBlocks[1] ELSE file.indirect)

\* Volume::write_run: whole blocks from first on, as many as there is room for,
\* and the table after them.
WriteRun(i, first, asked) ==
  LET file == InodeIn(Cached, i)
      whole == Min({asked, RunBlocks, Direct + TableSlots - first})
      run(n) == first .. first + n - 1
      holes(n) == {at \in run(n) : BlockNumber(Cached, file, at) = NoBlock}
      wanted == Cardinality(holes(whole))
      newTable == first + whole > Direct /\ file.indirect = NoBlock
      found == Min({wanted + (IF newTable THEN 1 ELSE 0), Len(FreeBlocks)})
      room == IF newTable THEN found - 1 ELSE found
      allowed == Max({n \in 0 .. whole : Cardinality(holes(n)) <= room})
      nth(at) == Cardinality({h \in holes(whole) : h <= at})
  IN
  /\ Begin
  /\ file.kind = "File"
  /\ newTable => found >= 1
  /\ wanted > 0 => room > 0
  /\ allowed > 0
  /\ WriteBlocks(i, [at \in run(allowed) |-> IF at \in holes(whole) THEN FreeBlocks[nth(at)]
                                             ELSE BlockNumber(Cached, file, at)],
                 IF newTable THEN FreeBlocks[found] ELSE file.indirect)

-----------------------------------------------------------------------------
(* The flushes of a transaction, and what follows each.                     *)

\* Cache::write_back, in a flush or to make room: the one way to the device.
WriteBack(b) ==
  /\ b \in DOMAIN dirty
  /\ dev' = [dev EXCEPT ![b] = dirty[b]]
  /\ dirty' = Restrict(dirty, DOMAIN dirty \ {b})
  /\ fs' = IF b = Commit /\ dirty[b] # Zero THEN intended ELSE fs
  /\ UNCHANGED <<pc, tx, inode, intended, play>>

Flushed(flush) == pc = flush /\ DOMAIN dirty = {}

\* write, after the data is on the device: the inode is staged.
DataFlushed ==
  /\ Flushed("data")
  /\ tx' = StageInode(tx, inode.index, inode.node)
  /\ dirty' = tx'.copies
  /\ pc' = "payload"
  /\ UNCHANGED <<dev, inode, intended, fs, play>>

\* Volume::commit, step 2: the commit block, over the payload as it is.
PayloadFlushed ==
  /\ Flushed("payload")
  /\ dirty' = Commit :> [homes |-> tx.homes,
                         sum |-> [slot \in DOMAIN tx.homes |-> Cached[Log(slot)]]]
  /\ pc' = "commit"
  /\ UNCHANGED <<dev, tx, inode, intended, fs, play>>

\* The logged blocks, copied to their homes in the cache.
HomePages(view) ==
  LET homes == view[Commit].homes IN
  [b \in Range(homes) |-> view[Log(Max({slot \in DOMAIN homes : homes[slot] = b}))]]

\* Volume::commit, step 3.
CommitFlushed ==
  /\ Flushed("commit")
  /\ dirty' = HomePages(Cached)
  /\ pc' = "home"
  /\ UNCHANGED <<dev, tx, inode, intended, fs, play>>

\* Volume::clear_commit, once the homes are on the device.
HomeFlushed(flush, next) ==
  /\ Flushed(flush)
  /\ dirty' = Commit :> Zero
  /\ pc' = next
  /\ UNCHANGED <<dev, tx, inode, intended, fs, play>>

Cleared ==
  /\ Flushed("clearing") \/ Flushed("reclearing")
  /\ pc' = "mounted" /\ tx' = NoTx
  /\ UNCHANGED <<dev, dirty, inode, intended, fs, play>>

\* Faulty: a commit block that does not describe the payload is refused.
MountStrict ==
  /\ pc = "down" \/ (pc = "mounted" /\ Committed(Cached))
  /\ Cached[Commit] = Zero \/ Committed(Cached)
  /\ IF Committed(Cached)
       THEN dirty' = HomePages(Cached) @@ dirty /\ pc' = "replay"
       ELSE pc' = "mounted" /\ UNCHANGED dirty
  /\ UNCHANGED <<dev, tx, inode, intended, fs, play>>

\* Volume::mount, after a stop or by a caller whose operation failed: what is
\* committed is replayed.
Mount ==
  /\ pc = "down" \/ (pc = "mounted" /\ Committed(Cached))
  /\ IF Committed(Cached)
       THEN dirty' = HomePages(Cached) @@ dirty /\ pc' = "replay"
       ELSE pc' = "mounted" /\ UNCHANGED dirty
  /\ UNCHANGED <<dev, tx, inode, intended, fs, play>>

\* The machine stops, and the cache is gone.
Crash ==
  /\ play.crashes > 0 /\ pc # "down"
  /\ play' = [play EXCEPT !.crashes = @ - 1]
  /\ pc' = "down" /\ dirty' = NoPages /\ tx' = NoTx
  /\ UNCHANGED <<dev, inode, intended, fs>>

\* The store refuses a write.  The operation fails and the caller keeps the
\* cache; a mount that fails is the end of the service, and of its cache.
StoreRefuses ==
  /\ play.errors > 0 /\ pc \in play.refused /\ DOMAIN dirty # {}
  /\ play' = [play EXCEPT !.errors = @ - 1]
  /\ tx' = NoTx
  /\ IF pc \in {"replay", "reclearing"} THEN pc' = "down" /\ dirty' = NoPages
     ELSE pc' = "mounted" /\ UNCHANGED dirty
  /\ UNCHANGED <<dev, inode, intended, fs>>

Places == 0 .. play.places - 1

Operate ==
  \/ \E d \in Inodes, name \in Names :
       RemoveEntry(d, name) \/ \E kind \in {"File", "Directory"} : Create(d, name, kind)
  \/ \E i \in Inodes :
       \/ Truncate(i)
       \/ /\ InodeIn(Cached, i).indirect = NoBlock \/ play.grows
          /\ \E at \in Places : Write(i, at) \/ (play.runs /\ WriteRun(i, at, play.places - at))

Step ==
  \/ \E b \in Block : WriteBack(b)
  \/ DataFlushed \/ PayloadFlushed \/ CommitFlushed
  \/ HomeFlushed("home", "clearing") \/ HomeFlushed("replay", "reclearing") \/ Cleared
  \/ Mount

Next == Operate \/ Step \/ Crash \/ StoreRefuses

Init ==
  /\ play \in Plays
  /\ dev = Formatted /\ dirty = NoPages /\ pc = "mounted" /\ tx = NoTx
  /\ inode = [index |-> 0, node |-> FreeInode(0)]
  /\ fs = Metadata(Formatted) /\ intended = fs

Spec == Init /\ [][Next]_vars
FairSpec == Spec /\ WF_vars(Step)

-----------------------------------------------------------------------------
(* Properties.                                                              *)

Flushes == {"data", "payload", "commit", "home", "clearing", "replay", "reclearing"}

Play == [ops : Nat, crashes : Nat, errors : Nat, refused : SUBSET Flushes,
         places : 0 .. Direct + TableSlots, runs : BOOLEAN,
         grows : BOOLEAN]  \* whether a file that has a table is written again

TypeOK ==
  /\ DOMAIN dev = Block /\ DOMAIN dirty \subseteq Block
  /\ pc \in Flushes \cup {"mounted", "down"}
  /\ tx.homes \in Seq(Block) /\ Len(tx.homes) = Len(tx.copies) /\ Len(tx.homes) <= MaxStaged
  /\ DOMAIN fs.inodes = Inodes /\ fs.used \subseteq Data
  /\ play \in Play

\* What the next mount finds.  A table that grows is changed in place and ahead of
\* its transaction: where that happens, what operations find at rest.
OnDevice == Recovered(dev)
Found == IF ~play.grows \/ pc = "mounted" THEN {OnDevice} ELSE {}

Live == {i \in Inodes : fs.inodes[i].kind # "Free"}

Naming(i) ==
  {<<d, e>> \in Inodes \X (0 .. Direct * PerBlock - 1) :
     e \in DOMAIN fs.listing[d] /\ fs.listing[d][e].inode = i}

\* The directories are a tree: every live inode but the root is under one name,
\* no name stands for a free one, and no directory has a name twice.
TreeSound ==
  /\ fs.inodes[0].kind = "Directory"
  /\ \A i \in Inodes : Cardinality(Naming(i)) = IF i \in Live \ {0} THEN 1 ELSE 0
  /\ \A d \in Inodes : \A e, f \in DOMAIN fs.listing[d] :
       fs.listing[d][e].name = fs.listing[d][f].name => e = f

\* Every block an inode holds, the table and what it names included.
Held(view, i) ==
  LET node == InodeIn(view, i)
      table == IF node.indirect = NoBlock THEN <<>> ELSE <<node.indirect>> \o view[node.indirect].table
  IN SelectSeq(node.direct \o table, LAMBDA b : b # NoBlock)

\* A block that is held is marked used, and is held once.
BlocksOwnedOnce ==
  \A view \in Found, i \in Live :
    /\ IsInjective(Held(view, i))
    /\ Range(Held(view, i)) \subseteq UsedIn(view)
    /\ \A j \in Live \ {i} : Range(Held(view, i)) \cap Range(Held(view, j)) = {}

\* Whatever instant the machine stops at, the next mount finds a filesystem in
\* which the directories are a tree and no block is shared or free while held:
\* Volume::create, write, write_run, remove and truncate over commit and recover.
VolumeInv == TypeOK /\ TreeSound /\ BlocksOwnedOnce

\* The metadata the next mount finds is that of the last transaction whose commit
\* block reached the device, whole, and of none after it: "Everything before this
\* instant is provisional and everything after it is certain" (Volume::commit).
Durable == Metadata(OnDevice) = fs

\* A block a file holds has that file's bytes: the data is on the device before
\* the commit that points an inode at it (Volume::write, write_run).
OwnBytes ==
  \A view \in Found, i \in Live : \A at \in 0 .. fs.inodes[i].size - 1 :
    fs.inodes[i].kind = "File" /\ BlockNumber(view, fs.inodes[i], at) # NoBlock =>
      view[BlockNumber(view, fs.inodes[i], at)] = [text |-> <<i, fs.inodes[i].generation>>]

\* A slot's generation never goes back, and a slot that is used again has a new
\* one, so that a capability to the file it held names nothing (create, remove,
\* truncate, through crashes).
GenerationsGrow ==
  [][\A i \in Inodes :
       /\ fs'.inodes[i].generation >= fs.inodes[i].generation
       /\ i \notin Live /\ i \in Live' => fs'.inodes[i].generation > fs.inodes[i].generation]_fs

\* After a stop or a refused write the filesystem is mounted again with nothing
\* pending, once the device goes on serving writes (Volume::mount, recover).
RecoveryEnds == []<>(pc = "mounted" /\ ~Committed(Cached))

-----------------------------------------------------------------------------
(* What the comments say and the code does not do.                          *)

\* "Frees every block a file holds" (free_contents): what no inode holds is free.
NothingLeaks ==
  pc = "mounted" =>
    UsedIn(OnDevice) = UNION {Range(Held(OnDevice, i)) : i \in Live}

\* "A crash between the two leaks a block, which is the safe direction" (write):
\* after it no block is in two files.
CrashOnlyLeaks ==
  pc = "mounted" =>
    \A i, j \in Live : i # j => Range(Held(OnDevice, i)) \cap Range(Held(OnDevice, j)) = {}
=============================================================================
