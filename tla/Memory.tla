-------------------------------- MODULE Memory --------------------------------
(***************************************************************************)
(* Memory objects: frames a capability names, mapped into address spaces   *)
(* and a device's window, and taken out of all of them when the object or  *)
(* a lending is revoked.  shared.rs, the parts of vm.rs and iommu.rs it    *)
(* calls, and the shootdown of tlb.rs.  Threads run on processors, are     *)
(* moved between them, and each processor caches translations.             *)
(***************************************************************************)
EXTENDS Integers, Sequences, FiniteSets, FiniteSetsExt, SequencesExt

CONSTANTS
  Threads, Cpus, Spaces, Frames,
  NoThread, NoFrame, NoSpace,
  MaxObjects,  \* MAX_OBJECTS
  MaxPages,    \* MAX_FRAMES
  Addresses,   \* of the device's window
  Plays        \* what may happen in one behaviour: see play

Scratch == -1
Slots == 1 .. MaxObjects
Pages == 1 .. MaxPages

VARIABLES
  objects,     \* ARENA
  regions,     \* space -> what its region map says of the one range it maps at:
               \* the slot of a shared backing, 0 for nothing, Scratch
  table,       \* space -> page -> frame: the page table
  window,      \* device address -> the frames the device reaches there
  free,        \* the frames of the allocator
  charged,     \* space -> frames charged to its domain
  spaces,      \* SPACES: the thread that holds it
  sender,      \* SENDER: the thread that holds it
  address,     \* ADDRESS: the space whose range it is in, and the page
  pending,     \* PENDING
  ipi,         \* processors with the shootdown's interrupt to take
  on, loaded,  \* processor -> thread it runs, space in CR3
  tlb,         \* processor -> page -> frame
  calls,       \* thread -> the call it is in
  play         \* the space of each thread, the pages of an object, the limit on
               \* mappings, the frames a domain may have, the spaces that keep revoked ranges;
               \* the calls still to come, which and whose; the time-outs still to come;
               \* whether threads are moved, whether two calls may be at one object,
               \* whether memory may run out in a map

arena == <<objects>>
maps == <<regions, table, window>>
ledger == <<free, charged>>
ipis == <<sender, address, pending, ipi>>
cores == <<on, loaded, tlb>>
vars == <<objects, regions, table, window, free, charged, spaces, sender, address, pending,
          ipi, on, loaded, tlb, calls, play>>

NoDevice == [at |-> 0, mapper |-> NoSpace]
NoPages == [p \in Pages |-> NoFrame]
Dead == [live |-> FALSE, gen |-> 0, frames |-> <<>>, owner |-> NoSpace, mappings |-> {},
         device |-> NoDevice]
User == [pc |-> "user", slot |-> 0, gen |-> 0, frames |-> <<>>, todo |-> {}, at |-> NoSpace,
         page |-> 0, dev |-> 0, dies |-> FALSE, owner |-> NoSpace]

Cpu(t) == CHOOSE c \in Cpus : on[c] = t
Mine(t) == play.space[t]

\* resolve.
Resolves(slot, gen) == objects[slot].live /\ objects[slot].gen = gen

\* The names a thread may hold: of the object in a slot, or of one before it.
Names == {<<s, g>> \in Slots \X (0 .. Cardinality(Frames)) : g <= objects[s].gen}

\* Calls under way that give somebody the object in a slot, or take it away.
Giving(slot) == \E t \in Threads : calls[t].slot = slot /\ calls[t].pc \in {"pages", "record", "window", "enter"}
Taking(slot) == \E t \in Threads : calls[t].slot = slot /\ calls[t].pc \in {"space", "page", "send", "wait", "destroy"}

\* allocate_frame, often enough.  One frame is as good as another.
Allocate(n) == CHOOSE s \in kSubset(n, free) : TRUE

Begin(t, what) ==
  /\ calls[t].pc = "user" /\ play.starts > 0 /\ t \in play.by /\ what \in play.ops
  /\ play' = [play EXCEPT !.starts = @ - 1]

Go(t, call) == calls' = [calls EXCEPT ![t] = call]
Return(t) == Go(t, User)

Init ==
  /\ play \in Plays
  /\ objects = [s \in Slots |-> Dead]
  /\ regions = [x \in Spaces |-> 0]
  /\ table = [x \in Spaces |-> NoPages]
  /\ window = [a \in Addresses |-> {}] /\ free = Frames /\ charged = [x \in Spaces |-> 0]
  /\ spaces = NoThread /\ sender = NoThread /\ address = <<NoSpace, 0>> /\ pending = 0 /\ ipi = {}
  /\ on = play.on
  /\ loaded = [c \in Cpus |-> play.space[on[c]]]
  /\ tlb = [c \in Cpus |-> NoPages]
  /\ calls = [t \in Threads |-> User]

-----------------------------------------------------------------------------
(* create, in two steps: the frames are taken before the arena.             *)

TakeFrames(t) ==
  /\ Begin(t, "create")
  /\ \/ /\ Cardinality(free) >= play.pages /\ charged[Mine(t)] + play.pages <= play.quota
        /\ \E fs \in {SetToSeq(Allocate(play.pages))} :
             /\ Go(t, [User EXCEPT !.pc = "claim", !.frames = fs])
             /\ free' = free \ ToSet(fs)
        /\ charged' = [charged EXCEPT ![Mine(t)] = @ + play.pages]
     \/ /\ Cardinality(free) < play.pages \/ charged[Mine(t)] + play.pages > play.quota
        /\ UNCHANGED <<calls, ledger>>
  /\ UNCHANGED <<arena, maps, spaces, ipis, cores>>

GiveBack(owner, frames) ==
  /\ free' = free \cup ToSet(frames)
  /\ charged' = [charged EXCEPT ![owner] = @ - Len(frames)]

\* Mutant: with no slot left the frames go back and the charge stays.
ClaimCharged(t) ==
  /\ calls[t].pc = "claim"
  /\ \/ \E s \in Slots :
          /\ ~objects[s].live /\ \A r \in 1 .. s - 1 : objects[r].live
          /\ objects' = [objects EXCEPT ![s] =
                           [@ EXCEPT !.live = TRUE, !.frames = calls[t].frames, !.owner = Mine(t),
                                     !.mappings = {}, !.device = NoDevice]]
          /\ UNCHANGED free
     \/ /\ \A s \in Slots : objects[s].live
        /\ free' = free \cup ToSet(calls[t].frames) /\ UNCHANGED objects
  /\ Return(t)
  /\ UNCHANGED <<charged, maps, spaces, ipis, cores, play>>

Claim(t) ==
  /\ calls[t].pc = "claim"
  /\ \/ \E s \in Slots :
          /\ ~objects[s].live /\ \A r \in 1 .. s - 1 : objects[r].live
          /\ objects' = [objects EXCEPT ![s] =
                           [@ EXCEPT !.live = TRUE, !.frames = calls[t].frames, !.owner = Mine(t),
                                     !.mappings = {}, !.device = NoDevice]]
          /\ UNCHANGED ledger
     \/ /\ \A s \in Slots : objects[s].live
        /\ GiveBack(Mine(t), calls[t].frames) /\ UNCHANGED objects
  /\ Return(t)
  /\ UNCHANGED <<maps, spaces, ipis, cores, play>>

-----------------------------------------------------------------------------
(* map_into, under SPACES.                                                  *)

MapLook(t) ==
  /\ Begin(t, "map") /\ spaces = NoThread
  /\ \E n \in Names :
       /\ play.race \/ ~Taking(n[1])
       /\ Resolves(n[1], n[2]) /\ Cardinality(objects[n[1]].mappings) < play.mappings
       /\ Go(t, [User EXCEPT !.pc = "pages", !.slot = n[1], !.gen = n[2],
                             !.frames = objects[n[1]].frames])
  /\ spaces' = t
  /\ UNCHANGED <<arena, maps, ledger, ipis, cores>>

\* unmap_pages frees what it unmaps, an object's frames too.
MapFails(t, done) ==
  /\ play.fails
  /\ free' = free \cup {calls[t].frames[p] : p \in 1 .. done}
  /\ charged' = [charged EXCEPT ![Mine(t)] = @ - done]
  /\ spaces' = NoThread /\ Return(t)
  /\ UNCHANGED <<arena, maps, ipis, cores, play>>

\* map_shared: the region, then the pages.
MapPages(t) ==
  /\ calls[t].pc = "pages"
  /\ \/ /\ regions[Mine(t)] # 0
        /\ spaces' = NoThread /\ Return(t)
        /\ UNCHANGED <<arena, maps, ledger, ipis, cores, play>>
     \/ /\ regions[Mine(t)] = 0
        /\ regions' = [regions EXCEPT ![Mine(t)] = calls[t].slot]
        /\ table' = [table EXCEPT ![Mine(t)] =
                       [p \in Pages |-> IF p <= Len(calls[t].frames) THEN calls[t].frames[p]
                                        ELSE @[p]]]
        /\ Go(t, [calls[t] EXCEPT !.pc = "record"])
        /\ UNCHANGED <<arena, window, ledger, spaces, ipis, cores, play>>
     \/ /\ regions[Mine(t)] = 0
        /\ \E done \in 0 .. Len(calls[t].frames) - 1 : MapFails(t, done)

\* Against whatever is in the slot now.  SPACES kept every other map out, so the entry that
\* MapLook saw free still is.
MapRecord(t) ==
  /\ calls[t].pc = "record"
  /\ objects' = [objects EXCEPT ![calls[t].slot].mappings = @ \cup {Mine(t)}]
  /\ spaces' = NoThread /\ Return(t)
  /\ UNCHANGED <<maps, ledger, ipis, cores, play>>

-----------------------------------------------------------------------------
(* iommu::map_memory: the frames, the window, the record or the window again. *)

DeviceLook(t) ==
  /\ Begin(t, "device")
  /\ \E n \in Names :
       /\ Resolves(n[1], n[2]) /\ (play.race \/ ~Taking(n[1]))
       /\ Go(t, [User EXCEPT !.pc = "window", !.slot = n[1], !.gen = n[2],
                             !.frames = objects[n[1]].frames])
  /\ UNCHANGED <<arena, maps, ledger, spaces, ipis, cores>>

DeviceMap(t) ==
  /\ calls[t].pc = "window"
  /\ \/ \E a \in {b \in Addresses : window[b] = {}} :
          /\ window' = [window EXCEPT ![a] = ToSet(calls[t].frames)]
          /\ Go(t, [calls[t] EXCEPT !.pc = "enter", !.dev = a])
     \/ /\ \A a \in Addresses : window[a] # {}
        /\ Return(t) /\ UNCHANGED window
  /\ UNCHANGED <<arena, regions, table, ledger, spaces, ipis, cores, play>>

\* record_device_mapping.
DeviceRecord(t) ==
  /\ calls[t].pc = "enter"
  /\ \/ /\ Resolves(calls[t].slot, calls[t].gen) /\ objects[calls[t].slot].device = NoDevice
        /\ objects' = [objects EXCEPT ![calls[t].slot].device =
                         [at |-> calls[t].dev, mapper |-> Mine(t)]]
        /\ UNCHANGED window
     \/ /\ ~Resolves(calls[t].slot, calls[t].gen) \/ objects[calls[t].slot].device # NoDevice
        /\ window' = [window EXCEPT ![calls[t].dev] = {}] /\ UNCHANGED objects
  /\ Return(t)
  /\ UNCHANGED <<regions, table, ledger, spaces, ipis, cores, play>>

-----------------------------------------------------------------------------
(* revoke, which ends the object, and unmap_roots, which takes it from some *)
(* holders: the list under the arena, each page out of its table and shot   *)
(* down, the device, and for revoke destroy.                                *)

RevokeTake(t, slot, gen) ==
  /\ Begin(t, "revoke") /\ Resolves(slot, gen) /\ (play.race \/ ~(Giving(slot) \/ Taking(slot)))
  /\ Go(t, [User EXCEPT !.pc = "space", !.slot = slot, !.gen = gen, !.dies = TRUE,
                        !.todo = objects[slot].mappings, !.dev = objects[slot].device.at])
  /\ objects' = [objects EXCEPT ![slot].mappings = {}, ![slot].device = NoDevice]
  /\ UNCHANGED <<maps, ledger, spaces, ipis, cores>>

UnmapRootsTake(t, slot, gen, holders) ==
  /\ Begin(t, "unmap") /\ Resolves(slot, gen) /\ (play.race \/ ~(Giving(slot) \/ Taking(slot)))
  /\ \E mine \in {objects[slot].device.mapper \in holders} :
       /\ Go(t, [User EXCEPT !.pc = "space", !.slot = slot, !.gen = gen,
                             !.todo = objects[slot].mappings \cap holders,
                             !.dev = IF mine THEN objects[slot].device.at ELSE 0])
       /\ objects' = [objects EXCEPT ![slot].mappings = @ \ holders,
                                     ![slot].device = IF mine THEN NoDevice ELSE @]
  /\ UNCHANGED <<maps, ledger, spaces, ipis, cores>>

\* with_space: revoked_to_scratch, or the region removed.
TakeRegion(t) ==
  /\ calls[t].pc = "space" /\ calls[t].todo # {} /\ spaces = NoThread
  /\ \E x \in calls[t].todo :
       /\ Go(t, [calls[t] EXCEPT !.pc = "page", !.todo = @ \ {x}, !.at = x, !.page = 1])
       /\ regions' = [regions EXCEPT ![x] =
                        IF ~calls[t].dies THEN 0
                        ELSE IF x \in play.scratch /\ @ = calls[t].slot THEN Scratch ELSE @]
  /\ UNCHANGED <<arena, table, window, ledger, spaces, ipis, cores, play>>

Flush(c, x, p) == [tlb EXCEPT ![c] = IF loaded[c] = x THEN [@ EXCEPT ![p] = NoFrame] ELSE @]

\* unmap_page, and shootdown's own processor.
UnmapPage(t) ==
  /\ calls[t].pc = "page"
  /\ table' = [table EXCEPT ![calls[t].at][calls[t].page] = NoFrame]
  /\ tlb' = Flush(Cpu(t), calls[t].at, calls[t].page)
  /\ Go(t, [calls[t] EXCEPT !.pc = "send"])
  /\ UNCHANGED <<arena, regions, window, ledger, spaces, ipis, on, loaded, play>>

ShootdownSend(t) ==
  /\ calls[t].pc = "send" /\ sender = NoThread
  /\ sender' = t /\ address' = <<calls[t].at, calls[t].page>>
  /\ pending' = Cardinality(Cpus) - 1 /\ ipi' = ipi \cup (Cpus \ {Cpu(t)})
  /\ Go(t, [calls[t] EXCEPT !.pc = "wait"])
  /\ UNCHANGED <<arena, maps, ledger, spaces, cores, play>>

\* Mutant: the sender does not wait.
ShootdownUnawaited(t) ==
  /\ calls[t].pc = "wait" /\ sender' = NoThread
  /\ Go(t, IF calls[t].page < play.pages THEN [calls[t] EXCEPT !.pc = "page", !.page = @ + 1]
           ELSE [calls[t] EXCEPT !.pc = "space"])
  /\ UNCHANGED <<arena, maps, ledger, spaces, address, pending, ipi, cores, play>>

\* Acknowledged or given up: nobody looks at which.
ShootdownDone(t) ==
  /\ calls[t].pc = "wait"
  /\ \/ pending = 0 /\ UNCHANGED play
     \/ pending # 0 /\ play.late > 0 /\ play' = [play EXCEPT !.late = @ - 1]
  /\ sender' = NoThread
  /\ Go(t, IF calls[t].page < play.pages THEN [calls[t] EXCEPT !.pc = "page", !.page = @ + 1]
           ELSE [calls[t] EXCEPT !.pc = "space"])
  /\ UNCHANGED <<arena, maps, ledger, spaces, address, pending, ipi, cores>>

\* Mutant: the receiver takes SENDER.
HandleIpiLocked(c) ==
  /\ c \in ipi /\ sender = NoThread /\ ipi' = ipi \ {c}
  /\ tlb' = Flush(c, address[1], address[2])
  /\ pending' = pending - 1
  /\ UNCHANGED <<arena, maps, ledger, spaces, sender, address, on, loaded, calls, play>>

\* handle_ipi lowers PENDING without a look at it; below zero it wraps, and is not zero either way.
HandleIpi(c) ==
  /\ c \in ipi /\ ipi' = ipi \ {c}
  /\ tlb' = Flush(c, address[1], address[2])
  /\ pending' = pending - 1
  /\ UNCHANGED <<arena, maps, ledger, spaces, sender, address, on, loaded, calls, play>>

\* Mutant: the device keeps its window.
KeepDevice(t) ==
  /\ calls[t].pc = "space" /\ calls[t].todo = {}
  /\ IF calls[t].dies THEN Go(t, [calls[t] EXCEPT !.pc = "destroy"]) ELSE Return(t)
  /\ UNCHANGED <<arena, maps, ledger, spaces, ipis, cores, play>>

UnmapDevice(t) ==
  /\ calls[t].pc = "space" /\ calls[t].todo = {}
  /\ window' = [a \in Addresses |-> IF a = calls[t].dev THEN {} ELSE window[a]]
  /\ IF calls[t].dies THEN Go(t, [calls[t] EXCEPT !.pc = "destroy"]) ELSE Return(t)
  /\ UNCHANGED <<arena, regions, table, ledger, spaces, ipis, cores, play>>

\* destroy.
Destroy(t) ==
  /\ calls[t].pc = "destroy"
  /\ \/ /\ Resolves(calls[t].slot, calls[t].gen)
        /\ objects' = [objects EXCEPT ![calls[t].slot] =
                         [@ EXCEPT !.live = FALSE, !.gen = @ + 1, !.frames = <<>>]]
        /\ Go(t, [calls[t] EXCEPT !.pc = "free", !.frames = objects[calls[t].slot].frames,
                                  !.owner = objects[calls[t].slot].owner])
     \/ ~Resolves(calls[t].slot, calls[t].gen) /\ Return(t) /\ UNCHANGED objects
  /\ UNCHANGED <<maps, ledger, spaces, ipis, cores, play>>

FreeFrames(t) ==
  /\ calls[t].pc = "free"
  /\ GiveBack(calls[t].owner, calls[t].frames)
  /\ Return(t)
  /\ UNCHANGED <<arena, maps, spaces, ipis, cores, play>>

-----------------------------------------------------------------------------
(* The processors.                                                          *)

\* A thread at work in its space: the processor walks the table and keeps what it finds.
Access(c, p) ==
  /\ calls[on[c]].pc = "user" /\ tlb[c][p] = NoFrame /\ table[loaded[c]][p] # NoFrame
  /\ tlb' = [tlb EXCEPT ![c][p] = table[loaded[c]][p]]
  /\ UNCHANGED <<arena, maps, ledger, spaces, ipis, on, loaded, calls, play>>

\* service_fault on a range kept as scratch: a fresh frame, charged to the space.
ScratchFault(c, p) ==
  /\ calls[on[c]].pc = "user" /\ p <= play.pages /\ spaces = NoThread
  /\ regions[loaded[c]] = Scratch /\ table[loaded[c]][p] = NoFrame /\ tlb[c][p] = NoFrame
  /\ free # {} /\ charged[loaded[c]] < play.quota
  /\ \E f \in Allocate(1) : table' = [table EXCEPT ![loaded[c]][p] = f] /\ free' = free \ {f}
  /\ charged' = [charged EXCEPT ![loaded[c]] = @ + 1]
  /\ UNCHANGED <<arena, regions, window, spaces, ipis, cores, calls, play>>

Unlocked(t) == spaces # t /\ sender # t

\* Two processors exchange their threads; enter_space keeps a table already loaded.
Exchange(c, d) ==
  /\ play.moves /\ c # d /\ Unlocked(on[c]) /\ Unlocked(on[d])
  /\ on' = [on EXCEPT ![c] = on[d], ![d] = on[c]]
  /\ loaded' = [e \in Cpus |-> Mine(on'[e])]
  /\ tlb' = [e \in Cpus |-> IF loaded'[e] = loaded[e] THEN tlb[e] ELSE NoPages]
  /\ UNCHANGED <<arena, maps, ledger, spaces, ipis, calls, play>>

Step(t) ==
  \/ Claim(t) \/ MapPages(t) \/ MapRecord(t) \/ DeviceMap(t) \/ DeviceRecord(t)
  \/ TakeRegion(t) \/ UnmapPage(t) \/ ShootdownSend(t) \/ ShootdownDone(t) \/ UnmapDevice(t)
  \/ Destroy(t) \/ FreeFrames(t)

Start(t) ==
  \/ TakeFrames(t) \/ MapLook(t) \/ DeviceLook(t)
  \/ \E n \in Names : \/ RevokeTake(t, n[1], n[2])
                      \/ \E x \in Spaces : UnmapRootsTake(t, n[1], n[2], {x})

Next ==
  \/ \E t \in Threads : Start(t) \/ Step(t)
  \/ \E c \in Cpus : HandleIpi(c) \/ \E p \in Pages : Access(c, p) \/ ScratchFault(c, p)
  \/ \E c, d \in Cpus : Exchange(c, d)

Spec == Init /\ [][Next]_vars

\* A thread in the kernel is run, and an interrupt sent is taken.
FairSpec == Spec /\ (\A t \in Threads : WF_vars(Step(t))) /\ \A c \in Cpus : WF_vars(HandleIpi(c))

-----------------------------------------------------------------------------
(* Properties.                                                              *)

TypeOK ==
  /\ objects \in [Slots -> [live : BOOLEAN, gen : Nat, frames : Seq(Frames), owner : Spaces \cup {NoSpace},
                            mappings : SUBSET Spaces,
                            device : [at : Addresses \cup {0}, mapper : Spaces \cup {NoSpace}]]]
  /\ regions \in [Spaces -> Slots \cup {0, Scratch}]
  /\ table \in [Spaces -> [Pages -> Frames \cup {NoFrame}]]
  /\ window \in [Addresses -> SUBSET Frames]
  /\ free \subseteq Frames /\ charged \in [Spaces -> Nat]
  /\ spaces \in Threads \cup {NoThread} /\ sender \in Threads \cup {NoThread}
  /\ pending \in Int /\ ipi \subseteq Cpus
  /\ tlb \in [Cpus -> [Pages -> Frames \cup {NoFrame}]]

Live == {s \in Slots : objects[s].live}
InHand(t) == IF calls[t].pc \in {"claim", "free"} THEN ToSet(calls[t].frames) ELSE {}

OwnedBy(s) == ToSet(objects[s].frames)
ObjectFrames == UNION {OwnedBy(s) : s \in Live} \cup UNION {InHand(t) : t \in Threads}
\* The frames a space was given for a range it kept: mapped, and no object's.
ScratchOf(x) ==
  IF regions[x] = Scratch THEN {table[x][p] : p \in Pages} \ ({NoFrame} \cup ObjectFrames) ELSE {}

\* Every frame is in one place: the allocator, one live object, a call that is making or ending
\* one, or a range kept as scratch.  Nothing frees a frame an object still holds.
FramesPartitioned ==
  /\ \A r, s \in Live : r # s => OwnedBy(r) \cap OwnedBy(s) = {}
  /\ \A s \in Live, t \in Threads : OwnedBy(s) \cap InHand(t) = {}
  /\ \A t, u \in Threads : t # u => InHand(t) \cap InHand(u) = {}
  /\ free \cap ObjectFrames = {}
  /\ \A x \in Spaces : ScratchOf(x) \cap free = {}
  /\ Frames = free \cup ObjectFrames \cup UNION {ScratchOf(x) : x \in Spaces}

\* A domain is charged for exactly the frames it holds that way.
ChargesExact ==
  \A x \in Spaces :
    charged[x] = Cardinality(UNION {OwnedBy(s) : s \in {r \in Live : objects[r].owner = x}})
                 + Cardinality(UNION {InHand(t) : t \in {u \in Threads : x = IF calls[u].pc = "free" THEN calls[u].owner ELSE Mine(u)}})
                 + Cardinality(ScratchOf(x))

\* What a space, a processor in it, or the device can reach.
Reach(x) == ({table[x][p] : p \in Pages} \cup {tlb[c][p] : c \in {d \in Cpus : loaded[d] = x}, p \in Pages}) \ {NoFrame}
DeviceReach == UNION {window[a] : a \in Addresses}

\* A call that has the mapping of slot's object into x in its hands: about to record it, or
\* taking it out.
Handles(slot, x) ==
  \E t \in Threads :
    /\ calls[t].slot = slot
    /\ \/ calls[t].pc = "record" /\ Mine(t) = x
       \/ calls[t].pc \in {"space", "page", "send", "wait"} /\ x \in calls[t].todo \cup {calls[t].at}

\* A frame of an object is reached only where the object's record says it is mapped, or where a
\* call under way is about to say so or is taking it out.  A frame that is free, or is being made into an object
\* or freed, is reached by nothing: no table, no processor's cache, no device.
ReachRecorded ==
  /\ \A x \in Spaces : \A f \in Reach(x) \ ScratchOf(x) :
       \E s \in Live : f \in OwnedBy(s) /\ (x \in objects[s].mappings \/ Handles(s, x))
  /\ \A a \in Addresses : window[a] # {} =>
       \/ \E s \in Live : window[a] = OwnedBy(s) /\ objects[s].device.at = a
       \/ \E t \in Threads : /\ calls[t].dev = a /\ calls[t].pc \in {"enter", "space", "page", "send", "wait"}
                             /\ calls[t].slot \in Live /\ window[a] = OwnedBy(calls[t].slot)

\* What revoke and shootdown are for: a frame the allocator has is reached by nothing.
FreedUnreachable == free \cap (DeviceReach \cup UNION {Reach(x) : x \in Spaces}) = {}

\* The four above: frames are in one place each and paid for, and reached only where it is
\* written down.
MemoryInv == TypeOK /\ FramesPartitioned /\ ChargesExact /\ ReachRecorded

\* Revocation, mapping and destruction come back: SPACES, SENDER and the acknowledgements do not
\* wait for each other.
CallsReturn == \A t \in Threads : (calls[t].pc # "user") ~> (calls[t].pc = "user")

=============================================================================
