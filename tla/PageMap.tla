------------------------------ MODULE PageMap ------------------------------
(***************************************************************************)
(* What the memory management unit promises its callers, with no buffer,   *)
(* no two-level tables and no allocation order: every process has a map    *)
(* from pages to frames that only ever grows, a page keeps the frame and   *)
(* the protection it was first given, and a request is granted exactly     *)
(* when the protection permits it.  A page that is not mapped is mapped by *)
(* the request that first touches it, with that request's access as its    *)
(* protection, as long as the process has a frame left.                    *)
(***************************************************************************)
EXTENDS Integers

CONSTANTS
  Procs,      \* process identifiers
  Pages,      \* the pages clients ask for
  Frames,     \* page frames of one process
  Accesses    \* the rights clients ask for together; "S" is the supervisor's

VARIABLES
  map,        \* the mappings made so far
  answer      \* the latest request and its answer

vars == <<map, answer>>

Calls == {"createEntry", "getPhysicalAddress"}

\* A supervisor's page answers only to supervisor requests; otherwise every
\* right asked for, other than "S" itself, must have been given.
Permits(protection, access) ==
  /\ access \ {"S"} \subseteq protection
  /\ "S" \in protection => "S" \in access

MappingsOf(p, page) == {m \in map : m.pid = p /\ m.page = page}
FreeFrames(p) == {f \in Frames : \A m \in map : m.pid = p => m.frame # f}

Granted(call, p, page, access, f) ==
  answer' = [call |-> call, pid |-> p, page |-> page, access |-> access,
             granted |-> TRUE, frame |-> f]
Denied(call, p, page, access) ==
  answer' = [call |-> call, pid |-> p, page |-> page, access |-> access,
             granted |-> FALSE, frame |-> 0]

Init ==
  /\ map = {}
  /\ answer = [call |-> "none", pid |-> 0, page |-> <<0, 0>>, access |-> {},
               granted |-> FALSE, frame |-> 0]

-----------------------------------------------------------------------------

\* A page that is mapped is translated if its protection permits.
Use(p, page, access) ==
  /\ \/ \E f \in Frames :
          /\ Granted("getPhysicalAddress", p, page, access, f)
          /\ \E m \in MappingsOf(p, page) : m.frame = f /\ Permits(m.protection, access)
     \/ /\ Denied("getPhysicalAddress", p, page, access)
        /\ \E m \in MappingsOf(p, page) : ~Permits(m.protection, access)
  /\ UNCHANGED map

\* A call to map a page that is mapped already changes nothing.
Remap(p, page, access) ==
  /\ Denied("createEntry", p, page, access)
  /\ MappingsOf(p, page) # {}
  /\ UNCHANGED map

\* Either call maps a page that is not, on a frame no page of the process has.
Map(call, p, page, access) ==
  \E f \in Frames :
    /\ Granted(call, p, page, access, f)
    /\ MappingsOf(p, page) = {}
    /\ f \in FreeFrames(p)
    /\ map' = map \cup {[pid |-> p, page |-> page, frame |-> f, protection |-> access]}

\* Unless the process has no frame left.
Exhausted(call, p, page, access) ==
  /\ Denied(call, p, page, access)
  /\ MappingsOf(p, page) = {}
  /\ FreeFrames(p) = {}
  /\ UNCHANGED map

Next ==
  \E p \in Procs, page \in Pages, access \in Accesses :
    \/ Use(p, page, access)
    \/ Remap(p, page, access)
    \/ \E call \in Calls : Map(call, p, page, access) \/ Exhausted(call, p, page, access)

Spec == Init /\ [][Next]_vars
=============================================================================
