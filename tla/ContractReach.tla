--------------------------- MODULE ContractReach ---------------------------
(***************************************************************************)
(* The stamped objects extensions share through a DatabaseInstance: the    *)
(* hooks Registry (tresor's contract), and acl's AuditHooks,               *)
(* AclSessionHooks and AclLineageSources (AclConnection is stamped alike,  *)
(* per connection).  Extensions are built from different revisions of the  *)
(* headers and load in any order; whoever comes first creates the object   *)
(* under the contract's key, the others reach it, and Reach refuses an     *)
(* object another revision made.                                           *)
(*                                                                         *)
(* A build is a revision of the headers: its contract version and, where   *)
(* the contract is built on ext_hooks.hpp, the hooks version; `magic` is   *)
(* FALSE for a build from before the stamp; `type` is the class it keeps   *)
(* under the key.  Two builds lay the object out alike exactly when their  *)
(* versions agree: a version is bumped on any change of layout.            *)
(***************************************************************************)
EXTENDS Naturals, FiniteSets

CONSTANTS
    Extensions,         \* extensions loaded into the instance
    Versions,           \* contract versions the extensions were built from
    HooksVersions       \* versions of ext_hooks.hpp

ASSUME ReachAssumption == Versions \subseteq Nat /\ HooksVersions \subseteq Nat

Contracts == {"registry", "audit", "session", "lineage"}

\* Only the registry is built on ext_hooks.hpp: 0 where there is no hooks version.
Builds(c) == [type : {"contract", "other"}, magic : BOOLEAN, version : Versions,
              hooks : IF c = "registry" THEN HooksVersions ELSE {0}]

VARIABLES
    contract,           \* the contract this object is of
    build,              \* per extension: what it was built from
    object,             \* what the cache holds under the key: None or [id, build]
    held,               \* per extension: the id of the object it uses, 0 for none
    refused,            \* extensions whose Reach returned null
    created             \* history: objects created so far

given == <<contract, build>>
reachVars == <<given, object, held, refused, created>>

None == [id |-> 0]

InitReach ==
    /\ contract \in Contracts
    /\ build \in [Extensions -> Builds(contract)]
    /\ object = None
    /\ held = [e \in Extensions |-> 0]
    /\ refused = {} /\ created = 0

-----------------------------------------------------------------------------
\* External: ObjectCache::GetOrCreate, under the cache's lock - the object under the key, or a
\* new one by the asking build.  The cache compares type names before it casts.
GetOrCreate(e) ==
    IF object # None THEN object
    ELSE [id |-> created + 1, build |-> build[e]]

SameType(b, o) == b.type = o.build.type

-----------------------------------------------------------------------------
(* The checks of each contract's Reach, by a build b, on the object o *)

\* Registry::ReachAs: the magic, the contract's version and the hooks base's.
Mut_IgnoresHooks(b, o) == SameType(b, o) /\ o.build.magic /\ o.build.version = b.version
ReachAs(b, o) ==
    /\ SameType(b, o) /\ o.build.magic
    /\ o.build.version = b.version /\ o.build.hooks = b.hooks

\* AuditHooks::Reach: the magic says "stamped at all", then the version.
AuditReach(b, o) == SameType(b, o) /\ o.build.magic /\ o.build.version = b.version

\* AclSessionHooks::Reach.
SessionHooksReach(b, o) == SameType(b, o) /\ o.build.magic /\ o.build.version = b.version

\* AclLineageSources::Reach.
LineageReach(b, o) == SameType(b, o) /\ o.build.magic /\ o.build.version = b.version

Accepts(b, o) ==
    CASE contract = "registry" -> ReachAs(b, o)
      [] contract = "audit" -> AuditReach(b, o)
      [] contract = "session" -> SessionHooksReach(b, o)
      [] contract = "lineage" -> LineageReach(b, o)

\* A build from before the stamp checks nothing but the type, whatever it finds.
Uses(e, o) == IF build[e].magic THEN Accepts(build[e], o) ELSE SameType(build[e], o)

\* Who may use the object as the contract's: a stamped extension that reached it.
User(e) == build[e].type = "contract" /\ build[e].magic /\ held[e] # 0

-----------------------------------------------------------------------------
Stored(o) == object' = o /\ created' = IF o.id > created THEN o.id ELSE created

\* An extension reaches the object; one that was refused may try again.
Reach(e) ==
    LET o == GetOrCreate(e) IN
    /\ Stored(o)
    /\ IF Uses(e, o)
         THEN held' = [held EXCEPT ![e] = o.id] /\ UNCHANGED refused
         ELSE refused' = refused \union {e} /\ UNCHANGED held
    /\ UNCHANGED given

\* AuditHooks::StampOf, for a refused extension's gauge: it creates the object when absent.
StampOf(e) ==
    /\ contract = "audit" /\ build[e].magic
    /\ Stored(GetOrCreate(e))
    /\ UNCHANGED <<given, held, refused>>

\* GetEstimatedCacheMemory answers nothing: the cache never evicts the object.
Mut_Evictable == TRUE
Evictable == FALSE

\* External: memory pressure on the cache.  MaxCreated bounds the objects an eviction would make.
MaxCreated == 2

Pressure ==
    /\ created < MaxCreated
    /\ object' = IF Evictable THEN None ELSE object
    /\ UNCHANGED <<given, held, refused, created>>

NextReach ==
    \/ \E e \in Extensions : Reach(e) \/ StampOf(e)
    \/ Pressure

ReachSpec == InitReach /\ [][NextReach]_reachVars

-----------------------------------------------------------------------------
(* Properties *)

\* What decides the layout of the object a build compiles against.
Layout(b) == IF contract = "registry" THEN <<b.version, b.hooks>> ELSE <<b.version>>

Stamped == {e \in Extensions : build[e].magic}

\* The stamp "keeps two copies from reading one object through two layouts", in any load order
\* and with extensions of any revision, unstamped ones included: every stamped extension that
\* uses an object was laid out as the one that made it, and all of them use the same one.
OneObjectOneLayout ==
    \A e \in Stamped : held[e] # 0 =>
        /\ held[e] = object.id
        /\ object.build.type = build[e].type
        /\ Layout(object.build) = Layout(build[e])

\* Reach is decided by who came first and does not change: an extension that uses the object is
\* never refused later, nor the other way about.
ReachIsStable == \A e \in Extensions : ~(held[e] # 0 /\ e \in refused)

=============================================================================
