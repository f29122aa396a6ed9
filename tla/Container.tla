----------------------------- MODULE Container ------------------------------
(***************************************************************************)
(* packages/sdk/src/container.ts: keys are bound to a class, a factory or  *)
(* a value, resolved to one instance each, and inherited by child          *)
(* containers.                                                             *)
(*                                                                         *)
(* A binding is known by the number of its registration, and an instance   *)
(* by the binding that made it.  A constructor or factory that throws      *)
(* leaves the containers as they were, and one that resolves other keys is *)
(* two resolutions; one that re-binds its own key is left out.             *)
(***************************************************************************)
EXTENDS Naturals, Sequences, FiniteSetsExt

CONSTANTS
  ClassKeys,        \* keys that are classes
  Tokens,           \* keys from Token.for
  MaxContainers,    \* bound: containers
  MaxRegistrations  \* bound: registrations

ASSUME ContainerAssumption ==
  /\ ClassKeys \cap Tokens = {}
  /\ MaxContainers \in Nat \ {0} /\ MaxRegistrations \in Nat

VARIABLES
  parents,       \* the parent of each container, or 0
  bindings,      \* of each container and key: a registration, or Unbound
  singletons,    \* the cached instance, NotMade, or ZeroArgument
  registrations  \* how many registrations there were

containerVars == <<parents, bindings, singletons, registrations>>

BindingKeys  == ClassKeys \cup Tokens
Unbound      == 0
NotMade      == MaxRegistrations + 1
ZeroArgument == MaxRegistrations + 2   \* made by the fallback
Containers   == 1..Len(parents)

ContainerTypeOK ==
  /\ parents \in Seq(0..MaxContainers) /\ Len(parents) \in 1..MaxContainers
  /\ \A c \in Containers : parents[c] < c
  /\ bindings \in [Containers -> [BindingKeys -> 0..registrations]]
  /\ singletons \in [Containers -> [BindingKeys -> 1..ZeroArgument]]
  /\ registrations \in 0..MaxRegistrations

-----------------------------------------------------------------------------
\* The container and its ancestors; a parent has the smaller number.
Lineage(c) ==
  LET line[i \in 0..Len(parents)] == IF i = 0 THEN {} ELSE {i} \cup line[parents[i]]
  IN line[c]

has(c, key) == \E a \in Lineage(c) : bindings[a][key] # Unbound

\* The container that answers: the nearest with an instance or a binding,
\* when the key is bound at all, and else the one that was asked.
Resolver(c, key) ==
  IF has(c, key)
  THEN Max({a \in Lineage(c) : \/ bindings[a][key] # Unbound
                               \/ singletons[a][key] # NotMade})
  ELSE c

\* Mutant: a new binding leaves the instance of the old one in the cache.
KeepCached(c, key) == singletons
Evicted(c, key)    == [singletons EXCEPT ![c][key] = NotMade]

\* bind(key) and one of to, toFactory and toValue: the value of a toValue is
\* cached by resolve like what the others construct.
Register(c, key) ==
  /\ registrations < MaxRegistrations
  /\ registrations' = registrations + 1
  /\ bindings' = [bindings EXCEPT ![c][key] = registrations + 1]
  /\ singletons' = Evicted(c, key)
  /\ UNCHANGED parents

unbind(c, key) ==
  /\ bindings' = [bindings EXCEPT ![c][key] = Unbound]
  /\ singletons' = Evicted(c, key)
  /\ UNCHANGED <<parents, registrations>>

reset(c) ==
  /\ bindings' = [bindings EXCEPT ![c] = [key \in BindingKeys |-> Unbound]]
  /\ singletons' = [singletons EXCEPT ![c] = [key \in BindingKeys |-> NotMade]]
  /\ UNCHANGED <<parents, registrations>>

\* A resolve that constructs; one that finds an instance or throws changes
\* nothing.
resolve(c, key) ==
  LET r == Resolver(c, key) IN
  /\ singletons[r][key] = NotMade
  /\ \/ /\ bindings[r][key] # Unbound
        /\ singletons' = [singletons EXCEPT ![r][key] = bindings[r][key]]
     \/ /\ bindings[r][key] = Unbound /\ key \in ClassKeys
        /\ singletons' = [singletons EXCEPT ![r][key] = ZeroArgument]
  /\ UNCHANGED <<parents, bindings, registrations>>

createChild(c) ==
  /\ Len(parents) < MaxContainers
  /\ parents' = Append(parents, c)
  /\ bindings' = Append(bindings, [key \in BindingKeys |-> Unbound])
  /\ singletons' = Append(singletons, [key \in BindingKeys |-> NotMade])
  /\ UNCHANGED registrations

ContainerInit ==
  /\ parents = <<0>>
  /\ bindings = <<[key \in BindingKeys |-> Unbound]>>
  /\ singletons = <<[key \in BindingKeys |-> NotMade]>>
  /\ registrations = 0

ContainerNext ==
  \E c \in Containers :
    \/ \E key \in BindingKeys :
         Register(c, key) \/ unbind(c, key) \/ resolve(c, key)
    \/ reset(c) \/ createChild(c)

-----------------------------------------------------------------------------
\* However bindings are made, replaced, removed and inherited: no container
\* keeps an instance of a binding it no longer has, or one it constructed
\* unbound once the key is bound there; and what is resolved comes from the
\* nearest binding, unless a container on the way constructed the key itself,
\* when it was not bound.
InstancesFollowBindings ==
  \A c \in Containers, key \in BindingKeys :
    /\ singletons[c][key] \in {NotMade, ZeroArgument, bindings[c][key]}
    /\ singletons[c][key] = ZeroArgument => bindings[c][key] = Unbound
    /\ LET r == Resolver(c, key)
           bound == {a \in Lineage(c) : bindings[a][key] # Unbound}
       IN bound # {} /\ singletons[r][key] # ZeroArgument => r = Max(bound)

\* createChild's comment: "a binding resolved in the child is cached in the
\* child", not shared with the parent.  resolve delegates to the parent what it
\* has not bound itself, and the parent caches it.
CachedWhereResolved ==
  [][\A c \in Containers, key \in BindingKeys :
       resolve(c, key) => singletons'[c][key] # NotMade]_containerVars
=============================================================================
