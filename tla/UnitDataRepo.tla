---------------------------- MODULE UnitDataRepo ----------------------------
(***************************************************************************)
(* tapacket::UnitDataRepo collects the unit definitions that the players   *)
(* of a game send the demo compiler from the lobby, and hash() is the      *)
(* fingerprint of the enabled units, by which the mod of a recording is    *)
(* recognised.  The players' connections are read in any order, so games   *)
(* played with the same mod get the same packets in different orders.      *)
(*                                                                         *)
(* A packet is [sub, id, status, crc]: sub 2 carries the unit's checksum,  *)
(* sub 3 whether the unit is enabled (status 0x0101), sub 9 is kept and    *)
(* not hashed, and sub 0 starts a new list.                                *)
(***************************************************************************)
EXTENDS Naturals, FiniteSets, Functions

CONSTANTS
  Packet,        \* the packets every repository is given
  Observer,      \* the repositories: one per game played with the mod
  SY_UNIT_ID     \* the unit the hash leaves out

(* What the players of one mod send: no packet starts a new list once the  *)
(* compiler listens (TaDemoCompilerClient forwards sub 2 and 3 only), and  *)
(* no two of them give a unit different checksums.  They may disagree      *)
(* about the status of a unit.                                             *)
Agreed ==
  /\ \A pd \in Packet : pd.sub # 0
  /\ \A x, y \in Packet : (x.sub = 2 /\ y.sub = 2 /\ x.id = y.id) => x.crc = y.crc

ConstantsOK ==
  /\ Packet \subseteq [sub : {0, 2, 3, 9, 1}, id : Nat, status : {"enabled", "disabled"}, crc : Nat]
  /\ Agreed

VARIABLES
  m_unitData,    \* m_unitData[o]: function from <<sub, id>> to packet
  pending        \* pending[o]: packets o has not seen

vars == <<m_unitData, pending>>

Empty == [k \in {} |-> 0]

Key(pd) == <<pd.sub, pd.id>>

Init ==
  /\ m_unitData = [o \in Observer |-> Empty]
  /\ pending = [o \in Observer |-> Packet]

With(repo, pd) == [k \in DOMAIN repo \cup {Key(pd)} |-> IF k = Key(pd) THEN pd ELSE repo[k]]

(* Mutant: the last status wins. *)
AddLast(repo, pd) ==
  CASE pd.sub \in {2, 3, 9} -> With(repo, pd)
    [] pd.sub = 0 -> Empty
    [] OTHER -> repo

(* A unit that was enabled once stays enabled. *)
Add(repo, pd) ==
  CASE pd.sub \in {2, 3, 9} ->
         IF pd.sub = 3 /\ Key(pd) \in DOMAIN repo /\ repo[Key(pd)].status = "enabled"
         THEN repo ELSE With(repo, pd)
    [] pd.sub = 0 -> Empty
    [] OTHER -> repo

(* The terms that hash() feeds to the digest, in the order of the keys. *)
Hash(repo) ==
  {<<id, repo[<<2, id>>].crc>> : id \in {x \in {k[2] : k \in DOMAIN repo} :
     /\ {<<2, x>>, <<3, x>>} \subseteq DOMAIN repo
     /\ repo[<<3, x>>].status = "enabled"
     /\ x # SY_UNIT_ID}}

Receive(o, pd) ==
  /\ pd \in pending[o]
  /\ m_unitData' = [m_unitData EXCEPT ![o] = Add(@, pd)]
  /\ pending' = [pending EXCEPT ![o] = @ \ {pd}]

Next == \E o \in Observer, pd \in Packet : Receive(o, pd)

Spec == Init /\ [][Next]_vars

(* Repositories that were given the same packets, in whatever orders, have *)
(* the same fingerprint, also when players disagree about the status of a  *)
(* unit (UnitDataRepo::add, the "hack").                                   *)
SameFingerprint ==
  \A a, b \in Observer :
    pending[a] = pending[b] => Hash(m_unitData[a]) = Hash(m_unitData[b])
=============================================================================
