------------------------------ MODULE NosdProofs ------------------------------
(***************************************************************************)
(* The datapath keeps its contract whoever calls it and in whatever order  *)
(* the calls of their commands interleave, for any file, any operator and  *)
(* any number of restarts.                                                 *)
(***************************************************************************)
EXTENDS Nosd, MemProofs

LEMMA StartsGood == Init => Good(sw)
BY ScenariosAssumption DEF Init, Good

LEMMA StaysGood == Good(sw) /\ [Next]_vars => Good(sw)'
<1> SUFFICES ASSUME Good(sw), [Next]_vars PROVE Good(sw')
  BY DEF Good, Shape, Contract, NothingDangles, OneNative, MembersAreRouted, MLAGApart
<1>1. CASE UNCHANGED vars
  BY <1>1 DEF vars
<1>2. CASE Call
  BY Zenon, <1>2, DispatchGood DEF Call
<1>3. CASE OperatorCall
  BY Zenon, <1>3, DispatchGood DEF OperatorCall
<1>4. CASE SuiteStep
  BY <1>4, DispatchGood DEF SuiteStep, After
<1>5. CASE Listen \/ Restart
  BY Zenon, <1>5, NewIsGood DEF Listen, Restart
<1>6. CASE \/ StartLine \/ ApplyIface \/ ApplyRoutes \/ Decide \/ OperatorTypes
           \/ Identified \/ Deadline
  BY Zenon, <1>6 DEF StartLine, ApplyIface, ApplyRoutes, Decide, OperatorTypes, Identified, Deadline
<1> QED
  BY <1>1, <1>2, <1>3, <1>4, <1>5, <1>6 DEF Next

(* Contracted: nothing dangles, one native VLAN per port, members of a LAG are
   in no VLAN and MLAG ids name one LAG, whatever the script, the operator and
   the suite ask of the daemon. *)
THEOREM AlwaysContracted == Spec => []Contracted
<1>1. Good(sw) => Contracted
  BY DEF Good, Contracted
<1> QED
  BY StartsGood, StaysGood, <1>1, PTL DEF Spec
=============================================================================
