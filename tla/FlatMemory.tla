---------------------------- MODULE FlatMemory ----------------------------
(***************************************************************************)
(* What the webcam promises to its virtual machine: a flat memory of       *)
(* bytes.  Each access takes effect at once; out is the last one, with the *)
(* bytes it read or wrote.  sub_4162 and sub_4166 are the interface; the   *)
(* program that vmdisas.rb compiles a layer to has exactly this memory,    *)
(* one array m.                                                            *)
(***************************************************************************)
CONSTANTS
  Address,   \* the bytes the virtual machine addresses
  Byte,      \* their values
  Succ(_),   \* the address that follows
  WordAddress \* the addresses at which words are accessed

VARIABLES mem, out

flatVars == <<mem, out>>

Init ==
  /\ mem \in [Address -> Byte]
  /\ out = <<>>

GetByte(a) ==
  /\ out' = <<"get", a, <<mem[a]>>>>
  /\ UNCHANGED mem

GetWord(a) ==
  /\ out' = <<"get", a, <<mem[a], mem[Succ(a)]>>>>
  /\ UNCHANGED mem

SetByte(a, v) ==
  /\ mem' = [mem EXCEPT ![a] = v]
  /\ out' = <<"set", a, <<v>>>>

SetWord(a, lo, hi) ==
  /\ mem' = [mem EXCEPT ![a] = lo, ![Succ(a)] = hi]
  /\ out' = <<"set", a, <<lo, hi>>>>

Next ==
  \/ \E a \in Address : GetByte(a) \/ \E v \in Byte : SetByte(a, v)
  \/ \E a \in WordAddress :
       GetWord(a) \/ \E lo, hi \in Byte : SetWord(a, lo, hi)

Spec == Init /\ [][Next]_flatVars
===========================================================================
