-------------------------------- MODULE NodeIds --------------------------------
(***************************************************************************)
(* The names both producers work with.                                     *)
(*                                                                         *)
(* A node id is a string in the code.  Here it is a non-empty sequence of  *)
(* tokens, so that concatenation with the delimiters ':' and '+' and the   *)
(* escape of '+' do what they do to strings.  Only a token's identity      *)
(* matters, and sorting orders node ids by Rank.                           *)
(***************************************************************************)
EXTENDS Integers, Sequences, FiniteSets

CONSTANTS
  Token,        \* pieces of node and graph ids
  Colon,        \* the token ':'
  Plus,         \* the token '+'
  Backslash,    \* the token '\'
  NodeId,       \* the node ids in use
  Rank,         \* position of each node id in code point order
  START, END,   \* LangGraph's sentinel node ids
  STAR,         \* the interrupt configuration "*"
  Graph,        \* compiled state graph objects
  NoChild,      \* a bound runnable (or declared value) that is no compiled graph
  UnknownEnds   \* branch.ends is missing: a router without declared targets

(***************************************************************************)
(* LangGraph reserves ':' in the names given to add_node, so node ids of   *)
(* real graphs satisfy this.  The producers do not rely on it.             *)
(***************************************************************************)
ColonFree(n) == \A i \in 1..Len(n) : n[i] # Colon

NodeIdAssumption ==
  /\ {Colon, Plus, Backslash} \subseteq Token
  /\ Colon # Plus /\ Colon # Backslash /\ Plus # Backslash
  /\ NodeId \subseteq Seq(Token) \ {<< >>}
  /\ {START, END} \subseteq NodeId
  /\ START # END
  /\ ColonFree(START) /\ ColonFree(END)
  /\ Rank \in [NodeId -> Nat]
  /\ \A m, n \in NodeId : Rank[m] = Rank[n] => m = n

ASSUME IdsAssumption == NodeIdAssumption

ChildOrNone == Graph \cup {NoChild}

Sentinel(n) == n \in {START, END}

\* The node ids of s in the order of their ranks: the i-th has fewer than i smaller
\* ones and at least i no greater.
InOrder(s) ==
  [i \in DOMAIN s |->
    CHOOSE n \in {s[k] : k \in DOMAIN s} :
      /\ Cardinality({k \in DOMAIN s : Rank[s[k]] < Rank[n]}) < i
      /\ Cardinality({k \in DOMAIN s : Rank[s[k]] <= Rank[n]}) >= i]

\* A number written in a text: different ones are written differently, and none
\* with a delimiter.
Numeral(k) == [i \in 1..k |-> "1"]
===============================================================================
