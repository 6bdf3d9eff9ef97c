----------------------------- MODULE TokenLists -----------------------------
(***************************************************************************)
(* Tokens, the lists of (token, amount) in which the overseer keeps and    *)
(* moves collateral (packages/moneymarket/src/tokens.rs): the merge loops  *)
(* of add and sub, an iteration a step.  Collateral uses their result, a   *)
(* sum or a difference of amounts by token, which Correct states.          *)
(* Tokens are numbers, ordered as their addresses are; indexes start at 1. *)
(***************************************************************************)
EXTENDS Integers, Sequences, FiniteSets, Functions

CONSTANTS Kinds,        \* tokens
          MaxAmount,    \* bound: amounts in a list
          MaxLength     \* bound: length of the list that is added or subtracted

ASSUME KindsAssumption == /\ Kinds \subseteq Nat /\ IsFiniteSet(Kinds)
                          /\ MaxAmount \in Nat /\ MaxLength \in Nat

VARIABLES op,       \* "add" or "sub"
          self,     \* the list the method is called on, changed in place
          tokens,   \* its argument
          i, j,     \* loop indexes into self and tokens
          tmp,      \* tmp_tokens of add
          outcome,  \* "running", then "ok", "underflow" or "panic"
          started,  \* whether both lists have been sorted and checked
          self0, tokens0 \* history: the lists as they were when it was called

history == <<self0, tokens0>>
tvars == <<op, self, tokens, i, j, tmp, outcome, started, history>>

Entry(low) == [token : Kinds, amount : low .. MaxAmount]
Ordered(list) == \A k, l \in DOMAIN list : k < l => list[k].token < list[l].token

\* What add and sub leave behind: in order, without duplicates or zeros.
Normal == UNION {{s \in [1 .. n -> Entry(1)] : Ordered(s)} : n \in 0 .. Cardinality(Kinds)}
Arguments == UNION {[1 .. n -> Entry(0)] : n \in 0 .. MaxLength}

Init ==
    /\ op \in {"add", "sub"}
    /\ self \in Normal /\ self0 = self
    /\ tokens \in Arguments /\ tokens0 = tokens
    /\ i = 1 /\ j = 1 /\ tmp = <<>>
    /\ outcome = "running" /\ started = FALSE

-----------------------------------------------------------------------------
assert_duplicate_token(list) ==
    \A k \in 1 .. Len(list) - 1 : list[k].token # list[k + 1].token

\* In the order of the tokens, by some exchange of the entries.
sorted(list) ==
    LET here  == 1 .. Len(list)
        order == CHOOSE p \in Bijection(here, here) :
                   \A k, l \in here : k < l => list[p[k]].token <= list[p[l]].token
    IN  [k \in here |-> list[order[k]]]

Sort ==
    /\ outcome = "running" /\ ~started
    /\ started' = TRUE
    /\ self' = sorted(self)
    /\ tokens' = sorted(tokens)
    /\ outcome' = IF assert_duplicate_token(self') /\ assert_duplicate_token(tokens')
                  THEN "running" ELSE "panic"
    /\ UNCHANGED <<op, i, j, tmp, history>>

Looping(method) == outcome = "running" /\ started /\ op = method
Within == i <= Len(self) /\ j <= Len(tokens)

\* The entries that are not zero.
retain(list) ==
    LET kept[n \in 0 .. Len(list)] ==
          IF n = 0 THEN <<>>
          ELSE kept[n - 1] \o IF list[n].amount > 0 THEN <<list[n]>> ELSE <<>>
    IN  kept[Len(list)]

\* sub, with tokens[j] in self.
SubSame ==
    /\ Looping("sub") /\ Within /\ self[i].token = tokens[j].token
    /\ IF self[i].amount < tokens[j].amount
       THEN outcome' = "underflow" /\ UNCHANGED <<self, i, j>>
       ELSE /\ self' = [self EXCEPT ![i].amount = @ - tokens[j].amount]
            /\ i' = i + 1 /\ j' = j + 1
            /\ UNCHANGED outcome
    /\ UNCHANGED <<op, tokens, tmp, started, history>>

SubSkip_Stays ==
    /\ Looping("sub") /\ Within /\ self[i].token < tokens[j].token
    /\ UNCHANGED tvars

SubSkip ==
    /\ Looping("sub") /\ Within /\ self[i].token < tokens[j].token
    /\ i' = i + 1
    /\ UNCHANGED <<op, self, tokens, j, tmp, outcome, started, history>>

SubMissing ==
    /\ Looping("sub") /\ Within /\ self[i].token > tokens[j].token
    /\ outcome' = "underflow"
    /\ UNCHANGED <<op, self, tokens, i, j, tmp, started, history>>

\* Tokens of the argument that are left over are forgotten.
SubEnd_LeftOver ==
    /\ Looping("sub") /\ ~Within
    /\ outcome' = "ok" /\ self' = retain(self)
    /\ UNCHANGED <<op, tokens, i, j, tmp, started, history>>

SubEnd ==
    /\ Looping("sub") /\ ~Within
    /\ IF j # Len(tokens) + 1
       THEN outcome' = "underflow" /\ UNCHANGED self
       ELSE outcome' = "ok" /\ self' = retain(self)
    /\ UNCHANGED <<op, tokens, i, j, tmp, started, history>>

AddSame ==
    /\ Looping("add") /\ Within /\ self[i].token = tokens[j].token
    /\ tmp' = Append(tmp, [self[i] EXCEPT !.amount = @ + tokens[j].amount])
    /\ i' = i + 1 /\ j' = j + 1
    /\ UNCHANGED <<op, self, tokens, outcome, started, history>>

\* The smaller token next, or what the other list has left.
AddFromTokens ==
    /\ Looping("add") /\ j <= Len(tokens)
    /\ i <= Len(self) => self[i].token > tokens[j].token
    /\ tmp' = Append(tmp, tokens[j])
    /\ j' = j + 1
    /\ UNCHANGED <<op, self, tokens, i, outcome, started, history>>

AddFromSelf ==
    /\ Looping("add") /\ i <= Len(self)
    /\ j <= Len(tokens) => self[i].token < tokens[j].token
    /\ tmp' = Append(tmp, self[i])
    /\ i' = i + 1
    /\ UNCHANGED <<op, self, tokens, j, outcome, started, history>>

AddEnd ==
    /\ Looping("add") /\ i > Len(self) /\ j > Len(tokens)
    /\ self' = retain(tmp)
    /\ outcome' = "ok"
    /\ UNCHANGED <<op, tokens, i, j, tmp, started, history>>

Next ==
    \/ Sort
    \/ SubSame \/ SubSkip \/ SubMissing \/ SubEnd
    \/ AddSame \/ AddFromTokens \/ AddFromSelf \/ AddEnd

Spec == Init /\ [][Next]_tvars /\ WF_tvars(Next)

-----------------------------------------------------------------------------
\* Of a list without duplicates.
amount_of(list, kind) ==
    LET here == {k \in DOMAIN list : list[k].token = kind}
    IN  IF here = {} THEN 0 ELSE list[CHOOSE k \in here : TRUE].amount

Kinds_in(list) == {list[k].token : k \in DOMAIN list}
Unique(list) == Cardinality(Kinds_in(list)) = Len(list)

\* The merge loops compute the sum or the difference of the amounts of every
\* token, whatever order the argument came in, and leave the list in the form
\* they rely on: sorted, without duplicates, without zeros.
Computed ==
    outcome = "ok" =>
      /\ Ordered(self) /\ \A k \in DOMAIN self : self[k].amount > 0
      /\ \A k \in Kinds :
           amount_of(self, k) =
             IF op = "add" THEN amount_of(self0, k) + amount_of(tokens0, k)
             ELSE amount_of(self0, k) - amount_of(tokens0, k)

\* self has what is to be taken from it.
Fits == \A k \in Kinds_in(tokens0) : /\ k \in Kinds_in(self0)
                                     /\ amount_of(tokens0, k) <= amount_of(self0, k)

\* sub reports an underflow exactly when the argument names a token that the
\* list has less of, or has not at all (even when it asks for none of it).
UnderflowExact ==
    op = "sub" /\ outcome \in {"ok", "underflow"} => (outcome = "ok" <=> Fits)

\* A duplicate in the argument is noticed wherever it stands.
DuplicatesPanic == started => (outcome = "panic" <=> ~Unique(tokens0))

\* Whatever lists they are given, add and sub return the sum or the difference,
\* and refuse exactly what has none (tokens.rs).
Correct == Computed /\ UnderflowExact /\ DuplicatesPanic

\* The loops end: every iteration moves an index forward.
Terminates == <>(outcome # "running")
=============================================================================
