------------------------ MODULE UrlValidationProofs ------------------------
(***************************************************************************)
(* UrlValidation for every choice of octets: the patterns match exactly    *)
(* the blocks they stand for, a job needs two URLs found public, and the   *)
(* first answer is the only one.                                           *)
(***************************************************************************)
EXTENDS UrlValidation, TLAPS

\* (1[6-9]|2\d|3[01]), on digits, is the numbers from 16 to 31.
LEMMA DigitsAreRange ==
    ASSUME NEW b \in 0..255
    PROVE  PrivateSecondOf172(b) <=> b \in 16..31
BY DEF PrivateSecondOf172

\* PRIVATE_RANGES, matched with text, and the address blocks, compared with
\* numbers, agree on every address.
LEMMA PatternsAreBlocks ==
    ASSUME NEW a \in 0..255, NEW b \in 0..255
    PROVE  PRIVATE_RANGES(a, b) <=> Reserved(a, b)
<1> DEFINE In(first, size) == a * 256 + b \in first .. (first + size - 1)
<1>1. Reserved(a, b) <=>
         \/ In(10 * 256, 256) \/ In(172 * 256 + 16, 16) \/ In(192 * 256 + 168, 1)
         \/ In(127 * 256, 256) \/ In(169 * 256 + 254, 1) \/ In(0, 256)
  BY DEF Reserved, ReservedBlocks
<1>2. In(10 * 256, 256) <=> a = 10
  OBVIOUS
<1>3. In(127 * 256, 256) <=> a = 127
  OBVIOUS
<1>4. In(0, 256) <=> a = 0
  OBVIOUS
<1>5. In(172 * 256 + 16, 16) <=> a = 172 /\ b \in 16..31
  OBVIOUS
<1>6. In(192 * 256 + 168, 1) <=> a = 192 /\ b = 168
  OBVIOUS
<1>7. In(169 * 256 + 254, 1) <=> a = 169 /\ b = 254
  OBVIOUS
<1> HIDE DEF In
<1> QED
  BY <1>1, <1>2, <1>3, <1>4, <1>5, <1>6, <1>7, DigitsAreRange DEF PRIVATE_RANGES

-----------------------------------------------------------------------------
Private(found) == found \in IPv4s /\ PRIVATE_RANGES(found[1], found[2])

\* What the two calls have found so far, and what may be answered from it.  The two
\* calls start together.
Findings ==
    \A f \in Fields :
        /\ step[f] = "idle" => reason[f] = "none"
        /\ step[f] \in {"lookup", "valid"} => EarlyRefusal(f) = "none"
        /\ step[f] = "valid" => address[f] \in Addresses /\ ~Private(address[f])
        /\ reason[f] = "URL resolves to a private address" => Private(address[f])

Verdict ==
    /\ answer = "proceeds" => \A f \in Fields : step[f] = "valid"
    /\ \A f \in Fields : step[f] = "idle" => answer \in {"none", PipeRefusal}
    /\ \A f, g \in Fields : step[f] = "idle" => step[g] = "idle"

\* A pipe that has refused has started nothing.
Exclusion == answer = PipeRefusal => \A f \in Fields : step[f] = "idle"

IInv == TypeOK /\ Findings /\ Verdict /\ Exclusion

LEMMA RefusalsAreReasons ==
    ASSUME NEW f \in Fields
    PROVE  /\ EarlyRefusal(f) \in Reasons \cup {"none"}
           /\ EarlyRefusal(f) # "URL resolves to a private address"
BY DEF EarlyRefusal, Reasons

LEMMA InitEstablishes == Init => IInv
BY DEF Init, IInv, TypeOK, Findings, Verdict, Exclusion, Fields

LEMMA CreateJobPreserves == IInv /\ CreateJob => IInv'
<1> SUFFICES ASSUME IInv, CreateJob PROVE IInv'
  OBVIOUS
<1> USE DEF IInv, CreateJob
<1>1. \A f \in Fields : /\ reason'[f] = EarlyRefusal(f)
                        /\ EarlyRefusal(f)' = EarlyRefusal(f)
                        /\ step'[f] = IF reason'[f] = "none" THEN "lookup" ELSE "thrown"
  BY DEF EarlyRefusal, TypeOK
<1>2. TypeOK'
  BY <1>1, RefusalsAreReasons DEF TypeOK, Fields
<1>3. Findings'
  BY <1>1, RefusalsAreReasons DEF Findings
<1>4. answer' \in Reasons \cup {"none"}
  BY <1>1, RefusalsAreReasons DEF Fields
<1>5. Verdict' /\ Exclusion'
  BY <1>1, <1>4 DEF Verdict, Exclusion, Reasons, PipeRefusal
<1> QED
  BY <1>2, <1>3, <1>5

\* The end of one call, whatever its lookup has found.
LEMMA SettlePreserves ==
    ASSUME IInv, NEW f \in Fields, NEW why \in Reasons \cup {"none"},
           step[f] = "lookup", Settle(f, why), url' = url,
           NEW found \in Addresses \cup {NoAddress},
           address' = [address EXCEPT ![f] = found],
           why = "none" => found \in Addresses /\ ~Private(found),
           why = "URL resolves to a private address" => Private(found)
    PROVE  IInv'
<1> USE DEF IInv
<1>1. TypeOK'
  BY DEF TypeOK, Settle
<1>2. /\ reason'[f] = why /\ address'[f] = found
      /\ step'[f] = IF why = "none" THEN "valid" ELSE "thrown"
  BY DEF TypeOK, Settle
<1>3. ASSUME NEW g \in Fields, g # f
      PROVE  step'[g] = step[g] /\ reason'[g] = reason[g] /\ address'[g] = address[g]
  BY <1>3 DEF TypeOK, Settle
<1>4. Findings'
  <2> SUFFICES ASSUME NEW g \in Fields
               PROVE  /\ step'[g] = "idle" => reason'[g] = "none"
                      /\ step'[g] \in {"lookup", "valid"} => EarlyRefusal(g)' = "none"
                      /\ step'[g] = "valid" => address'[g] \in Addresses /\ ~Private(address'[g])
                      /\ reason'[g] = "URL resolves to a private address" =>
                            Private(address'[g])
    BY DEF Findings
  <2>1. EarlyRefusal(g)' = EarlyRefusal(g)
    BY DEF EarlyRefusal
  <2>2. CASE g = f
    BY <1>2, <2>1, <2>2 DEF Findings
  <2>3. CASE g # f
    BY <1>3, <2>1, <2>3 DEF Findings
  <2> QED
    BY <2>2, <2>3
<1>5. answer # PipeRefusal
  BY DEF Exclusion
<1>6. answer' # PipeRefusal
  BY <1>5 DEF Settle, Reasons, PipeRefusal
<1>7. answer' = "proceeds" => \A g \in Fields : step'[g] = "valid"
  <2>1. answer # "proceeds"
    BY DEF Verdict
  <2>2. why # "proceeds"
    BY DEF Reasons
  <2> QED
    BY <2>1, <2>2 DEF Settle
<1>8. \A g \in Fields : step'[g] # "idle"
  BY <1>2, <1>3 DEF Verdict
<1> QED
  BY <1>1, <1>4, <1>6, <1>7, <1>8 DEF Verdict, Exclusion

LEMMA NextPreserves == IInv /\ [Next]_vars => IInv'
<1> SUFFICES ASSUME IInv, [Next]_vars PROVE IInv'
  OBVIOUS
<1>1. CASE Refuse
  BY <1>1 DEF Refuse, IInv, TypeOK, Findings, Verdict, Exclusion, Private, EarlyRefusal,
              PipeRefusal
<1>2. CASE CreateJob
  BY <1>2, CreateJobPreserves
<1>3. ASSUME NEW f \in Fields, Lookup(f) PROVE IInv'
  <2> DEFINE why(found) == IF Private(found) THEN "URL resolves to a private address"
                           ELSE "none"
  <2>1. PICK found \in Addresses :
          address' = [address EXCEPT ![f] = found] /\ Settle(f, why(found))
    BY <1>3 DEF Lookup, Private
  <2>2. why(found) \in Reasons \cup {"none"}
    BY DEF Reasons
  <2>3. step[f] = "lookup" /\ url' = url
    BY <1>3 DEF Lookup
  <2>4. /\ why(found) = "none" => ~Private(found)
        /\ why(found) = "URL resolves to a private address" => Private(found)
    OBVIOUS
  <2> HIDE DEF why
  <2> QED
    BY <2>1, <2>2, <2>3, <2>4, SettlePreserves
<1>4. ASSUME NEW f \in Fields, LookupFails(f) PROVE IInv'
  <2> DEFINE why == "Unable to resolve hostname"
  <2>1. /\ address' = [address EXCEPT ![f] = address[f]]
        /\ address[f] \in Addresses \cup {NoAddress}
    BY <1>4 DEF LookupFails, IInv, TypeOK
  <2>2. step[f] = "lookup" /\ url' = url /\ Settle(f, why)
    BY <1>4 DEF LookupFails
  <2>3. /\ why \in Reasons \cup {"none"} /\ why # "none"
        /\ why # "URL resolves to a private address"
    BY DEF Reasons
  <2> HIDE DEF why
  <2> QED
    BY <2>1, <2>2, <2>3, SettlePreserves
<1>5. CASE UNCHANGED vars
  BY <1>5 DEF vars, IInv, TypeOK, Findings, Verdict, Exclusion, Private, EarlyRefusal
<1> QED
  BY <1>1, <1>2, <1>3, <1>4, <1>5 DEF Next, Done

\* Every reachable state has sorted its URLs like this.
THEOREM Invariance == Spec => []IInv
<1> QED
  BY InitEstablishes, NextPreserves, PTL DEF Spec

\* TypeOK holds in every reachable state.
THEOREM UrlTypeCorrect == Spec => []TypeOK
<1>1. IInv => TypeOK
  BY DEF IInv
<1> QED
  BY <1>1, Invariance, PTL

\* A job is created only when both its hosts were resolved, the webhook's
\* over https, and no IPv4 address among them is in a reserved block, for any
\* addresses names may resolve to.
THEOREM PublicHostsOnly == Spec => []JobsNeedPublicHosts
<1>1. IInv => JobsNeedPublicHosts
  <2> SUFFICES ASSUME IInv, answer = "proceeds"
               PROVE  /\ url["webhookUrl"].protocol = "https:"
                      /\ \A f \in Fields :
                            /\ step[f] = "valid" /\ address[f] # NoAddress
                            /\ address[f] \in IPv4s =>
                                  ~Reserved(address[f][1], address[f][2])
    BY DEF JobsNeedPublicHosts
  <2>1. \A f \in Fields : /\ step[f] = "valid" /\ address[f] \in Addresses
                          /\ ~Private(address[f]) /\ EarlyRefusal(f) = "none"
    BY DEF IInv, Verdict, Findings
  <2>2. url["webhookUrl"].protocol = "https:"
    BY <2>1 DEF EarlyRefusal, Fields
  <2>3. ASSUME NEW f \in Fields, address[f] \in IPv4s
        PROVE  ~Reserved(address[f][1], address[f][2])
    <3>1. address[f][1] \in 0..255 /\ address[f][2] \in 0..255
      BY <2>3, AddressAssumption DEF IPv4s
    <3> QED
      BY <2>1, <2>3, <3>1, PatternsAreBlocks DEF Private
  <2> QED
    BY <2>1, <2>2, <2>3, AddressAssumption
<1> QED
  BY <1>1, Invariance, PTL

\* Nobody is refused for an address outside of the blocks.
THEOREM RefusalsAreFounded == Spec => []PublicHostsAreAccepted
<1>1. IInv => PublicHostsAreAccepted
  <2> SUFFICES ASSUME IInv, NEW f \in Fields,
                      reason[f] = "URL resolves to a private address"
               PROVE  address[f] \in IPv4s /\ Reserved(address[f][1], address[f][2])
    BY DEF PublicHostsAreAccepted
  <2>1. Private(address[f])
    BY DEF IInv, Findings
  <2>2. address[f][1] \in 0..255 /\ address[f][2] \in 0..255
    BY <2>1, AddressAssumption DEF IPv4s, Private
  <2> QED
    BY <2>1, <2>2, PatternsAreBlocks DEF Private
<1> QED
  BY <1>1, Invariance, PTL
=============================================================================
