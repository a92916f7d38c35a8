--------------------------- MODULE UrlValidation ---------------------------
(***************************************************************************)
(* The two URLs of a POST /v1/jobs: what the decorators of CreateJobDto    *)
(* ask of their protocols, then validateUrl for both of them at once,      *)
(* under the Promise.all with which createJob begins.  Each call runs up   *)
(* to its DNS lookup without a pause; the lookups end in any order.        *)
(*                                                                         *)
(* Of a URL the model keeps what the checks look at.  Of an IPv4 address   *)
(* it keeps the first two octets; the patterns of PRIVATE_RANGES, which    *)
(* are matched with its decimal text, look at no more.  What a name        *)
(* resolves to is not ours to know: a lookup may end with any address.     *)
(***************************************************************************)
EXTENDS Naturals

CONSTANTS
    Octets1, Octets2,   \* first and second octets of the addresses considered
    IPv6,               \* an address that isIPv4 is false of
    NoAddress           \* not an address: nothing was looked up

Fields == {"imageUrl", "webhookUrl"}
Urls == [protocol : {"http:", "https:", "ftp:"},
         wellFormed : BOOLEAN,   \* new URL(url) does not throw
         blocked : BOOLEAN]      \* the host is one of BLOCKED_HOSTS

IPv4s == Octets1 \X Octets2
Addresses == IPv4s \cup {IPv6}

ASSUME AddressAssumption ==
    /\ Octets1 \cup Octets2 \subseteq 0..255
    /\ IPv6 \notin IPv4s
    /\ NoAddress \notin Addresses

\* The messages of the ArgumentInvalidExceptions, and the pipe's 400.
Reasons == {"Invalid URL format", "HTTPS is required",
            "Only HTTP and HTTPS are allowed",
            "URL points to a restricted address",
            "Unable to resolve hostname",
            "URL resolves to a private address"}
PipeRefusal == "must be a URL address"

VARIABLES
    url,       \* the two URLs of the request
    step,      \* how far each call of validateUrl has gone
    reason,    \* why it has thrown, if it has
    address,   \* what its lookup has found
    answer     \* "none" yet, "proceeds" to the transaction, or a 400

vars == <<url, step, reason, address, answer>>

-----------------------------------------------------------------------------
(***************************************************************************)
(* The checks.                                                             *)
(***************************************************************************)

\* protocols: [...] of the @IsUrl of each field.
Protocols(f) == IF f = "webhookUrl" THEN {"https:"} ELSE {"http:", "https:"}

\* Mutant: /^172\.(1[6-9]|2\d|3[0])\./.
PrivateSecondOf172Short(b) ==
    b \in 10..99 /\ \/ b \div 10 = 1 /\ b % 10 \in 6..9
                    \/ b \div 10 = 2
                    \/ b \div 10 = 3 /\ b % 10 = 0

\* Mutant: /^172\.(1[6-9]|2\d|3[01])/, which a third digit may follow.
PrivateSecondOf172Open(b) ==
    \E n \in {b, b \div 10} :
        n \in 10..99 /\ \/ n \div 10 = 1 /\ n % 10 \in 6..9
                        \/ n \div 10 = 2
                        \/ n \div 10 = 3 /\ n % 10 \in 0..1

\* (1[6-9]|2\d|3[01])\. on the digits of the octet: two of them, then the dot.
PrivateSecondOf172(b) ==
    b \in 10..99 /\ \/ b \div 10 = 1 /\ b % 10 \in 6..9
                    \/ b \div 10 = 2
                    \/ b \div 10 = 3 /\ b % 10 \in 0..1

PRIVATE_RANGES(a, b) ==
    \/ a \in {10, 127, 0}
    \/ a = 172 /\ PrivateSecondOf172(b)
    \/ a = 192 /\ b = 168
    \/ a = 169 /\ b = 254

\* What validateUrl throws before it looks the host up, in its order.  After
\* the DTO's own list, its protocol checks have nothing left to refuse.
EarlyRefusal(f) ==
    LET u == url[f]
    IN  IF ~u.wellFormed THEN "Invalid URL format"
        ELSE IF f = "webhookUrl" /\ u.protocol # "https:" THEN "HTTPS is required"
        ELSE IF u.protocol \notin {"http:", "https:"}
             THEN "Only HTTP and HTTPS are allowed"
        ELSE IF u.blocked THEN "URL points to a restricted address"
        ELSE "none"

-----------------------------------------------------------------------------
Init ==
    /\ url \in [Fields -> Urls]
    /\ step = [f \in Fields |-> "idle"]
    /\ reason = [f \in Fields |-> "none"]
    /\ address = [f \in Fields |-> NoAddress]
    /\ answer = "none"

\* ValidationPipe refuses a protocol that is not listed, and may refuse any
\* URL for a reason of its own.
Refuse ==
    /\ answer = "none" /\ \A f \in Fields : step[f] = "idle"
    /\ answer' = PipeRefusal
    /\ UNCHANGED <<url, step, reason, address>>

\* Both calls of validateUrl start in one turn.  Of two that throw at once,
\* Promise.all reports the first.
CreateJob ==
    /\ answer = "none" /\ \A f \in Fields : step[f] = "idle"
    /\ \A f \in Fields : url[f].protocol \in Protocols(f)
    /\ reason' = [f \in Fields |-> EarlyRefusal(f)]
    /\ step' = [f \in Fields |-> IF reason'[f] = "none" THEN "lookup" ELSE "thrown"]
    /\ answer' = IF reason'["imageUrl"] # "none" THEN reason'["imageUrl"]
                 ELSE reason'["webhookUrl"]
    /\ UNCHANGED <<url, address>>

\* Mutant: allSettled, and only two successes are looked for.
SettleSilently(f, why) ==
    /\ reason' = [reason EXCEPT ![f] = why]
    /\ step' = [step EXCEPT ![f] = IF why = "none" THEN "valid" ELSE "thrown"]
    /\ answer' = IF \A g \in Fields : step'[g] = "valid" THEN "proceeds" ELSE answer

\* One call ends.  Promise.all rejects with the first that throws, without
\* waiting for the other, and resolves when both have ended well.
Settle(f, why) ==
    /\ reason' = [reason EXCEPT ![f] = why]
    /\ step' = [step EXCEPT ![f] = IF why = "none" THEN "valid" ELSE "thrown"]
    /\ answer' = IF answer # "none" THEN answer
                 ELSE IF why # "none" THEN why
                 ELSE IF \A g \in Fields : step'[g] = "valid" THEN "proceeds"
                 ELSE "none"

\* lookup(hostname) ends with an address, of which only IPv4 is tested.
Lookup(f) ==
    /\ step[f] = "lookup"
    /\ \E found \in Addresses :
          /\ address' = [address EXCEPT ![f] = found]
          /\ Settle(f, IF found \in IPv4s /\ PRIVATE_RANGES(found[1], found[2])
                       THEN "URL resolves to a private address" ELSE "none")
    /\ UNCHANGED url

\* Mutant: the error of the resolver is thrown on as it is.
LookupFailsRaw(f) ==
    /\ step[f] = "lookup"
    /\ Settle(f, "ENOTFOUND")
    /\ UNCHANGED <<url, address>>

LookupFails(f) ==
    /\ step[f] = "lookup"
    /\ Settle(f, "Unable to resolve hostname")
    /\ UNCHANGED <<url, address>>

Done ==
    /\ answer # "none" /\ \A f \in Fields : step[f] # "lookup"
    /\ UNCHANGED vars

Next ==
    \/ Refuse \/ CreateJob
    \/ \E f \in Fields : Lookup(f) \/ LookupFails(f)
    \/ Done

\* The resolver ends every lookup, well or not.
Spec ==
    /\ Init /\ [][Next]_vars
    /\ \A f \in Fields : WF_vars(Lookup(f) \/ LookupFails(f))

-----------------------------------------------------------------------------
(***************************************************************************)
(* Properties.                                                             *)
(***************************************************************************)
TypeOK ==
    /\ url \in [Fields -> Urls]
    /\ step \in [Fields -> {"idle", "lookup", "valid", "thrown"}]
    /\ reason \in [Fields -> Reasons \cup {"none"}]
    /\ address \in [Fields -> Addresses \cup {NoAddress}]
    /\ answer \in Reasons \cup {"none", "proceeds", PipeRefusal}

\* The blocks the patterns stand for, as the registry has them, by the first
\* sixteen bits of an address: where each begins, and how many there are.
ReservedBlocks == {<<10 * 256, 256>>, <<172 * 256 + 16, 16>>, <<192 * 256 + 168, 1>>,
                   <<127 * 256, 256>>, <<169 * 256 + 254, 1>>, <<0, 256>>}

Reserved(a, b) ==
    \E block \in ReservedBlocks :
        a * 256 + b \in block[1] .. (block[1] + block[2] - 1)

\* A job is created only when the hosts of both its URLs were resolved, the
\* webhook's over https, and no IPv4 address among them is in a reserved
\* block, however the two lookups interleave.
JobsNeedPublicHosts ==
    answer = "proceeds" =>
        /\ url["webhookUrl"].protocol = "https:"
        /\ \A f \in Fields :
              /\ step[f] = "valid" /\ address[f] # NoAddress
              /\ address[f] \in IPv4s => ~Reserved(address[f][1], address[f][2])

\* Nobody is refused for a public address: the patterns, which are matched
\* with text, match no address next to a block.
PublicHostsAreAccepted ==
    \A f \in Fields :
        reason[f] = "URL resolves to a private address" =>
            /\ address[f] \in IPv4s
            /\ Reserved(address[f][1], address[f][2])

\* A request whose validation has started gets an answer or goes on, however
\* its lookups end.
ValidationEnds ==
    (\E f \in Fields : step[f] = "lookup") ~> answer # "none"
=============================================================================
