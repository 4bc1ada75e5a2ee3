# A specification of the IPCow tools in TLA+

This directory specifies the logic of the IPCow network tools: the TypeScript
library `packages/tools-core` (DNS over HTTPS, DNSSEC and propagation checks,
ASNs, email, HTTP headers, GeoIP, addresses, encryption at rest) and the Go probe
`apps/probe` (blacklist sweep, network probes, speed test). TLC checks small
instances; TLAPS proves the main safety properties for every value of the
constants. `PROJECT.json` holds the same inventory in machine-readable form:
components, runs, mutants, the map from definitions to source lines, findings,
hazards and theorems.

Paths below are relative to `src/`; `core/` stands for
`packages/tools-core/src/`.

## 1. The system

The library has no server of its own. An application calls a tool, the tool
validates its input, makes one or several requests through injected or global
`fetch`, and returns a value or rejects. Almost every DNS tool goes through
`dohQuery`. The only state that outlives a call is in two modules of
`core/node`: the readers of the GeoIP databases and the cached cipher. The
probe is a stateless HTTP server; its concurrency is inside a request.

| Component | State | Operations | What makes it hard | Module |
|---|---|---|---|---|
| DoH client `core/dns/doh.ts` | locals of a call: position in the chain, error kept, timer of the attempt | `dohQuery` | timeouts in sequence, failures of headers and of bodies, concurrent calls | `DohClient`, `Lookup` |
| DNS wire format `core/dns/wire.ts` | cursor of the decoder | `encodeQuery`, `decodeMessage`, `readName`, `decodeRdata` | compression pointers, messages that break off, lengths that lie | `Wire` |
| DNSSEC check `core/dns/dnssec.ts` | three promises | `checkDnssec` | answers of different resolvers and moments are joined; one leg fails | `ParallelTools` |
| Propagation check `core/dns/propagation.ts` | one promise for each resolver | `checkPropagation` | failed legs against empty answers; caches expire while it runs | `ParallelTools` |
| Record lookups `core/dns/records.ts` | promises | `lookupAll`, `lookup`, `lookupTxt`, `normalizeHostname` | one failing type fails all | `ParallelTools` (in part) |
| ASN lookup `core/dns/asn.ts` | promises of two rounds | `lookupAsn` | a query, then a bounded number of best-effort ones | `ParallelTools` |
| SPF analysis `core/email/spf.ts` | count, `seen`, call stack | `analyzeSpf`, `walk`, `checkSpf` | recursion over policies that include each other; a limit; a lookup that fails deep in the walk | `SpfWalk` |
| Deliverability `core/email/{deliverability,mx,dmarc,mtasts}.ts` | promises | `checkEmailDeliverability`, `lookupMx`, `checkDmarc`, `checkMtaSts` | some failures fail the report, others look like absence | `Email` |
| Operational encryption `core/node/operational-crypto.ts` | cached cipher of each process, `OPERATIONAL_KEYS`, blobs of the callers | `operationalCipher`, `encrypt`, `decrypt`, `needsReencrypt` | rotation while processes with older rings run; restarts | `OperationalCrypto` |
| GeoIP lookup `core/node/geo.ts` | `loaded`, `available`, two readers | `lookupGeo`, `ensureLoaded` | concurrent first calls interleave at the awaits; files come and go | `GeoLookup` |
| HTTP header check `core/http/headers.ts` | current URL, redirects | `checkHttpHeaders`, `normalizeUrl` | redirects of any shape, a check before each request, a limit | `HttpHeaders` |
| IP and CIDR arithmetic `core/ip/{cidr,address}.ts` | locals of the loops | `rangeToCidrs`, `describeCidr`, `cidrToRange`, `classifyIp`, `normalizeIp` | boundaries: 0, the last address, /0, /31, /32; equal runs of zeros; a table in which the first match wins | `Cidr`, `Address` |
| Blacklist sweep `apps/probe/main.go` | semaphore channel, WaitGroup, result slots | `handleDNSBL` | goroutines, a limited resource, timeouts, a client that leaves | `DnsblSweep`, `Sweep` |
| Probe `apps/probe/{main,ssl,egress}.go` | deadlines of a request | handlers for DNS, TCP, HTTP, ping, traceroute, SMTP, TLS; `main` | limits of stages in sequence under the server's own timeouts | `Probe` |
| Speed test and echo `apps/probe/main.go` | bytes moved, messages echoed | `handleSpeedDownload`, `handleSpeedUpload`, `handleWS` | peers that are slow, stop or leave; an error that is dropped | `Probe` |
| Reverse lookup and health, DKIM, CAA and BIMI checks, RDAP client, robots and llms tools, egress guard, client address, probe's IP echo | none | single requests, parsing, predicates | no order of steps | not modelled |

Components call each other (the DNS tools call `dohQuery`, `checkHttpHeaders`
calls the injected `assertAllowed`) and share the event loop, so that other
calls run at each `await`. Two of them meet outside the code as well: processes
share the store of encrypted blobs, and concurrent calls share the files on
disk.

What makes each correct, and what the hazards in `PROJECT.json` point at:

* **DoH client**: a working resolver is never passed over; an error is reported
  only after the whole chain; every call settles, within the sum of its
  timeouts.
* **Wire format**: what was encoded is what is decoded, however names are
  compressed, with text as a `TextDecoder` has it; a message that breaks off changes
  nothing but the tail of its last field; names that go round in circles are refused, and no others are; the
  question sent is the one asked.
* **Parallel tools**: what is reported was seen by one of the resolvers asked,
  during the check; a failing leg counts as each tool says, and a name of an
  AS that is not found, or whose query fails, costs no more than itself; the tool takes as long as its slowest leg (of
  each round) and always settles.
* **SPF**: the verdict does not depend on the order of the walk; the walk ends,
  and asks for each domain once.
* **Deliverability**: the report blames the domain for no lookup that failed; one
  without warnings is of a domain that has each part configured, in the sense each check gives to
  that; every report comes.
* **Encryption**: throughout a rotation each running process, and each process
  restarted at any moment, can decrypt every blob.
* **GeoIP**: each database is opened once in a process; a record is not given
  without its network while the network file is being opened; calls return.
* **HTTP**: each request was checked; the chain reported is the one followed;
  its length is bounded.
* **IP and CIDR**: a range is covered exactly and minimally; the fields of the
  subnet calculator agree; the text of an address reads back and is the only one;
  an address has the scope of the narrowest range that holds it.
* **Sweep**: the response has a verdict for every zone; no place and no
  goroutine is leaked; no zone times out in the queue.
* **Probe**: the limits of the stages leave time to write the answer, unless resolving,
  which has none, or the batches of a sweep take too long; transfers
  are as long as they say; the echo keeps the order and ends with its peer.

## 2. The modules

Each module has the state of its component as VARIABLES and one action for each
stretch of code between two awaits (or two loop heads), which takes in all that
the code does there. An operator named `<Definition>_<Slip>` is a plausible
wrong version of the definition; it is used by no specification and serves to
show that a property notices the slip.

### `Lookup` and `Sweep`, the abstract specifications

`Lookup` says what a caller of an asynchronous tool relies on: a promise that
was created settles once, and before its budget of time is spent. `Sweep` says
what the client of `/probe/dnsbl` relies on: a verdict for each zone, which
never changes, and then one response that carries exactly those.
Both are safety specifications; `Lookup` also states the liveness property
`EveryCallSettles` for its implementations.

### `DohClient`

| Definition | Code |
|---|---|
| `Chain`, `Timeout` | the options: `resolvers`, else `resolver`, else the defaults; `timeoutMs` |
| `Begin(C)` | the synchronous start of a set of calls, encoding included, up to the first `fetch` |
| `AttemptFails` | `fetch` throws, or the status is not 2xx: `continue`, with the error kept |
| `HeadersArrive` | `fetch` resolves with 2xx |
| `BodyDecodes`, `BodyFails` | `return decodeMessage(await ...)`, which is outside the `try` |
| `Tick` | time; `AbortSignal.timeout` covers headers and body |

A resolver is up (answers decodably before the timeout) or not; one that is not
may answer late, badly, partly or not at all, or even well. What is
in a message is left to `ParallelTools`. `Promise == INSTANCE Lookup` maps
`phase` to the state of a promise and gives each call one timeout for each
resolver in its chain.

### `ParallelTools`

Extends `DohClient`: the legs of a tool are calls of `dohQuery`. `Invoke` starts
those that are made before the first await; `AskNames` starts the second round
of `lookupAsn`, for as many ASes as the first answer named and at most
`Len(NameLegs)` of them (8 in the code). Each resolver has a view of the domain, or of
the address, that may change while the tool runs (`ViewChanges`); `BodyDecodes`
answers from the view of that moment. `Join` is `Promise.all` with the tool's
own treatment of errors (`Caught`): `checkDnssec` and `lookupAll` reject with
the first failing leg and leave the others running, `checkPropagation` catches
each, `lookupAsn` those of the names. `Status`, `Consistent` and `Named` are the
computations on what was answered. A resolver's view of an address (`AsViews`) is how many ASes announce it and the
name queries that it answers with a TXT record whose fifth field is not empty: a query that fulfills
need not name its AS, since NXDOMAIN and SERVFAIL are HTTP 200 (`core/dns/asn.ts:101-105`). `NoReply` stands for a
leg without an answer. `seen` is a history variable: the views each resolver had since
the call. A leg left behind by a rejected tool is still followed to its end,
since it goes on using the event loop, but changes the tool no more.
`ToolAssumption` says what a table of legs is in the code: each leg asks for one of the types
of its tool (`TypesOf`), one leg for each of the three types of `checkDnssec` and for the origin of an address,
the legs of `checkPropagation` go to one resolver each, and each leg is a call that can be sent, since
the name has been normalised and no chain is empty.

### `OperationalCrypto`

The entries of `OPERATIONAL_KEYS`, the ring each process has cached and the
slots of the store. `KeyringFromEnv`, `Encrypt`, `Decrypts`, `NeedsReencrypt`
and `Load` translate the code; `Write` and `Reencrypt` are its callers, `Restart`
a crash or a deployment. `EnterKey`, `MakeCurrent` and `DropKey` are the
operator. Their guards are the procedure that the ring is made for: enter a key
last; make it the first once every running process knows it; drop the old one
when no blob needs re-encryption and no process still encrypts under it. Under a
sloppier procedure the properties do not hold, so the guards are the
operating instructions of this module. A key stands for itself: a blob
authenticates under the key it was encrypted with and under no other. A blob is
malformed to `parse` when its ciphertext is empty or a key id contains a dot.

### `GeoLookup`

`Call` runs to the first await and sets `loaded`; `OpenCity` and `OpenAsn` are the
two awaits of `ensureLoaded`; `Resume` is `lookupGeo` after it. `Restart` and
`FileChanges` are the environment. `opened` is a history variable.

### `DnsblSweep`

`Spawn` is the loop with its `wg.Add(1)`; `Acquire`, `LookedUp`, `Release` and
`Done` are a goroutine up to its deferred calls; `Respond` is what follows
`wg.Wait`. `ClientLeaves` cancels the request's context. `Tick` lets time pass
only while each goroutine waits for the network or for a place, which is how
computing compares with timeouts of seconds. `Promised == INSTANCE Sweep` is
the refinement.

### `Probe`

Extends `DnsblSweep` with the rest of the probe's server and follows one request
to any of its handlers. A handler that tries something out is a sequence of
stages, each with its limit if it has one (`Stages`): `Enter` and `StageEnds` are the code
between them, and `StageEnds` may end a stage early, with success or failure,
or for a cancelled context. Resolving a name has no limit in the code (`main.go:188`, `:251`, `:334`), so that stage is
`NoLimit`; `resolved` is a history variable, the time at which it was over. `Panics` is `handleHTTP` with a url that does not
parse: the error of `NewRequestWithContext` is dropped (`main.go:235-236`), the request is nil, and
the connection is closed without an answer. The sweep's actions are taken as they are, inside
`SweepStep` and `SweepResponds`. `WriteJSON` decides what becomes of an answer
under `WriteTimeout`. `WriteChunk` and `BytesArrive` are the speed test, with an
amount of the client's choice; `EchoReads`, `EchoWrites` and `EchoFails` the loop
of the WebSocket. `TimePasses` is possible only while the handler waits, `Leaves`
is the client that closes the connection. Times are seconds, as in the code.

### `SpfWalk` and `Email`

The recursion of `analyzeSpf` is a stack of the terms that each call of `walk`
has left. The published policies are chosen at the start. A term is reduced to
whether it counts as a lookup and which domain it leads to. `asked` is a history
variable. `Reached` is the least set of domains that has the root and all that its
members include; `Lookups` are the terms that count in a set of policies, each told
apart by its place. Domains are finitely many (`SpfAssumption`): the names that fit in a
TXT query are. `Email` extends it with the other three checks of the
deliverability report: `Settles` is the end of one of them, `Rejects` and
`Reports` are the two ends of `Promise.all`, `Rollup` the warnings. Which requests
fail is chosen with the answers at the start, but for the lookups of the SPF
walk, each of which may fail.

### `Wire`

A message is a sequence of bytes. Reading past its end throws where the code
reads through the `DataView`, and is cut short where it takes a `subarray`: the
difference between `Fixed` and `Slice`. `ReadLabels` follows labels and pointers
for at most `Rounds` rounds, each a `Round` that hands what is left to the rounds after it; `ReadName` decodes each label and
joins them with dots (`Dotted`), so that a label with a dot in it is not told from two. `Decoded` is the `TextDecoder`:
bytes that begin no character of UTF-8, and those of one that is not all there, come out as U+FFFD, and a byte order mark in front is
dropped. The chunks of a text are decoded one by one, so that a character split over two is lost (`core/dns/wire.ts:357-358`).
A string is written as the bytes it has in UTF-8; `DecodeRdata` reads the fields of the record's
`Layout` one after the other; only those that run to its end look at its length. `Record` is the body of the loop over the answers.
`ReadHeader`, `SkipQuestion`, `DecodeAnswer`, `ReturnMessage` and `ThrowOut` are
`decodeMessage`; `Encode` is `encodeQuery`. The other fields stay bytes: hex, base64, dates,
degrees and the names of types are one-to-one notations for them. A size in a LOC record is a digit and a power of ten,
of which several may be the same size (`Centimetres`). `WireAssumption` says what there is to
encode and decode: messages of octets, and names of at least one label, which is what splitting a string gives.

### `HttpHeaders`

A URL is a model value; servers and the injected check may say anything at
every hop. `Respond` takes the response of a hop: the redirect is followed while
hops are left, otherwise the response is the answer. `allowed` and `requested`
are history variables.

### `Cidr`

`rangeToCidrs` with its three loops as steps (`TrailingZeros`, `Halve` and
`Counted` for trailingZeros, `Shrink` for the loop that fits the block, `Emit`
for the body), so that exactness is an invariant of the loop. Addresses are the numbers that `parseIp`
returns, or `Null`. The shift `1n << k` is the constant `Size`, characterised by
doubling; the masks are written as what they do to numbers. `describeCidr` and
`cidrToRange` are operators over it. The width of the addresses is a parameter. `Null`, no result, is none of the records that
`describeCidr` returns (`NullAssumption`).

### `Address`

Text is what is left when it has been split at its separators: the digits of
the numbers of version 4, the halves and parts of version 6. `ParseIp`,
`FormatIPv4`, `FormatIPv6` and `NormalizeIp` translate the functions of
those names; `ClassifyIp` takes the first row of the table that holds an
address. `TextParts` are the parts that `parseGroups` tells apart, `MaxByte` and `MaxGroup` the last values of a
unit; `AddressAssumption` gives the calls these types. Addresses are four bytes or eight groups, so that the whole table can
be checked at its full width, in integers that TLC has.

### Composition

`ParallelTools` composes the tools with `DohClient`, `Email` the SPF walk with
the other checks, `Probe` the sweep with the server. `Wire`, `Cidr` and `Address`
share no state; `PureTools` puts them side by side, so that a behaviour is one
call of one of them. The `MC*` modules give the constants of the runs; the
`*_proofs` modules hold the theorems.

## 3. The runs

| Run | Instance | Shows |
|---|---|---|
| `doh_client` | four concurrent calls (default chain; three resolvers listed with a shorter timeout; empty list; name that cannot be encoded), three resolvers, any of them working | `PassedOverAreDown`, `ToolErrorAfterWholeChain`, refinement of `Lookup`, `EveryCallSettles` |
| `parallel_tools` | a DNSSEC check, `lookupAll` of two types and an ASN lookup with up to two names over the default chain, and a propagation check over two resolvers; one change of a view | `StatusWasSeen`, `ConsistentMeansAgreement`, `NamesAreBestEffort`, refinement of `Lookup` with the slowest leg of each round as budget, `ToolSettles` |
| `pure_tools` | every range and block of addresses of 4 bits (version 4) and 5 bits (version 6); a message for every record type and kind of name, pairs of records, texts and labels that are UTF-8 and that are not, with characters split over chunks, byte order marks, and dots in labels; each message cut off at every byte, names in any five bytes of labels and pointers; queries with labels up to 64 bytes, and with fewer, as many and more labels than there are rounds; every pattern of zero groups and broken texts; both ends of every special range and their neighbours | `CoversExactly`, `CoverIsMinimal`, `HostsMatchTheirNumber`, `MeantIsDecoded`, `CutLosesOnlyATail`, `LoopsAreRefused`, `QueryIsReadBack`, `TextIsCanonical`, `NarrowestScopeWins` |
| `operational_crypto` | three processes, three ids, two keys, two slots, three entries | `RunningProcessesCanRead`, `RestartedProcessesCanRead`, `OneKeyPerId` |
| `geo_lookup` | three callers (address in both databases, in one, in none), one restart, two changes of files | `OpensOnce`, `NetworkIsNotMissed`, `EveryCallReturns` |
| `probe` | a request to any handler with the timeouts of the code and up to 21 s of resolving; a sweep of four zones with two places; transfers around a cap of five bytes in chunks of two; up to three messages to echo | `CountersAreRight`, `NoTimeoutInTheQueue`, `AnswersAreDelivered`, `TransfersAreCounted`, `EchoesInOrder`, refinement of `Sweep`, `EveryRequestEnds` |
| `email` | every way in which three domains publish up to two terms each, limit 3; every combination of answers and failures of the other checks | `VerdictIsThatOfAllPolicies`, `QueriesAreBounded`, `AbsenceIsNotFailure`, `QuietReportMeansConfigured`, `EveryReportComes` |
| `http_headers` | two URLs, four redirects | `EveryRequestWasChecked`, `RedirectsAreTheChain`, `RequestsAreBounded` |

Each property has a mutant: one definition replaced by its `_<Slip>` form makes
TLC find the property violated. The type invariants are theorems (section 4);
that of `Cidr` is checked here too, since it bounds the loops.

### Runs that find the code at odds with its documents

| Run | What the run shows |
|---|---|
| `doh_bad_upstream` | `doh.ts:38` promises that one bad upstream does not break the lookup. A resolver that answers 2xx and whose body breaks off, or does not decode, rejects it (`doh.ts:71` is outside the `try`), with an error that is no `ToolError`. |
| `crypto_empty_plaintext` | `encrypt('')` makes a blob that `decrypt` refuses as malformed (`operational-crypto.ts:44`). |
| `geo_while_loading` | `geo.ts:63` explains an unavailable geolocation by a missing or unreadable database. A call that comes while a readable one is being opened gets `null` too. |
| `too_many_redirects` | The error of `headers.ts:135` is never thrown: the redirect after the tenth is reported as the answer. |

### The bounds, and why they are enough

* Two resolvers are the default chain; three, listed, have a middle that is
  neither the first nor the last. A timeout of two ticks has a moment inside.
  Calls share only the clock and the resolvers, so four of different kinds show
  what they can do to each other.
* One change of a view is enough for two legs to be answered from different
  views of one resolver or for two resolvers to meet or part. Two names are one
  that fails and one that does not; views with no AS, one, and more than there
  are names for are the sides of the bound. Of the views with many ASes one has both names and
  one only the second, so that a query may be answered with a name, without, or not at all.
* Rotation needs two keys and a third id to begin the next one before the first
  has ended. Three processes are one with the oldest, one with the middle and
  one with the newest ring. Ids may be entered again once nothing refers to
  them, so a rotation goes on without end.
* Three callers are the one that opens the databases, one that comes meanwhile
  and one that comes later. Two changes let a file vanish and come back.
* Four zones with two places are two full batches; zones wait while others look
  up, fail or time out. In the code 40 places serve a batch in 4 s, so the bound
  of `AnswersAreDelivered` on the sweep reads: up to four batches, which are 160 configured zones, are answered in time. A
  fifth may take it to 20 s, when the answer is lost. The default list has 18.
* The stages keep the seconds of the code. Resolving is followed for up to `MaxResolving = 21` seconds, one more than
  `WriteTimeout`: answers come in time, just too late, and later. The traceroute has 11 s after resolving, so that a
  resolver that takes 9 s may lose its answer; `AnswersAreDelivered` says for each handler from when on.
* A cap of five in chunks of two has amounts of 0, below, at and above the cap, whole and
  broken last chunks. The echo's own waits are 3 and 2 instead of 60 and 10: they
  are compared with nothing else.
* Three domains have every cycle, chain and diamond; a limit of 3 is crossed in
  the outermost, an inner and the innermost policy. The other answers are all
  the kinds their parsing tells apart, in lists of two for DMARC, where order counts.
* In four redirects over two URLs a chain can loop, and end before, at and after
  the limit. The loop treats every hop alike.
* In 4 and 5 bits there are all the cases of the loops: ranges from 0, to the
  last address, of one address and of all; blocks of every size; /0, the last
  but one and the last prefix. `MaxBlocks = 8` is 2w - 2 for w = 5, the most
  blocks a range can need: `CoverIsMinimal` shows that the limit is not reached
  then, and in the code 100,000 is far above 2 * 128 - 2.
* `Rounds = 10` stands for 256, and the longest name of the messages takes ten rounds: four
  labels, each behind a pointer, the pointer to them and the root. In the code a name has at most
  127 labels, each of which may be behind a pointer, so 256 rounds are exactly enough. Five loose bytes
  of labels, roots and pointers make names that loop, leave the message, or end. A query may have more labels
  than there are rounds, since `lookupTxt` sends what a TXT record names as it is (`core/dns/records.ts:68`): of 8 to
  11 labels, `QueryIsReadBack` shows on which side of the bound each falls.
* Each row of the table of special ranges is taken at its real size, at both
  ends and one beyond in each unit.

`MaxChanges`, `MaxRestarts`, `MaxEntries`, `MaxMessages` and `MaxResolving` bound the environment and
occur only in guards of its actions. Time needs no other bound, since it stops when nothing is
in flight.

Deadlock is checked where the system never stops (`operational_crypto`,
`geo_lookup`). The others follow calls to their end, after which nothing
happens; there `CHECK_DEADLOCK FALSE` stands, and the liveness properties show,
where there are awaits, that nothing stops earlier.

### Fairness

* `DohClient`, `ParallelTools`: weak fairness of time and of each attempt. The
  timers of the runtime fire, and each `fetch` or body read resolves or
  rejects at the latest when its signal aborts it.
* `GeoLookup`: weak fairness of the continuations of a call that has begun:
  opening a file ends, with a reader or an error, and the event loop runs what
  follows. Nothing is assumed of callers, restarts and files.
* `DnsblSweep` and `Probe`: weak fairness of each goroutine, of the loop, of the
  handler's own steps and of time: the Go scheduler runs what can run, contexts
  and deadlines expire, and the system's resolver gives up at some time, however late. Nothing is assumed of clients: bytes and messages need not
  arrive, and a client need neither read nor leave. No strong fairness is needed
  for the semaphore: each zone holds it once, so a place stays free when all the
  others have been served.
* `Email`: weak fairness of the next step. Each lookup settles, since `dohQuery`
  does (`EveryCallSettles`), and the policy's fetch is aborted by its timer.
* `OperationalCrypto`, `HttpHeaders`, `PureTools`: none. Their properties are safety properties.

## 4. The theorems

| Module | Theorem | States, for all values of the constants |
|---|---|---|
| `OperationalCrypto_proofs` | `Typing`, `RunningCanRead`, `RestartedCanRead`, `IdsAreUnambiguous`, `CurrentAreKnown` | types, the invariants of `operational_crypto`, and that the keys in use are known everywhere |
| `GeoLookup_proofs` | `Typing`, `Once`, `NetworkKept` | types and the invariants of `geo_lookup` |
| `ParallelTools_proofs` | `DohTyping`, `PassedOver`, `WholeChain` | types and the invariants of `doh_client` |
| | `InTime` | a call in flight is no older than one timeout for each resolver |
| | `Refinement` | `DohSpec` implements `Lookup` |
| | `ToolTyping`, `StatusSeen`, `Agreement`, `BestEffort` | types and the invariants of `parallel_tools`, for any legs, resolvers, timeouts, bound on the names and number of changes |
| | `ToolRefinement` | each tool implements `Lookup`, with its slowest leg of each round as budget |
| `Probe_proofs` | `Typing`, `Counters`, `Complete`, `Unhurried` | types and the invariants of the sweep |
| | `TakesItsTime` | the sweep takes at most one timeout for each batch of `Capacity` zones |
| | `Refinement` | `Spec` implements `Sweep` |
| | `ServedCounters`, `ServedUnhurried`, `ServedRefinement` | the same of the sweep inside the server |
| | `Transfers`, `Echoes` | the speed test and the echo |
| | `Delivered` | an answer is lost only if the client has left, if resolving left the stage after it no time before `WriteTimeout`, or if the batches of the sweep take that long; for any limits and zones |
| `Email_proofs` | `Typing`, `Bounded`, `NoBlame` | types and bounds of the SPF walk, and `AbsenceIsNotFailure` |
| | `VerdictOfAll`, `QuietReport` | the verdict of the walk is that of all policies reached; a report without warnings |
| `HttpHeaders_proofs` | `Typing`, `Checked`, `Chain`, `Bounded` | types and the invariants of `http_headers` |
| `Ip_proofs` | `CidrTyping`, `ExactCover`, `HostsAgree` | types, exact cover, agreement of the host fields, for addresses of any width |
| | `MinimalRange` | if `MaxBlocks >= 2 * Bits[6]`: the cover consists of the largest blocks within the range, and none is refused for its length |
| | `CidrHolds` | types, exact cover and agreement of the host fields, in the specification of all the tools that compute |
| | `ScopeIsNarrowest` | `classifyIp` gives every address of either version the scope of the narrowest range that holds it, but for the broadcast address (section 5) |
| | `TextsAreCanonical` | `normalizeIp` refuses a text, or returns the one canonical text of its address, which is parsed to it again |
| `Wire_proofs` | `QueriesAreReadBack` | what `encodeQuery` sends is read back as it was asked for; what it refuses has a label too long or empty |
| | `LoopsRefused` | the name of a question that is let pass comes to the root within as many steps as there are bytes; that of one refused does not within the rounds |
| | `CutsAreReadAlike` | a message that is decoded is the beginning of no message that would be decoded otherwise, but for the tails of fields that run to the end of a record |
| | `TextIsKept` | well-formed UTF-8 that does not begin with a byte order mark comes out of `TextDecoder` as it is |
| | `WrittenAreRead` | a message laid out as the format says is decoded to exactly its records, labels and chunks as `TextDecoder` has them; of one of which the end is missing, at most the tail of a field at the end of the last record is lost |
| | `MeantDecoded`, `CutLoses` | so `MeantIsDecoded` and `CutLosesOnlyATail` hold of all inputs that are laid out as the records they are said to be encoded from (`MeantIsWritten`) |

They rest on the named assumptions about constants (`DohAssumption`, `ToolAssumption`,
`CryptoAssumption`, `GeoAssumption`, `SweepAssumption`, `ProbeAssumption`,
`SpfAssumption`, `EmailAssumption`, `HttpAssumption`, `CidrAssumption`, `NullAssumption`, `WireAssumption`,
`AddressAssumption`), which TLC
evaluates in the runs, and on the library's facts about sequences, finite sets and well-founded orders.
Three theorems have a hypothesis of their own. `MinimalRange` needs `MaxBlocks >= 2 * Bits[6]`, which is 256, where `rangeToCidrs` has 100,000;
the run, with 8 where 10 would be asked for, shows that 2w - 2 is enough for its width. `MeantDecoded` and `CutLoses` need `MeantIsWritten`, which says what the field `meant` of an
input is to mean; `WrittenAreRead`, from which they follow, needs nothing of the inputs. All messages of `pure_tools` are
laid out so, those that are cut off as beginnings of others.

The arguments:

* **DohClient.** That a call is in time is not inductive: it needs that the
  deadline of attempt i is at most i timeouts after the start and not
  past (`AttemptsInTime`). A step that tries the next resolver then
  starts from a time within the budget of the attempts before. `PassedOverAreDown`
  needs that the position is within the chain, and that a call not yet made is
  at its head (`IdleAtHead`). The refinement maps each action to a step of `Lookup` or to
  stuttering; its `Tick` needs the budget not to be spent, which is
  `AttemptsInTime` once more.
* **ParallelTools.** The invariant is that of the queries, with what a pending tool knows: it waits as long as a
  leg is in flight or not caught (`AwaitsItsLegs`), and every reply it has was the view of a resolver in that
  leg's chain at some time since the call (`KeepsReplies`). The properties follow at the step of the last leg,
  after which nothing of the result changes: `seen` grows only, and a leg that ends later is not heeded.
  The same goes for names: one is given only if the view its reply came from had it, and each of those
  was seen (`NamesAreBestEffort`). For `lookupAsn`, legs for names are in flight only after the origin has been answered, and are those of the
  number of ASes it gave (`TwoRounds`). For the refinement a leg of the first round starts at 0, one
  of the second no later than the slowest of the first may end (`RoundsInTime`); with the budget of each query,
  as a client (`InTime`), no leg in flight lets the clock pass the tool's.
* **OperationalCrypto.** The properties and the types are inductive
  together; that blobs can be read is not so by itself. A write keeps every blob
  readable because the key written under is known everywhere
  (`CurrentKeysAreKnown`); a restart because entries and rings give an id one
  key (`OneKeyPerId`); dropping an entry because nothing is left under another
  key than the first.
* **GeoLookup.** At most one call is opening files, and none of them before it has come to the
  file in question (`OneLoader`): `loaded` keeps the others out. So each file is
  counted once, and when `available` is set the network file has had its one attempt.
* **DnsblSweep.** The response follows the counter being zero. It counts the
  running goroutines (`CountersAreRight`), so there are none; all have been
  spawned, in the order of the loop (`SpawnedInOrder`); one that has ended has
  written its slot (`SlotsAreWritten`). A zone times out at a deadline that was set
  when its lookup began (`DeadlinesAreOwn`). That the batches take one timeout each holds although no
  batch is ever awaited as such: when k timeouts have passed, k + 1 times as many zones as there are places
  have begun, or all of them (`BatchesBegin`). A tick is possible only if no zone could take a place, so
  either none waits, or all places are held by lookups younger than one timeout: these began
  after the zones counted for k, and are as many as there are places.
* **Probe.** A step of the server is a step of the sweep, or changes nothing of it
  but the clock and the client (`StepOfProbe`), and neither touches its
  invariants (`TimeKeepsInv`). A transfer needs that a handler is at no other's
  place (`PlacesAreOwn`), and that the amount is one the code let through
  (`AmountsAreRight`); the echo, that it has written all it has taken while it reads,
  and all but one while it writes (`EchoInv`). A stage with a limit ends by the sum of the limits
  since resolving was over, or since the start (`OnTime`), an upload by `ReadTimeout`, and the sweep by its batches; so a lost
  answer says that one of the two that have no limit below `WriteTimeout` was too long.
* **Email.** The domains looked up are those seen, in the order in which they
  were, and no two alike (`Known`), and there are at most as many as lookups
  counted; the stack has at most one level for each (`Walk`). A report is given
  only when MX and DMARC have been answered (`Given`), and "no record" is the
  state of a root that has no policy and of no lookup that failed (`RootPolicy`). The verdict needs to know
  what has been counted. To each call of `walk` on the stack belongs a domain of its own, and what the call
  has left is the end of that domain's policy (`Owns`); the stack does not say which, so the
  invariant claims that some assignment exists, and each step extends or cuts it. Then `total` is the number of terms
  of the domains seen that are not left on the stack (`Counted`). When the stack is empty that is all of them, and
  the domains seen are closed under include; since each was included by another, or is the root, they are
  within every closed set, and so the least. Once the limit is exceeded they are still within it, and their terms are
  already too many. A quiet report adds what the other checks made of their answers.
* **HttpHeaders.** While a hop is fetched there is one request more than
  redirects, the last of them for the current URL (`Asked`, `Hops`); each hop
  starts where the last led (`Joined`).
* **Cidr.** The loop keeps `start = n * Size[maxBits]` while it counts zeros, so
  the next block begins at a multiple of its size, and halving the block keeps
  that (`Loop`). The count stays within the width because `start` is not 0 and
  less than `Size[Bits]`. A block that fits and starts where the cover ends
  extends it without overlap. For minimality, blocks are nested or disjoint: no block of the
  range reaches across `start` (`NoneAcross`), and the one emitted is the largest that begins there (`Largest`),
  so none that contains it lies within the range. The blocks are few since they grow with the number
  of twos in `start`, at most one of each size, until the end of the range limits them, and from then on shrink (`Few`):
  at most twice the width of the address.
* **PureTools.** Each behaviour is one call, so the invariants are simple and the work is in the operators. What is
  defined by recursion is a choice of a function that satisfies its equation, and first has to exist.
  `RecursionExists` says so of any function on 0..N that is defined by a first value and a step: were there a least
  N without one, the function for N - 1 could be extended. From there a fact about all its values is shown upwards
  from 0 by the same argument, for a set that is written down (`Upward`). That covers numerals, the pass of `formatIPv6`,
  `FlattenSeq` (`FlattenIs`) and `readName`, whose values are functions from places to what is read there
  (`ReaderExists`).
* **The scope.** A row of the table holds exactly the addresses that agree with its network in every unit
  before the one its prefix ends in, and lie in one interval there (`HoldsIfAlike`): the range between two addresses in the order of
  values is a box of units (`BlockIsABox`). The rows of one version are pairwise apart, but for the broadcast address, whose
  row comes after the one that contains it and is named as the exception (`TableV4`, `TableV6`). So the first row that holds an
  address is the only one, but for that address.
* **Canonical texts.** After i groups the pass has the run that ends there and the first of the longest
  runs up to there (`FirstLongest`, `RunsAre`). What `formatIPv6` leaves out is therefore zeros, and parsing
  puts as many back, since there are eight groups (`Rejoined`); a byte is the numeral of its digits (`DigitsOf`).
* **Queries.** The piece of each label lies behind those before it (`FlatLayout`), so from byte 12 on one label
  after the other is found, and the root (`NameIsWritten`). Reading from the i-th label with k rounds left gives the
  labels from i on if k is more than they are, and fails otherwise: by induction on how many there are
  (`NameIsRead`).
* **Loops.** With k rounds left `readName` succeeds at a place exactly if the root is fewer than k steps from it
  (`ReadsTheRoot`). Where a name leads depends on the place only. Were it twice at one byte before the root, it would
  come there again for ever; so the places before the root are distinct, and no more than there are bytes (`RootWithinLength`,
  by the pigeonhole principle). The invariant carries the outcome of the question to the end of the call (`QuestionInv`).
* **Truncated messages.** Of a message and a longer one that begins with it (`IsCut`) each field is read alike: a number,
  a name or a type bitmap exactly, the others but for a tail (`FieldAlike`), since what throws past the end reads nothing
  there. Of a text the last character may have been torn, and ends in U+FFFD: up to there the two are decoded character by
  character alike, since how far one goes on depends on its own bytes (`CharacterAlike`, `DecodedAlike`). Names are compared by the rounds left; the chunks of a text and the blocks of a bitmap go on through the message,
  so their recursion is solved from its end (`ScanExists`) and facts about it shown from there (`Backward`). Then a
  record has the same length in both (`RecordAlike`), and the next is found at the same byte. The
  invariant (`CutInv`) says of every longer message that what has been read so far would have been read of it.
* **Texts.** Well-formed UTF-8 is given by the table of the Unicode standard (`AreCharacter`), and a text as a set of places,
  from each of which a character leads to the next, up to the end (`IsText`). A character of the table goes on for as long as
  `GoesOn` says, and no longer (`CharacterIsKept`); from the last place on the text is decoded as it is, and so it is from
  each before it (`Backward`, `Between`).
* **Messages as the format has them.** What a message is, is said apart from how it is read, as a relation between bytes and
  records (`IsMessage`): a name is a chain of places, each a label or a pointer to the next, that ends at the root
  (`NameAt`); a text and a type bitmap are chains of chunks, each a text of its own, and of windows; a record is its name, its numbers, and a field
  at each of the places its data is divided at (`DataAt`). Wherever names point to is allowed, and names that share bytes with
  other data. A chain is read from its end: the last place is read as it should, and so
  is each before it (`NameRead`, `TextRead`, `TypesRead`); with the fields of a record in order, so is the record
  (`RecordRead`). The invariant (`AlongInv`) has `CutInv` and says for every message of which the input is a beginning that the
  call is at one of its places, with as many records as lie before it. A record that ends before the cut is read whole, since
  all its bytes are there (`RecordWhole`), and another is begun after it only if its name is (`NameWithin`); so what `RecordAlike` allows is lost of the last alone.
  The format borrows from the model what bytes mean: `Window`, the set of types in a window, the fold of `TagOf`,
  `Centimetres`, and `Decoded`, from which `Dotted` makes a name. So of a text `WrittenAreRead` says that the code decodes the
  right bytes, in the right pieces; that these come out as they are is `TextIsKept`, for the texts of which it is true. A chain has
  at most `Rounds` places: a name of 255 bytes has at most 127 labels, and with a pointer before each of
  them and the root that is 255 places, where the code has 256 rounds. A name of pointers to pointers may have more; the code refuses it, and it is no name here.

Only model-checked:

* liveness under fairness (`EveryCallSettles`, `ToolSettles`, `EveryCallReturns`, `EveryReportComes`,
  `EveryRequestEnds`) and ENABLED, which are out of the prover's reach. Most of them have a safety half that is
  proved: nothing in flight is older than its budget (`InTime`, the refinements of `Lookup`, `TakesItsTime`).

Every invariant that a run checks is stated by a theorem.

No module declares a RECURSIVE operator.

## 5. What is left out

What the code itself does not tell apart, and `Wire` therefore does not either: a label with a dot in it and two
labels; bytes that are no UTF-8, all of which come out as U+FFFD, and a byte order mark in front, which is dropped; the sizes of a
LOC record that are equal. So different messages may be decoded to the same records.

Of what is modelled:

* Text outside of DNS messages: hostnames, SPF terms, headers, the digits of hexadecimal groups, the scope
  id of an IPv6 address. Where it decides about control it is an outcome (parses or not,
  decodes or not, is accepted or not). `lookup` and `lookupTxt` are one `dohQuery` each and
  have no definition of their own. A deliverability report starts from a hostname that
  is valid; refusing it is the first step of the tools in `ParallelTools`.
* What a DNS response is about is its view in `ParallelTools` and its bytes in `Wire`;
  that the two agree is what `MeantDecoded` stands for. RCODE and flags are part of the view.
* Cryptography: AES-GCM is taken to authenticate under its own key only.
* Values that are only handed on: TTLs, output of commands, certificates, elapsed times.
* Several instances of a tool at once in `ParallelTools`: calls of tools share
  nothing but resolvers, which are arbitrary. Several requests at once in `Probe`: they
  share nothing but the machine.
* Reuse of a key id for another key: the ring then names one key and holds another.
  The procedure modelled excludes it.
* `net/http` as such: that a write fails after `WriteTimeout` or to a client that has gone is
  taken from its documentation. A context that it cancels early is a stage that ends early.

Not modelled, since there is no order of steps in them that could go wrong: the
reverse lookup (one `dohQuery`) and the health check (a join of tools that are modelled);
the DKIM, CAA and BIMI checks, the RDAP client, the robots and llms tools (one request
and the parsing of its text, or generation); the egress guard and the client address
(predicates on one address or header); the probe's IP echo (one answer from the
request). What could be checked of them is what a function returns for one text,
which is what their unit tests do, and better on text than on what is left of it here.

Places where the code and its comments do not quite agree, that no run records:

* `parseIPv6` accepts `1.2.3.4::1`, though an embedded IPv4 is to be "only in the final
  position" (`core/ip/address.ts:52`): it is final in its half. `PartIsValid` has it so.
* `apps/probe/main.go:324` says the traceroute's timeout "stays under" the 12 s of its caller; its 11 s
  start after the host has been resolved. The caller is not in this repository.
* `core/email/deliverability.ts:34` says of a domain without MX records that it "cannot
  receive email"; `core/email/mx.ts:29` that mail falls back to its address. Of a null MX,
  which is a record, the report says nothing.
* `core/email/deliverability.ts:41` speaks of an "enforced" policy; one in testing mode counts as well
  (`QuietReportMeansConfigured` says "whichever its mode"), so a report without warnings does not say that the policy is enforced.
* `apps/probe/main.go:235` drops the error of `NewRequestWithContext`: a url that does not parse ends in a panic, which `net/http`
  recovers, and no answer (`Panics`; no property refuses it, since `AnswersAreDelivered` is about answers that are written).
* The error of `io.Copy` is dropped by the upload: one that broke off is answered like one that ended, with the bytes
  that came (`TransfersAreCounted` counts them, and does not say that they were all).
* The row 255.255.255.255/32 of the special ranges (`core/ip/cidr.ts:175`) is never reached;
  `NarrowestScopeWins` names it as the exception.

## 6. What could come next

The components with an order of steps are modelled, and all their safety properties are proved. What would add to them:

1. `Wire` and `ParallelTools` composed, with views that are messages.
2. The health check as a join of joins, with the budget of its slowest tool: `ToolRefinement` is the
   lemma it needs.
