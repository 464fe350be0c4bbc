--------------------------- MODULE SmartnetParser ---------------------------
(***************************************************************************)
(* From the words of a SmartNet control channel (OSWs) to grants and        *)
(* updates: parse_message, enqueue and process_osws of smartnet_parser.cc,  *)
(* as monitor_messages calls them.                                          *)
(*                                                                         *)
(* A message on the air is one to three words.  The parser keeps the last   *)
(* OSW_QUEUE_SIZE words, looks at the oldest once the queue is full, and    *)
(* puts back what it took and did not use.  The radio system delays idle    *)
(* words, so that they get between the words of other messages, and the     *)
(* receiver drops a word with a bad CRC without a trace.                    *)
(*                                                                         *)
(* One parser, made for the first system of the configuration, serves all.  *)
(***************************************************************************)
EXTENDS Naturals, SequencesExt, FiniteSets

CONSTANTS
  Systems,   \* the SmartNet systems, by sys_num
  FirstSystem, \* sys_num of systems.front(), SmartNet or not
  Radios,    \* per kind of radio system, the bursts it may send
  MaxWords,  \* bound: words sent
  MaxLost    \* bound: words lost

OSW_QUEUE_SIZE == 6

\* Commands that the parser tells apart.  rx and tx are channel numbers
\* (is_chan); only an OBT system has any of tx.  "360" stands for 360 to 39f.
Commands ==
  {"rx", "tx", "2f8", "300", "302", "303", "308", "30a", "30b", "30d", "310", "311",
   "315", "317", "318", "319", "31a", "31b", "320", "321", "322", "324", "32a", "32b",
   "32c", "32e", "340", "360", "3a0", "3bf", "other"}

\* Addresses: 0; an id; the id of a patch or multi-select group; 1fxx; 28xx with
\* the control channel's number; 60xx.
Addresses == {"zero", "id", "patch", "1f", "28", "60"}

\* A word to be sent: part tells the two messages of a burst apart.
Template == [cmd : Commands, grp : BOOLEAN, addr : Addresses, part : {1, 2}]

\* A word received: the system that sent it, in which burst, and its number.
Word ==
  [cmd : Commands, grp : BOOLEAN, addr : Addresses, part : {1, 2},
   sys : Nat, burst : Nat, no : Nat]

ASSUME SmartnetAssumption ==
  /\ Systems \subseteq Nat /\ FirstSystem \in Nat
  /\ Radios \subseteq SUBSET (Seq(Template) \ {<<>>})
  /\ MaxWords \in Nat /\ MaxLost \in Nat

VARIABLES
  osw_q,  \* the queue, oldest word first
  told,   \* TrunkMessages of the last process_osws
  radio,  \* the bursts of this kind of radio system
  air,    \* per system, what is left of its burst
  began,  \* per system, the number of words sent when its burst began
  sent,   \* words sent so far
  lost    \* history: the numbers of the words lost

sky  == <<radio, air, began, sent, lost>>
vars == <<osw_q, told, sky>>

(***************************************************************************)
(* Steps of process_osws on a queue q, of which q[1] is osw2 of the code,   *)
(* q[2] is osw1 and q[3] is osw0                                            *)
(***************************************************************************)

\* The first n words are taken; those at the positions of back are put back.
Take(q, n, back) ==
  osw_q' = [i \in DOMAIN back |-> q[back[i]]] \o SubSeq(q, n + 1, Len(q))

Silent == told' = {}

\* create_trunk_message: it carries the number of the parser's own system.
\* handle_message gets it along with the system whose word was just read.
Tell(type, words, s) ==
  told' = {[type |-> type, words |-> words, sys_num |-> FirstSystem, sys |-> s]}

Idle(w)  == w.cmd = "2f8" /\ ~w.grp
Given(w) == w.addr # "zero"

\* 30b with 60xx: adjacent site or alternate control channel.
Adjacent(w) == w.cmd = "30b" /\ w.addr = "60"

\* Mutant: the channel word stays in the queue.
Grant_Keeps(q, s) == Take(q, 2, <<2>>) /\ Tell("GRANT", <<q[1], q[2]>>, s)

\* A voice grant: source in osw2, talkgroup and frequency in osw1.
Grant(q, s) == Take(q, 2, <<>>) /\ Tell("GRANT", <<q[1], q[2]>>, s)

\* A message of n words that changes nothing here.
Consume(q, n) == Take(q, n, <<>>) /\ Silent

(***************************************************************************)
(* OBT systems: osw2 is a transmit channel                                  *)
(***************************************************************************)

ObtSystem(q) == q[2].cmd = "320" /\ q[1].grp /\ q[2].grp
ObtGrant(q)  == q[2].cmd = "rx" /\ q[2].grp /\ Given(q[1]) /\ Given(q[2])
ObtPrivate(q) == q[2].cmd = "rx" /\ ~q[2].grp /\ Given(q[1]) /\ Given(q[2])
ObtKnown(q) == ObtSystem(q) \/ q[2].cmd = "2f8" \/ ObtGrant(q) \/ ObtPrivate(q)

Obt(q, s) ==
  /\ q[1].cmd = "tx"
  /\ \/ ObtSystem(q) /\ Adjacent(q[3]) /\ Consume(q, 3)
     \/ ObtSystem(q) /\ ~Adjacent(q[3]) /\ Take(q, 3, <<3>>) /\ Silent
     \/ (q[2].cmd = "2f8" \/ ObtPrivate(q)) /\ Consume(q, 2)
     \/ ObtGrant(q) /\ Grant(q, s)
     \/ ~ObtKnown(q) /\ Take(q, 2, <<2>>) /\ Silent

(***************************************************************************)
(* Messages of one word                                                    *)
(***************************************************************************)

\* A voice update: talkgroup and frequency, no source.
Update(q, s) ==
  /\ q[1].cmd = "rx" /\ q[1].grp
  /\ Take(q, 1, <<>>) /\ Tell("UPDATE", <<q[1]>>, s)

OneWord(w) ==
  \/ w.cmd = "rx" /\ ~w.grp /\ w.addr = "1f"
  \/ Idle(w)
  \/ w.cmd \in {"300", "303", "324", "32a", "3a0"} /\ w.grp
  \/ w.cmd \in {"32b", "32c"} /\ ~w.grp
  \/ w.cmd \in {"360", "3bf"}

Single(q) == OneWord(q[1]) /\ Consume(q, 1)

(***************************************************************************)
(* Messages of two or three words that begin with 308                       *)
(***************************************************************************)

AnalogGrant(q) == q[2].cmd = "rx" /\ q[2].grp /\ Given(q[1]) /\ Given(q[2])

TwoWords308(q) ==
  LET osw2 == q[1]  osw1 == q[2] IN
  \/ osw1.cmd = "rx" /\ ~osw1.grp /\ (osw1.addr = "1f" \/ (Given(osw1) /\ Given(osw2)))
  \/ osw1.cmd \in {"300", "303"} /\ osw1.grp
  \/ osw1.cmd = "302" /\ ~osw1.grp
  \/ /\ osw1.cmd \in {"30a", "30d", "310", "311", "315", "317", "318", "319", "31a", "31b"}
     /\ ~osw1.grp /\ ~osw2.grp
  \/ osw1.cmd \in {"322", "32e"} /\ osw2.grp /\ osw1.grp
  \/ osw1.cmd = "340" /\ osw2.grp /\ osw1.grp /\ osw2.addr = "patch"

Known308(q) ==
  AnalogGrant(q) \/ TwoWords308(q) \/ q[2].cmd \in {"2f8", "308", "30b", "320"}

\* Second words that show an idle word before them to be out of its place.
Interrupted308 ==
  {"30a", "30b", "30d", "310", "311", "317", "318", "319", "31a", "320", "322", "32e", "340"}

\* Mutant: osw2 is pushed first, and osw0 in front of it.
IdleSecond_Swapped(q, interrupted) ==
  /\ q[2].cmd = "2f8"
  /\ \/ q[3].cmd \notin interrupted /\ Take(q, 3, <<3>>)
     \/ q[3].cmd \in interrupted /\ Take(q, 3, <<3, 1>>)
  /\ Silent

\* Mutant: the word after the idle is not put back.
IdleSecond_Swallows(q, interrupted) ==
  /\ q[2].cmd = "2f8"
  /\ \/ q[3].cmd \notin interrupted /\ Take(q, 3, <<>>)
     \/ q[3].cmd \in interrupted /\ Take(q, 3, <<1, 3>>)
  /\ Silent

\* An idle second word: the two are an idle of two words, or the idle of one
\* word was delayed into a message that goes on with osw0.
IdleSecond(q, interrupted) ==
  /\ q[2].cmd = "2f8"
  /\ \/ q[3].cmd \notin interrupted /\ Take(q, 3, <<3>>)
     \/ q[3].cmd \in interrupted /\ Take(q, 3, <<1, 3>>)
  /\ Silent

\* Mutant: what is put back is the idle's first word.
Twice308_PutsBackFirst(q) ==
  /\ q[2].cmd = "308"
  /\ \/ q[3].cmd = "2f8" /\ Take(q, 3, <<1>>)
     \/ q[3].cmd # "2f8" /\ Take(q, 3, <<2, 3>>)
  /\ Silent

\* 308 twice: an idle of two words around the first word of another message.
Twice308(q) ==
  /\ q[2].cmd = "308"
  /\ \/ q[3].cmd = "2f8" /\ Take(q, 3, <<2>>)
     \/ q[3].cmd # "2f8" /\ Take(q, 3, <<2, 3>>)
  /\ Silent

\* System id and control channel; 28xx names the channel of the third word, which
\* it does if the two come from one system.
SysInfo(w1, w0) ==
  /\ w1.grp /\ w1.addr = "28" /\ ~w0.grp /\ w0.cmd = "rx" /\ w0.addr = "1f"
  /\ w1.sys = w0.sys

\* 30b is the second of three words or the last of two.  An idle after it is
\* dropped.
Extended(q) ==
  /\ q[2].cmd = "30b"
  /\ LET n == IF Idle(q[3]) THEN 4 ELSE 3 IN
     \/ SysInfo(q[2], q[n]) /\ Take(q, n, <<>>)
     \/ ~SysInfo(q[2], q[n]) /\ Take(q, n, <<n>>)
  /\ Silent

\* System information: three words.  What follows a delayed idle is taken for
\* the third without a look at it.
SystemInformation(q) ==
  /\ q[2].cmd = "320"
  /\ \/ Idle(q[3]) /\ Take(q, 4, <<>>)
     \/ Adjacent(q[3]) /\ Take(q, 3, <<>>)
     \/ ~Idle(q[3]) /\ ~Adjacent(q[3]) /\ Take(q, 3, <<3>>)
  /\ Silent

First308(q, s) ==
  /\ q[1].cmd = "308"
  /\ \/ AnalogGrant(q) /\ Grant(q, s)
     \/ TwoWords308(q) /\ Consume(q, 2)
     \/ IdleSecond(q, Interrupted308)
     \/ Twice308(q)
     \/ Extended(q)
     \/ SystemInformation(q)
     \/ ~Known308(q) /\ Take(q, 2, <<2>>) /\ Silent

(***************************************************************************)
(* Messages of two words that begin with 321                                *)
(***************************************************************************)

DigitalGrant(q) == q[2].cmd = "rx" /\ q[1].grp /\ q[2].grp /\ Given(q[2])

TwoWords321(q) ==
  \/ q[2].cmd = "rx" /\ ~q[2].grp /\ Given(q[1]) /\ Given(q[2])
  \/ q[2].cmd \in {"315", "317"} /\ ~q[1].grp /\ ~q[2].grp

Known321(q) == DigitalGrant(q) \/ TwoWords321(q) \/ q[2].cmd = "2f8"

First321(q, s) ==
  /\ q[1].cmd = "321"
  /\ \/ DigitalGrant(q) /\ Grant(q, s)
     \/ TwoWords321(q) /\ Consume(q, 2)
     \/ IdleSecond(q, {"317", "318"})
     \/ ~Known321(q) /\ Take(q, 2, <<2>>) /\ Silent

(***************************************************************************)
(* parse_message                                                           *)
(***************************************************************************)

\* Unknown: put back.  It goes when the next word needs its place.
Unknown(q) ==
  /\ q[1].cmd \notin {"tx", "308", "321"} /\ ~(q[1].cmd = "rx" /\ q[1].grp)
  /\ ~OneWord(q[1])
  /\ Take(q, 1, <<1>>) /\ Silent

\* process_osws: one message at most, and only if the queue is full.  A word
\* with the command of a queue reset is never in it: the receiver sends no
\* message for a bad word.
Process(q, s) ==
  \/ Len(q) < OSW_QUEUE_SIZE /\ osw_q' = q /\ Silent
  \/ /\ Len(q) >= OSW_QUEUE_SIZE
     /\ \/ Obt(q, s) \/ Update(q, s) \/ Single(q)
        \/ First308(q, s) \/ First321(q, s) \/ Unknown(q)

\* Mutant: nothing makes room.
Enqueued_Grows(w) == Append(osw_q, w)

\* enqueue: a full queue loses its oldest word.
Enqueued(w) ==
  Append(IF Len(osw_q) >= OSW_QUEUE_SIZE THEN Tail(osw_q) ELSE osw_q, w)

\* A word that assigns a talkgroup to a channel.
Talk(w) == w.cmd = "rx" /\ w.grp /\ Given(w)

\* A word that a voice grant may begin with.
Opens(w) == w.cmd \in {"tx", "308", "321"}

\* From i of b, an idle of two words with the first word of a message in it.
IdleAround(b, i) ==
  b[i].cmd = "308" /\ b[i + 1].cmd = "308" /\ b[i + 2].cmd = "2f8"

\* The protocol, as process_osws takes it to be: a burst ends no message in its
\* middle; what follows the first word of a grant is of its message or an idle;
\* an idle of two words around a first word is followed by the second; and no
\* assignment of a channel follows an idle in a system information message.
Lawful(b) ==
  LET n == Len(b) IN
  /\ ~Opens(b[n]) /\ b[n].cmd # "320"
  /\ \A i \in 1..(n - 1) : Opens(b[i]) /\ Talk(b[i + 1]) => b[i + 1].part = b[i].part
  /\ \A i \in 1..(n - 2) : IdleAround(b, i) =>
       /\ i + 3 <= n /\ b[i + 3].cmd # "308"
       /\ Talk(b[i + 3]) => b[i + 3].part = b[i + 1].part
  /\ \A i \in 1..(n - 1) : b[i].cmd = "320" /\ Idle(b[i + 1]) =>
       i + 2 <= n /\ ~Talk(b[i + 2])

\* What the parser counts on, as long as no word is lost.
LawfulRadios == \A bursts \in Radios : \A b \in bursts : Lawful(b)
OneSystem    == \A s, t \in Systems : s = t

Init ==
  /\ osw_q = <<>> /\ told = {}
  /\ radio \in Radios
  /\ air = [s \in Systems |-> <<>>] /\ began = [s \in Systems |-> 0]
  /\ sent = 0 /\ lost = {}

\* The radio system begins a message, or two that get into each other.
Begin(s) ==
  /\ air[s] = <<>>
  /\ \E b \in radio :
       /\ sent + Len(b) <= MaxWords
       /\ air' = [air EXCEPT ![s] = b]
  /\ began' = [began EXCEPT ![s] = sent]
  /\ UNCHANGED <<osw_q, told, radio, sent, lost>>

\* The next word on the air, and what the receiver makes of it.
NextWord(s) ==
  LET t == Head(air[s]) IN
  [cmd |-> t.cmd, grp |-> t.grp, addr |-> t.addr, part |-> t.part,
   sys |-> s, burst |-> began[s], no |-> sent + 1]

Sending(s) ==
  /\ air[s] # <<>>
  /\ air' = [air EXCEPT ![s] = Tail(@)]
  /\ sent' = sent + 1
  /\ UNCHANGED <<radio, began>>

\* A word arrives and monitor_messages has it parsed.
Receive(s) ==
  /\ Sending(s)
  /\ Process(Enqueued(NextWord(s)), s)
  /\ UNCHANGED lost

\* Bad CRC, sync lost for less than a second, or the message queue is full.
Lose(s) ==
  /\ Sending(s)
  /\ Cardinality(lost) < MaxLost
  /\ lost' = lost \cup {sent + 1}
  /\ UNCHANGED <<osw_q, told>>

\* A second without a word: the queue is looked at, and is not reset.
Timeout(s) == Process(osw_q, s) /\ UNCHANGED sky

Next == \E s \in Systems : Begin(s) \/ Receive(s) \/ Lose(s) \/ Timeout(s)

Spec == Init /\ [][Next]_vars

(***************************************************************************)
(* Properties                                                              *)
(***************************************************************************)

TrunkMessage ==
  [type : {"GRANT", "UPDATE"}, words : Seq(Word), sys_num : Nat, sys : Systems]

TypeOK ==
  /\ osw_q \in Seq(Word) /\ Len(osw_q) <= OSW_QUEUE_SIZE
  /\ told \subseteq TrunkMessage
  /\ radio \in Radios
  /\ air \in [Systems -> Seq(Template)] /\ began \in [Systems -> Nat]
  /\ sent \in Nat /\ lost \subseteq Nat

\* However words are put back, the queue keeps them in the order in which they
\* were received and none of them twice: what a later call takes for a message
\* are words in the order of the air.
InOrder ==
  \A i, j \in DOMAIN osw_q : i < j => osw_q[i].no < osw_q[j].no

\* A word told of in a grant or an update has left the queue for good: no
\* talkgroup is reported twice for one word, as a grant and then as an update.
ToldOnce == \A m \in told : \A i \in DOMAIN m.words : m.words[i] \notin Range(osw_q)

SameMessage(v, w) == v.sys = w.sys /\ v.burst = w.burst /\ v.part = w.part

\* As long as no word was lost, the source and the talkgroup of a grant are from
\* one message of one radio system, whatever idle words were delayed into it.
GrantAsSent ==
  lost = {} => \A m \in told : SameMessage(Head(m.words), Last(m.words))

\* As long as no word was lost, a word that assigns a talkgroup to a channel does
\* not leave the queue unreported: it ends as a grant or, when an idle word got
\* between the two of a grant, as an update.
NothingUnheard ==
  [][lost' = {} =>
       \A i \in DOMAIN osw_q :
         Talk(osw_q[i]) /\ osw_q[i] \notin Range(osw_q')
           => \E m \in told' : Last(m.words) = osw_q[i]]_vars

\* "Multiple radio systems can be recorded at the same time" (README.md:26): the
\* words of what handle_message gets were sent by one system.
OneSender ==
  \A m \in told : \A i \in DOMAIN m.words : m.words[i].sys = Head(m.words).sys
=============================================================================
