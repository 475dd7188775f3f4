-------------------------------- MODULE Signals --------------------------------
(***************************************************************************)
(* Signals on top of the life cycle of the connection that sends them:     *)
(* signal_event, and signal_binary_event with its binary header of fixed   *)
(* size, the server's broadcast, and a peer that decodes what it receives  *)
(* and matches it with its listeners.  Names and contents are sequences of *)
(* bytes; the sizes of the header are constants, so that small ones can be *)
(* checked and the theorems hold for those of the code.                    *)
(***************************************************************************)
EXTENDS Connection, Integers, Sequences

CONSTANTS
  Signals,          \* the messages, each sent once
  Signal,           \* the kind of each and its arguments
  ApiKey,           \* settings_.api_key
  Listeners,        \* the listeners of the peer
  BinaryListeners,  \* those of add_binary_listener
  Pattern,          \* the bucket and the key each listens to
  Star,             \* the character of the wildcard
  NameLimit,        \* the longest name the header holds, 36
  HeaderSize,       \* the size of the header, 128
  ByteRange         \* the number of bytes, 256

Byte == 0 .. ByteRange - 1
Name == Seq(Byte)

\* A raw message is put on the wire by some other client, without a header.
Arguments ==
  [kind : {"text", "binary", "raw"}, type : Int, bucket : Name, key : Name, value : Name]

ASSUME SignalsAssumption ==
  /\ NameLimit \in Nat /\ HeaderSize \in Nat /\ ByteRange \in Nat
  /\ NameLimit < ByteRange
  /\ 4 + 3 * NameLimit <= HeaderSize
  /\ ApiKey \in Name
  /\ Signal \in [Signals -> Arguments]
  /\ BinaryListeners \subseteq Listeners
  /\ \A s \in Signals : Signal[s].kind = "raw" => Len(Signal[s].value) < HeaderSize

VARIABLES
  call,     \* where each signal's call is
  uplink,   \* frames on their way to the server
  downlink, \* frames on their way to the peer
  arrived,  \* the signals the peer received
  heard     \* the events the peer's callbacks were run with

signalVars == <<call, uplink, downlink, arrived, heard>>
vars == <<connVars, signalVars>>

-------------------------------------------------------------------------------
(* The binary header.                                                      *)

\* Seeded bug: the limit itself does not fit.
CutShort(name) == SubSeq(name, 1, IF Len(name) < NameLimit THEN Len(name) ELSE NameLimit - 1)

\* What the header holds of a name.
Cut(name) == SubSeq(name, 1, IF Len(name) < NameLimit THEN Len(name) ELSE NameLimit)

Padding(size) == [i \in 1 .. size |-> 0]

\* The type, the three sizes, the names one after the other, and zeros.
HeaderToBuffer(type, bucket, key, api_key) ==
  LET names == Cut(bucket) \o Cut(key) \o Cut(api_key)
  IN <<type, Len(Cut(bucket)), Len(Cut(key)), Len(Cut(api_key))>>
       \o names \o Padding(HeaderSize - 4 - Len(names))

\* Seeded bug: the offset does not move past the bucket.
BufferToHeaderSameOffset(buffer) ==
  [type |-> buffer[1],
   bucket |-> SubSeq(buffer, 5, 4 + buffer[2]),
   key |-> SubSeq(buffer, 5, 4 + buffer[3])]

\* (The api key is read as well; the peer does not use it.)
BufferToHeader(buffer) ==
  [type |-> buffer[1],
   bucket |-> SubSeq(buffer, 5, 4 + buffer[2]),
   key |-> SubSeq(buffer, 5 + buffer[2], 4 + buffer[2] + buffer[3])]

\* Seeded bug: the int is stored as it is.
EncodeInt(s) ==
  HeaderToBuffer(Signal[s].type, Signal[s].bucket, Signal[s].key, ApiKey) \o Signal[s].value

\* The message of signal_binary_event: static_cast<uint8_t> reduces the type.
Encode(s) ==
  HeaderToBuffer(Signal[s].type % ByteRange, Signal[s].bucket, Signal[s].key, ApiKey)
    \o Signal[s].value

\* The event of ProcessBinaryMessage.
Decode(data) ==
  LET header == BufferToHeader(data)
  IN [type |-> header.type, bucket |-> header.bucket, key |-> header.key,
      content |-> SubSeq(data, HeaderSize + 1, Len(data))]

\* A text event has no type: its names and its value go through JSON unchanged.
TextEvent(s) ==
  [type |-> 0, bucket |-> Signal[s].bucket, key |-> Signal[s].key, content |-> Signal[s].value]

\* What is on the wire.
Frame(s) ==
  [from |-> s, kind |-> Signal[s].kind,
   data |-> CASE Signal[s].kind = "binary" -> Encode(s)
              [] Signal[s].kind = "raw"    -> Signal[s].value
              [] Signal[s].kind = "text"   -> << >>]

Frames == [from : Signals, kind : {"text", "binary", "raw"}, data : Name]

Events == [type : Byte, bucket : Name, key : Name, content : Name]

(***************************************************************************)
(* The one type invariant of the module.                                   *)
(***************************************************************************)
TypeOK ==
  /\ ConnTypeOK
  /\ call \in [Signals -> {"idle", "tested", "sent", "threw"}]
  /\ uplink \in Seq(Frames)
  /\ downlink \in Seq(Frames)
  /\ arrived \subseteq Signals
  /\ \A h \in heard : h.from \in Signals /\ h.by \in Listeners /\ h.event \in Events

-------------------------------------------------------------------------------
Init ==
  /\ ConnInit
  /\ call = [s \in Signals |-> "idle"]
  /\ uplink = << >>
  /\ downlink = << >>
  /\ arrived = {}
  /\ heard = {}

-------------------------------------------------------------------------------
(* signal_event and signal_binary_event, on any thread.                    *)

\* Without a connection the call throws; so does a text value that is no JSON.
TestConnected(s) ==
  /\ Alive /\ close # "destroyed"
  /\ Signal[s].kind # "raw" /\ call[s] = "idle"
  /\ \/ connected /\ call' = [call EXCEPT ![s] = "tested"]
     \/ (connected => Signal[s].kind = "text") /\ call' = [call EXCEPT ![s] = "threw"]
  /\ UNCHANGED <<connVars, uplink, downlink, arrived, heard>>

\* The send throws on a link that is no longer open, to the caller.
SendSignal(s) ==
  /\ Alive /\ call[s] = "tested"
  /\ IF ws = "open"
       THEN call' = [call EXCEPT ![s] = "sent"] /\ uplink' = Append(uplink, Frame(s))
       ELSE call' = [call EXCEPT ![s] = "threw"] /\ UNCHANGED uplink
  /\ UNCHANGED <<connVars, downlink, arrived, heard>>

-------------------------------------------------------------------------------
(* The server and other clients.                                           *)

\* The server passes the frame on; it holds nobody's link but the peer's.
Broadcast ==
  /\ uplink # << >>
  /\ uplink' = Tail(uplink)
  /\ downlink' = Append(downlink, Head(uplink))
  /\ UNCHANGED <<connVars, call, arrived, heard>>

OtherClientSends(s) ==
  /\ Signal[s].kind = "raw" /\ call[s] = "idle"
  /\ call' = [call EXCEPT ![s] = "sent"]
  /\ downlink' = Append(downlink, Frame(s))
  /\ UNCHANGED <<connVars, uplink, arrived, heard>>

\* The peer's link is lost with what is on it.
LosePeer ==
  /\ downlink # << >>
  /\ downlink' = << >>
  /\ UNCHANGED <<connVars, call, uplink, arrived, heard>>

-------------------------------------------------------------------------------
(* The peer: OnMessage, ProcessStringMessage and ProcessBinaryMessage.     *)

Matches(pattern, event) ==
  /\ pattern[1] \in {<<Star>>, event.bucket}
  /\ pattern[2] \in {<<Star>>, event.key}

\* Every callback that matches is run with the event.
Dispatch(s, event, listeners) ==
  heard' = heard \cup {[from |-> s, by |-> l, event |-> event] :
                         l \in {l \in listeners : Matches(Pattern[l], event)}}

ReceiveText ==
  /\ downlink # << >> /\ Head(downlink).kind = "text"
  /\ LET s == Head(downlink).from
     IN Dispatch(s, TextEvent(s), Listeners \ BinaryListeners) /\ arrived' = arrived \cup {s}
  /\ downlink' = Tail(downlink)
  /\ UNCHANGED <<connVars, call, uplink>>

\* Binary data without a header is reported and dropped.
ReceiveBinary ==
  /\ downlink # << >> /\ Head(downlink).kind # "text"
  /\ LET s == Head(downlink).from
         data == Head(downlink).data
     IN /\ arrived' = arrived \cup {s}
        /\ IF Len(data) < HeaderSize
             THEN UNCHANGED heard
             ELSE Dispatch(s, Decode(data), BinaryListeners)
  /\ downlink' = Tail(downlink)
  /\ UNCHANGED <<connVars, call, uplink>>

-------------------------------------------------------------------------------
(* The life cycle of the sender's connection.                              *)

LoseLink ==
  /\ WsLost \/ CloseWs
  /\ uplink' = << >>
  /\ UNCHANGED <<call, downlink, arrived, heard>>

\* No call is under way when the connection is destroyed.
Destroy ==
  /\ \A s \in Signals : call[s] # "tested"
  /\ Destruct(FALSE)
  /\ uplink' = << >>
  /\ UNCHANGED <<call, downlink, arrived, heard>>

\* There are no requests here, and the sender's own callbacks do not matter.
ConnOnly ==
  /\ \/ WsOpen \/ OnFail \/ OnClose \/ IoExit
     \/ OnOpenMark \/ OnOpenRegister \/ OnOpenSendRegister \/ OnOpenLock \/ OnOpenDone
     \/ DownTest \/ RetryTest \/ StartFlags \/ StartConnect
     \/ TimeoutCheck \/ TimeoutScan(FALSE) \/ PingThread
     \/ CloseBegin \/ CloseDisconnect \/ CloseJoinPing \/ CloseStop
     \/ CloseJoinIo \/ CloseJoinTimeout \/ CloseClear(FALSE)
  /\ UNCHANGED signalVars

-------------------------------------------------------------------------------
Next ==
  \/ \E s \in Signals : TestConnected(s) \/ SendSignal(s) \/ OtherClientSends(s)
  \/ Broadcast \/ LosePeer \/ ReceiveText \/ ReceiveBinary
  \/ LoseLink \/ Destroy \/ ConnOnly

SafeSpec == Init /\ [][Next]_vars

-------------------------------------------------------------------------------
(* Properties.                                                             *)

Prefix(name) == IF Len(name) <= NameLimit THEN name ELSE SubSeq(name, 1, NameLimit)

\* The event a signal stands for.
Announced(s) ==
  IF Signal[s].kind = "text"
  THEN TextEvent(s)
  ELSE [type |-> Signal[s].type % ByteRange, bucket |-> Prefix(Signal[s].bucket),
        key |-> Prefix(Signal[s].key), content |-> Signal[s].value]

(***************************************************************************)
(* What a peer hears was signalled: a call that threw is heard by nobody,  *)
(* a message without a header is no event, and the event that is heard is  *)
(* the signal's, its binary names cut to what the header holds and its     *)
(* type reduced to a byte.                                                 *)
(***************************************************************************)
HeardAsSignalled ==
  \A h \in heard : /\ call[h.from] = "sent" /\ Signal[h.from].kind # "raw"
                   /\ h.event = Announced(h.from)

\* The names of the signal arrive whole.
Whole(s) ==
  \/ Signal[s].kind = "text"
  \/ Signal[s].kind = "binary" /\ Len(Signal[s].bucket) <= NameLimit
                               /\ Len(Signal[s].key) <= NameLimit

(***************************************************************************)
(* A signal that arrives is heard by the listeners of its kind that match  *)
(* the names it was signalled with and by no other, as long as the header  *)
(* holds those names.                                                      *)
(***************************************************************************)
ListenersHear ==
  \A s \in arrived : Whole(s) =>
    \A l \in Listeners :
      (\E h \in heard : h.from = s /\ h.by = l)
        <=> /\ l \in BinaryListeners <=> Signal[s].kind = "binary"
            /\ Matches(Pattern[l], [bucket |-> Signal[s].bucket, key |-> Signal[s].key])
===============================================================================
