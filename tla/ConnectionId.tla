---------------------------- MODULE ConnectionId ----------------------------
(***************************************************************************)
(* darwincore::network::ConnectionIdGenerator: a connection id packs, from *)
(* the top, a 24-bit date, the reactor's id, the descriptor and the        *)
(* reactor's sequence number.  The id is what a user holds; Server::       *)
(* SendData finds the reactor again in it.  The widths of the three lower  *)
(* fields are constants (8, 16 and 16 bits in the code); a cast or mask is *)
(* % the size of the field, a shift is a product or a quotient.            *)
(***************************************************************************)
EXTENDS Naturals

CONSTANTS ReactorSize,  \* 2^8
          FdSize,       \* 2^16
          SeqSize,      \* 2^16
          LocalDates,   \* local dates <<tm_year, tm_mon, tm_mday>> of the instance
          ReactorIds, FileDescriptors  \* ints the reactor casts to the fields

ASSUME FieldAssumption ==
  /\ ReactorSize \in Nat \ {0} /\ FdSize \in Nat \ {0} /\ SeqSize \in Nat \ {0}
  /\ ReactorIds \subseteq Nat /\ FileDescriptors \subseteq Nat
  /\ LocalDates \subseteq Nat \X (0..11) \X (1..31)

DateSize == 16777216    \* 0xFFFFFF + 1

VARIABLES day, reactorId, fd, seq, connId
vars == <<day, reactorId, fd, seq, connId>>

-----------------------------------------------------------------------------
\* YYMMDD
GetCurrentDate(tm) == (tm[1] % 100) * 10000 + (tm[2] + 1) * 100 + tm[3]

\* high is shifted left by the field of the given size, low masked and or-ed in.
Above(high, size, low) == high * size + (low % size)

\* Mutant: the descriptor is shifted by one bit too few.
PackTight(date, r, f, s) ==
  Above(Above(date % DateSize, ReactorSize, r), FdSize, f) * (SeqSize \div 2) + (s % SeqSize)

Pack(date, r, f, s) ==
  Above(Above(Above(date % DateSize, ReactorSize, r), FdSize, f), SeqSize, s)

Generate(tm, r, f, s) == Pack(GetCurrentDate(tm), r, f, s)

GetSeq(id) == id % SeqSize
GetFd(id) == (id \div SeqSize) % FdSize

\* Mutant: the descriptor's field is not shifted out.
GetReactorIdHigh(id) == (id \div SeqSize) % ReactorSize

GetReactorId(id) == ((id \div SeqSize) \div FdSize) % ReactorSize
GetDate(id) == (((id \div SeqSize) \div FdSize) \div ReactorSize) % DateSize

Parse(id) == <<GetDate(id), GetReactorId(id), GetFd(id), GetSeq(id)>>

-----------------------------------------------------------------------------
\* One id after the other, of any reactor, descriptor, day and sequence number.
GenerateNext(tm, r, f, s) ==
  /\ day' = tm /\ reactorId' = r /\ fd' = f /\ seq' = s
  /\ connId' = Generate(tm, r, f, s)

Init == /\ day \in LocalDates /\ reactorId \in ReactorIds /\ fd \in FileDescriptors
        /\ seq \in 0..(SeqSize - 1)
        /\ connId = Generate(day, reactorId, fd, seq)

Next == \E tm \in LocalDates, r \in ReactorIds, f \in FileDescriptors, s \in 0..(SeqSize - 1) :
           GenerateNext(tm, r, f, s)

Spec == Init /\ [][Next]_vars

-----------------------------------------------------------------------------
\* Parse gives back what went into the id, each part cut to its field; the date
\* always fits in its 24 bits.  So Server::SendData, which reads the reactor out of
\* the id, reaches the one that issued it.
ParseInvertsGenerate ==
  Parse(connId) = <<GetCurrentDate(day), reactorId % ReactorSize, fd % FdSize, seq>>

=============================================================================
