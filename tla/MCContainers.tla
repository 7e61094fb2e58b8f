---------------------------- MODULE MCContainers ----------------------------
(***************************************************************************)
(* The containers, side by side: a behaviour is a sequence of calls of one *)
(* container, which kind says.  The slot of a redis key is among them: a   *)
(* key that grows.                                                         *)
(***************************************************************************)
EXTENDS Integers, Sequences, SequencesExt, Bitwise

VARIABLES
  kind,  \* the container used
  c,     \* its structure
  ref    \* what it should hold

Tree == INSTANCE RBTree WITH Keys <- 1 .. 11, Capacity <- 10

\* Of the keys three fall into one bucket and two into another, one of them
\* because hash codes are unsigned.
Hash == INSTANCE ShmHash WITH HashKeys <- {0, 13, 26, 1, -2}, HashValues <- {1, 2}, max_node_count <- 4,
          SIZE_T <- 65536
Ext == INSTANCE ExtensibleHash WITH
         ExtKeys <- {0, 1, 13}, ExtValues <- {1, 2}, total_node_count <- 4, given_bucket_size <- 0

TheList == INSTANCE List WITH Values <- {"a", "b"}, PoolSize <- 4,
             Assigned <- {<<>>, <<"a", "b">>, <<"b", "b", "a">>}
Array == INSTANCE ReferableArray WITH ArrayValues <- {7, 8}, SlotCount <- 3

Vector == INSTANCE FixedVector WITH ItemValues <- {"a", "b"}, VectorSize <- 3
\* The last word of one bitmap has a bit to spare, that of the other has none.
Fixed(bits) == INSTANCE FixedMemory WITH
  BitCount <- bits, WORD_BITS <- 3, Chars <- {0, 1, 2}, Capacity <- [k \in {1, 2} |-> k + 1],
  StackValues <- {"a", "b"}, MaxCounts <- {2, 4}

\* What the page heap keeps its spans in: fewer nodes than the keys of the tree
\* need.
Spans == INSTANCE SpanMetadata WITH
           BITS0 <- 1, BITS1 <- 1, BITS2 <- 1, RadixValues <- {"a", "b"}, NodeCount <- 4,
           CellSize <- 2, Pieces <- {4, 5}, MemorySize <- 14

-----------------------------------------------------------------------------
(***************************************************************************)
(* The slot of a redis key (get_key_slot() of redis/redis_cluster.cpp and  *)
(* crc16() of utility/math_helper.cpp).  Keys with one tag, the text in    *)
(* their first braces, must have one slot, and it must be the slot that    *)
(* the cluster computes, or each command is redirected.                    *)
(***************************************************************************)
Open == 123
Shut == 125
TOTAL_SLOT_COUNT == 16384

crc16tab == <<
  \h0000, \h1021, \h2042, \h3063, \h4084, \h50a5, \h60c6, \h70e7, \h8108, \h9129, \ha14a, \hb16b, \hc18c, \hd1ad, \he1ce, \hf1ef,
  \h1231, \h0210, \h3273, \h2252, \h52b5, \h4294, \h72f7, \h62d6, \h9339, \h8318, \hb37b, \ha35a, \hd3bd, \hc39c, \hf3ff, \he3de,
  \h2462, \h3443, \h0420, \h1401, \h64e6, \h74c7, \h44a4, \h5485, \ha56a, \hb54b, \h8528, \h9509, \he5ee, \hf5cf, \hc5ac, \hd58d,
  \h3653, \h2672, \h1611, \h0630, \h76d7, \h66f6, \h5695, \h46b4, \hb75b, \ha77a, \h9719, \h8738, \hf7df, \he7fe, \hd79d, \hc7bc,
  \h48c4, \h58e5, \h6886, \h78a7, \h0840, \h1861, \h2802, \h3823, \hc9cc, \hd9ed, \he98e, \hf9af, \h8948, \h9969, \ha90a, \hb92b,
  \h5af5, \h4ad4, \h7ab7, \h6a96, \h1a71, \h0a50, \h3a33, \h2a12, \hdbfd, \hcbdc, \hfbbf, \heb9e, \h9b79, \h8b58, \hbb3b, \hab1a,
  \h6ca6, \h7c87, \h4ce4, \h5cc5, \h2c22, \h3c03, \h0c60, \h1c41, \hedae, \hfd8f, \hcdec, \hddcd, \had2a, \hbd0b, \h8d68, \h9d49,
  \h7e97, \h6eb6, \h5ed5, \h4ef4, \h3e13, \h2e32, \h1e51, \h0e70, \hff9f, \hefbe, \hdfdd, \hcffc, \hbf1b, \haf3a, \h9f59, \h8f78,
  \h9188, \h81a9, \hb1ca, \ha1eb, \hd10c, \hc12d, \hf14e, \he16f, \h1080, \h00a1, \h30c2, \h20e3, \h5004, \h4025, \h7046, \h6067,
  \h83b9, \h9398, \ha3fb, \hb3da, \hc33d, \hd31c, \he37f, \hf35e, \h02b1, \h1290, \h22f3, \h32d2, \h4235, \h5214, \h6277, \h7256,
  \hb5ea, \ha5cb, \h95a8, \h8589, \hf56e, \he54f, \hd52c, \hc50d, \h34e2, \h24c3, \h14a0, \h0481, \h7466, \h6447, \h5424, \h4405,
  \ha7db, \hb7fa, \h8799, \h97b8, \he75f, \hf77e, \hc71d, \hd73c, \h26d3, \h36f2, \h0691, \h16b0, \h6657, \h7676, \h4615, \h5634,
  \hd94c, \hc96d, \hf90e, \he92f, \h99c8, \h89e9, \hb98a, \ha9ab, \h5844, \h4865, \h7806, \h6827, \h18c0, \h08e1, \h3882, \h28a3,
  \hcb7d, \hdb5c, \heb3f, \hfb1e, \h8bf9, \h9bd8, \habbb, \hbb9a, \h4a75, \h5a54, \h6a37, \h7a16, \h0af1, \h1ad0, \h2ab3, \h3a92,
  \hfd2e, \hed0f, \hdd6c, \hcd4d, \hbdaa, \had8b, \h9de8, \h8dc9, \h7c26, \h6c07, \h5c64, \h4c45, \h3ca2, \h2c83, \h1ce0, \h0cc1,
  \hef1f, \hff3e, \hcf5d, \hdf7c, \haf9b, \hbfba, \h8fd9, \h9ff8, \h6e17, \h7e36, \h4e55, \h5e74, \h2e93, \h3eb2, \h0ed1, \h1ef0 >>

\* crc16(): a u16 that loses its high byte for each byte of the text.
crc16(text) ==
  FoldLeft(LAMBDA crc, byte : ((crc * 256) % 65536) ^^ crc16tab[((crc \div 256) ^^ byte) + 1], 0, text)

\* key.find(byte, from): 0 for npos
FindFrom(text, byte, from) == SelectInSubSeq(text, from, Len(text), LAMBDA x : x = byte)

get_key_slot(text) ==
  LET s == FindFrom(text, Open, 1)
      e == IF s = 0 THEN 0 ELSE FindFrom(text, Shut, s + 1)
  IN  crc16(IF e \in {0, s + 1} THEN text ELSE SubSeq(text, s + 1, e - 1)) % TOTAL_SLOT_COUNT

\* A key grows by a byte at a time, the braces among them.  A key of one byte
\* has any value, which reaches every entry of the table.
Bytes == {Open, Shut, 0, 97, 200}
MaxKey == 5
SlotInit == c = <<>> /\ ref = <<>>
SlotNext ==
  /\ \/ c = <<>> /\ \E byte \in 0 .. 255 : c' = <<byte>>
     \/ /\ c # <<>> /\ Head(c) \in Bytes /\ Len(c) < MaxKey
        /\ \E byte \in Bytes : c' = Append(c, byte)
     \/ c # <<>> /\ c' = <<>>   \* another key
  /\ UNCHANGED ref

\* The remainder of the text as a polynomial, bit by bit, that the comment
\* above crc16() describes: x^16 + x^12 + x^5 + 1, nothing reflected.
Divided(crc, n) == IF crc >= 32768 THEN ((crc * 2) % 65536) ^^ \h1021 ELSE crc * 2
Remainder(text) ==
  FoldLeft(LAMBDA crc, byte : FoldLeft(Divided, crc ^^ (byte * 256), [k \in 1 .. 8 |-> k]), 0, text)

\* What the braces of a text enclose: pairs of places between the first "{"
\* and the next "}".
Tags(text) ==
  {<<s, e>> \in (1 .. Len(text)) \X (1 .. Len(text)) :
     /\ text[s] = Open /\ \A k \in 1 .. s - 1 : text[k] # Open
     /\ text[e] = Shut /\ s < e /\ \A k \in s + 1 .. e - 1 : text[k] # Shut}

\* The slot of a key is that of its tag, or of the whole key if it has none or
\* an empty one, and that is the remainder a cluster computes
\* (get_key_slot(), crc16()).  Of "123456789" it is what the comment says.
SlotExact ==
  /\ get_key_slot(c) =
       Remainder(IF \E t \in Tags(c) : t[2] > t[1] + 1
                 THEN LET t == CHOOSE u \in Tags(c) : TRUE IN SubSeq(c, t[1] + 1, t[2] - 1)
                 ELSE c) % TOTAL_SLOT_COUNT
  /\ crc16(c) = Remainder(c)
  /\ c = <<>> => crc16([k \in 1 .. 9 |-> 48 + k]) = \h31C3
-----------------------------------------------------------------------------
Init ==
  \/ kind = "tree" /\ Tree!Init
  \/ kind = "hash" /\ Hash!Init
  \/ kind = "ext" /\ Ext!Init
  \/ kind = "list" /\ TheList!Init
  \/ kind = "array" /\ Array!Init
  \/ kind = "vector" /\ Vector!Init
  \/ kind = "bitmap" /\ Fixed(5)!BitmapInit
  \/ kind = "whole bitmap" /\ Fixed(6)!BitmapInit
  \/ kind = "string" /\ Fixed(5)!StringInit
  \/ kind = "stack" /\ Fixed(5)!StackInit
  \/ kind = "radix" /\ Spans!RadixInit
  \/ kind = "metadata" /\ Spans!AllocatorInit
  \/ kind = "slot" /\ SlotInit

Next ==
  \/ kind = "tree" /\ Tree!Next /\ UNCHANGED kind
  \/ kind = "hash" /\ Hash!Next /\ UNCHANGED kind
  \/ kind = "ext" /\ Ext!Next /\ UNCHANGED kind
  \/ kind = "list" /\ TheList!Next /\ UNCHANGED kind
  \/ kind = "array" /\ Array!Next /\ UNCHANGED kind
  \/ kind = "vector" /\ Vector!Next /\ UNCHANGED kind
  \/ kind = "bitmap" /\ Fixed(5)!BitmapNext /\ UNCHANGED kind
  \/ kind = "whole bitmap" /\ Fixed(6)!BitmapNext /\ UNCHANGED kind
  \/ kind = "string" /\ Fixed(5)!StringNext /\ UNCHANGED kind
  \/ kind = "stack" /\ Fixed(5)!StackNext /\ UNCHANGED kind
  \/ kind = "radix" /\ Spans!RadixNext /\ UNCHANGED kind
  \/ kind = "metadata" /\ Spans!AllocatorNext /\ UNCHANGED kind
  \/ kind = "slot" /\ SlotNext /\ UNCHANGED kind

\* The red-black tree is balanced, ordered and complete (TreeSound of RBTree).
TreeIsSound == kind = "tree" => Tree!TreeSound

\* Each other container holds what it should: both hash tables, which lose no
\* node (HashSound, ExtHashSound); list and referable array, of which what is
\* linked, free and never used agree (ListSound, ArraySound); vector, unless
\* fill() is called with 0, bitmap, but for what flip() loses of one that fills
\* its words, string and the stack that is resumed (VectorSound, BitmapSound,
\* StringSound, StackSound); and what the page heap keeps its spans in (RadixSound,
\* AllocatorSound).  A key has the slot the cluster takes it for (SlotExact).
ContainersAreSound ==
  /\ kind = "hash" => Hash!HashSound
  /\ kind = "ext" => Ext!ExtHashSound
  /\ kind = "list" => TheList!ListSound
  /\ kind = "array" => Array!ArraySound
  /\ kind = "vector" => Vector!VectorSound
  /\ kind = "bitmap" => Fixed(5)!BitmapSound
  /\ kind = "whole bitmap" => Fixed(6)!BitmapSound
  /\ kind = "string" => Fixed(5)!StringSound
  /\ kind = "stack" => Fixed(5)!StackSound
  /\ kind = "radix" => Spans!RadixSound
  /\ kind = "metadata" => Spans!AllocatorSound
  /\ kind = "slot" => SlotExact
=============================================================================
