------------------------------- MODULE Fasthf -------------------------------
(***************************************************************************)
(* The adaptive Huffman coder of src/EC/fasthf: a code formed anew from    *)
(* the counts every so many symbols, bits written through a word, and a    *)
(* decoder that looks up the first bits of a codeword in a table and       *)
(* follows the tree for the rest.                                          *)
(***************************************************************************)
EXTENDS CoderWords

CONSTANTS NSym,                \* 256
          HfMaxCount,          \* 1 << 15
          HfTable              \* 9: bits looked up in the decoder's table

WordBits == 4 * Bits

-----------------------------------------------------------------------------
(* Form_Huffman_Tree: a heap, from place 1, that lies in the two arrays the *)
(* tree is built in: the symbol at place i is left[i - 1], its count        *)
(* right[i - 1].  A node of the tree takes the place the heap gives up.     *)
(* Branches to nodes are negative.                                          *)
Place(h, i, symbol, count) == [h EXCEPT !.left[i - 1] = symbol, !.right[i - 1] = count]

(* Mutant: the left child only. *)
ChildLeft(h, i, n) == 2 * i

Child(h, i, n) ==
  IF 2 * i < n /\ h.right[2 * i - 1] > h.right[2 * i] THEN 2 * i + 1 ELSE 2 * i

RECURSIVE Sift(_, _, _, _, _)
Sift(h, i, n, symbol, count) ==
  LET j == Child(h, i, n)
  IN IF 2 * i > n \/ count <= h.right[j - 1] THEN Place(h, i, symbol, count)
     ELSE Sift(Place(h, i, h.left[j - 1], h.right[j - 1]), j, n, symbol, count)

RECURSIVE Heap(_, _, _)
Heap(h, k, counts) == IF k = 0 THEN h ELSE Heap(Sift(h, k, NSym, k - 1, counts[k - 1]), k - 1, counts)

(* The two smallest of n become the branches of node n - 1, their sum goes  *)
(* back into the heap.                                                      *)
RECURSIVE Merge(_, _)
Merge(h, n) ==
  LET node  == n - 1
      given == [h EXCEPT !.left[node] = h.left[0]]
      rest  == Sift(given, 1, node, h.left[node], h.right[node])
  IN IF node = 1 THEN [given EXCEPT !.right[1] = h.left[1]]
     ELSE Merge(Sift([rest EXCEPT !.right[node] = rest.left[0]], 1, node, -node,
                     h.right[0] + rest.right[0]), node)

Form_Huffman_Tree(counts) ==
  Merge(Heap([left |-> [s \in 0..NSym - 1 |-> s], right |-> counts], NSym \div 2, counts), NSym)

-----------------------------------------------------------------------------
Branch(tree, bit, node) == IF bit = 0 THEN tree.left[-node] ELSE tree.right[-node]

(* Set_Huffman_Code: the codewords below a node, [sym, code, length].       *)
RECURSIVE Codewords(_, _, _, _)
Codewords(tree, node, code, length) ==
  IF node >= 0 THEN {[sym |-> node, code |-> code, length |-> length]}
  ELSE Codewords(tree, Branch(tree, 0, node), 2 * code, length + 1)
       \cup Codewords(tree, Branch(tree, 1, node), 2 * code + 1, length + 1)

CodeOf(m, s) == CHOOSE c \in Codewords(m.tree, -1, 0, 0) : c.sym = s

(* decd_table: where the first bits, n of them, of a word lead from a node. *)
RECURSIVE Follow(_, _, _, _)
Follow(tree, node, bits, n) ==
  IF node >= 0 \/ n = 0 THEN node
  ELSE Follow(tree, Branch(tree, Bit(bits, n - 1), node), bits, n - 1)

RECURSIVE Halved(_)
Halved(counts) ==
  IF Cum(counts, NSym) < HfMaxCount THEN counts
  ELSE Halved([s \in DOMAIN counts |-> (counts[s] + 1) \div 2])

update(m) ==
  LET total  == m.total_count + m.update_cycle
      counts == IF total < HfMaxCount THEN m.symbol_count ELSE Halved(m.symbol_count)
      cycle  == IF m.update_cycle < NSym * 16 THEN 1 + (5 * m.update_cycle) \div 4
                ELSE m.update_cycle
  IN [symbol_count |-> counts, tree |-> Form_Huffman_Tree(counts),
      total_count |-> IF total < HfMaxCount THEN total ELSE Cum(counts, NSym),
      update_cycle |-> cycle, symbols_until_update |-> cycle]

reset == update([symbol_count |-> [s \in 0..NSym - 1 |-> 1], total_count |-> 0,
                 update_cycle |-> NSym])

Count(m, s) ==
  LET more == [m EXCEPT !.symbol_count[s] = @ + 1, !.symbols_until_update = @ - 1]
  IN IF more.symbols_until_update = 0 THEN update(more) ELSE more

-----------------------------------------------------------------------------
(* bit_position counts the bits of the buffer that are free. *)
RECURSIVE Empty(_), Fill(_, _)
Empty(e) ==
  IF e.bit_position > WordBits - Bits THEN e
  ELSE Empty([e EXCEPT !.out = Append(@, TopByte(e.bit_buffer)), !.bit_buffer = Shl(@),
                       !.bit_position = @ + Bits])
Fill(d, bytes) ==
  IF d.bit_position < Bits THEN d
  ELSE Fill([d EXCEPT !.bit_position = @ - Bits, !.pos = @ + 1,
                      !.bit_buffer = @ + Get(bytes, d.pos) * 2^(d.bit_position - Bits)], bytes)

Start == [bit_buffer |-> 0, bit_position |-> WordBits, model |-> reset, out |-> <<>>]

Encode(e, s) ==
  LET c == CodeOf(e.model, s)
      p == e.bit_position - c.length
  IN [Empty([e EXCEPT !.bit_position = p, !.bit_buffer = @ + c.code * 2^p]) EXCEPT
        !.model = Count(e.model, s)]

Finish(e) == IF e.bit_position < WordBits THEN Append(e.out, TopByte(e.bit_buffer)) ELSE e.out

StartDecode(bytes) ==
  [bit_buffer |-> 0, bit_position |-> WordBits, pos |-> 0, model |-> reset, sym |-> 0]

Decode(d, bytes) ==
  LET full   == Fill(d, bytes)
      found  == Follow(d.model.tree, -1, full.bit_buffer \div 2^(WordBits - HfTable), HfTable)
      s      == Follow(d.model.tree, found, full.bit_buffer % 2^(WordBits - HfTable),
                       WordBits - HfTable)
      length == CodeOf(d.model, s).length
  IN [full EXCEPT !.bit_buffer = (@ * 2^length) % Word, !.bit_position = @ + length,
                  !.model = Count(d.model, s), !.sym = s]
=============================================================================
