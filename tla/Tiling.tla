-------------------------------- MODULE Tiling --------------------------------
(***************************************************************************)
(* weight_sync/tiling_utils.cc: converting a buffer between the linear     *)
(* (row-major) order of a tensor and the tiled order of the device.        *)
(*                                                                         *)
(* A buffer is a function from 0..n-1 to elements, an element of the       *)
(* linear buffer being its position plus one, and 0 the padding.  Junk is  *)
(* what a buffer holds that nothing wrote.  A case is [shape, layout,      *)
(* tiles, item, room]: the dimensions, the layout from minor to major, the *)
(* nested tiles, the item size in bytes, and how many elements the buffer  *)
(* of an in-place conversion has beyond the tiled size (possibly fewer).   *)
(* The vector instructions that copy a tile are left out: a tile is        *)
(* described by the element that each of its positions receives.           *)
(***************************************************************************)
EXTENDS Integers, Sequences, SequencesExt, FiniteSetsExt, Shapes

CONSTANT TileCases

VARIABLES
    tensor,      \* the case
    tiledBuf,    \* TileBuffer of the linear buffer, <<>> before it is made
    linearBuf,   \* DetileBuffer of tiledBuf
    inPlaceBuf   \* TileBufferInPlace of the linear buffer

tilVars == <<tensor, tiledBuf, linearBuf, inPlaceBuf>>

Junk == -1
Buffer(n, At(_)) == [i \in 0..(n - 1) |-> At(i)]
Get(buf, i) == IF i \in DOMAIN buf THEN buf[i] ELSE Junk

Physical(v) == ToPhysical(v.shape, v.layout)
Elements(v) == Product(v.shape)

-----------------------------------------------------------------------------
(* GetTiledBufferElements and XLA's LinearIndexForNestedTiling: every tile *)
(* splits the last dimensions, padded with ones to its rank, into tiles    *)
(* and positions in a tile.                                                *)
TileStep(p, tile) ==
    LET ones == Max({0, Len(tile) - Len(p.shape)})
        shape == [i \in 1..ones |-> 1] \o p.shape
        at == [i \in 1..ones |-> 0] \o p.at
        k == Len(shape) - Len(tile)
        Split(s, Op(_, _)) == [i \in 1..Len(tile) |-> Op(s[k + i], tile[i])]
    IN  [shape |-> SubSeq(shape, 1, k) \o Split(shape, CeilDiv) \o tile,
         at |-> SubSeq(at, 1, k) \o Split(at, \div) \o Split(at, %)]

Nested(v, at) == FoldLeft(TileStep, [shape |-> Physical(v), at |-> at], v.tiles)

GetTiledBufferElements(v) == Product(Nested(v, [i \in DOMAIN v.shape |-> 0]).shape)

(* Where XLA puts the element at position i of the linear buffer.          *)
LinearIndexForNestedTiling(v, i) ==
    LET n == Nested(v, ToPhysical(Coords(i, v.shape), v.layout)) IN Linear(n.at, n.shape)

-----------------------------------------------------------------------------

(* IsStandardRowMajorTiled: the layouts that have an optimised conversion. *)
Is1D(v) ==
    LET t == v.tiles
        packed == \/ t[Len(t)] = <<2, 1>> /\ v.item = 2
                  \/ t[Len(t)] = <<4, 1>> /\ v.item = 1
    IN  /\ Len(v.shape) = 1 /\ Len(t[1]) = 1
        /\ CASE Len(t) = 1 -> TRUE
             [] Len(t) = 2 -> IF Len(t[2]) = 1 THEN t[1][1] % t[2][1] = 0 ELSE packed
             [] Len(t) = 3 -> /\ Len(t[2]) = 1 /\ packed
                              /\ t[1][1] % t[2][1] = 0
                              /\ (t[1][1] \div t[2][1]) % t[3][1] = 0
             [] OTHER -> FALSE

IsStandardRowMajorTiled(v) ==
    LET t == v.tiles
        R == Len(v.shape)
    IN  /\ t # <<>>
        /\ v.layout = [i \in 1..R |-> R + 1 - i]
        /\ IF R = 1 /\ Len(t[1]) = 1 THEN Is1D(v)
           ELSE /\ Len(t[1]) = 2
                /\ \/ Len(t) = 1
                   \/ /\ Len(t) = 2
                      /\ \/ t[2] = <<2, 1>> /\ v.item = 2
                         \/ t[2] = <<4, 1>> /\ v.item = 1
                      /\ t[1][1] % t[2][1] = 0

IsStandardColMajorTiled(v) ==
    LET t == v.tiles
        R == Len(v.shape)
    IN  /\ R >= 2 /\ t # <<>>
        /\ v.layout = <<R - 1, R>> \o [i \in 1..(R - 2) |-> R - 1 - i]
        /\ Len(t[1]) = 2
        /\ \/ Len(t) = 1
           \/ Len(t) = 2 /\ t[2] \in {<<2, 1>>, <<4, 1>>} /\ t[1][1] % t[2][1] = 0

(* RowMajorTileGeometry: a batch of H by W matrices in n0 by n1 tiles of   *)
(* tH by tW elements, P rows of which are packed into one.                 *)
Geometry(v) ==
    LET R == Len(v.shape)
        p == Physical(v)
        H == IF R = 1 THEN 1 ELSE p[R - 1]
        W == p[R]
        tH == IF Len(v.tiles[1]) = 1 THEN 1 ELSE v.tiles[1][1]
        tW == v.tiles[1][Len(v.tiles[1])]
        n0 == CeilDiv(H, tH)
        n1 == CeilDiv(W, tW)
    IN  [H |-> H, W |-> W, tH |-> tH, tW |-> tW,
         P |-> IF Len(v.tiles) > 1 THEN v.tiles[2][1] ELSE 1,
         n0 |-> n0, n1 |-> n1, batch |-> Product(SubSeq(p, 1, R - 2)),
         tile |-> tH * tW, tiled |-> n0 * n1 * tH * tW]

(* Packed1DTileGeometry: groups of P rows of W elements.                   *)
Packed1D(v) ==
    LET t == v.tiles
        n == Len(t)
        W == t[n - 1][1]
        P == t[n][1]
    IN  [P |-> P, W |-> W, group |-> P * W,
         groups |-> IF n = 2 THEN CeilDiv(CeilDiv(v.shape[1], W), P)
                    ELSE CeilDiv(v.shape[1], t[1][1]) * ((t[1][1] \div W) \div P)]

-----------------------------------------------------------------------------
(* Position k of a tile: the row and the column that it holds.             *)
Row(g, k) == (k \div (g.tW * g.P)) * g.P + (k % g.P)
Col(g, k) == (k % (g.tW * g.P)) \div g.P
(* ... and back.                                                           *)
InTile(g, r, c) == ((r \div g.P) * g.tW + c) * g.P + (r % g.P)

Interior(g, tr, tc) == (tr + 1) * g.tH <= g.H /\ (tc + 1) * g.tW <= g.W

(* The copy of tile (tr, tc) of a matrix whose linear elements start at    *)
(* base: the element of position k.                                        *)
CopyTilePackedNoPadding(src, base, g, tr, tc, k) ==
    Get(src, base + (tr * g.tH + Row(g, k)) * g.W + tc * g.tW + Col(g, k))

CopyTilePackedWithPadding(src, base, g, tr, tc, k) ==
    LET r == tr * g.tH + Row(g, k)
        c == tc * g.tW + Col(g, k)
    IN  IF r < g.H /\ c < g.W THEN Get(src, base + r * g.W + c) ELSE 0

CopyTile(src, base, g, tr, tc, k) ==
    IF Interior(g, tr, tc) THEN CopyTilePackedNoPadding(src, base, g, tr, tc, k)
                           ELSE CopyTilePackedWithPadding(src, base, g, tr, tc, k)

(* A linear matrix copied as it stands.                                    *)
IsMemcpy(g) ==
    /\ g.P = 1 /\ g.H % g.tH = 0 /\ g.W % g.tW = 0
    /\ g.W = g.tW \/ (g.H = 1 /\ g.tH = 1)

(* One row per tile, the other rows of the tile being zeroed.              *)
RowOfTile(src, base, g, tc, k) ==
    IF k < g.tW /\ tc * g.tW + k < g.W THEN Get(src, base + tc * g.tW + k) ELSE 0

TileBuffer1DOptimized(v, src) ==
    IF Len(v.tiles[Len(v.tiles)]) = 1
    THEN Buffer(CeilDiv(v.shape[1], v.tiles[1][1]) * v.tiles[1][1],
                LAMBDA i : IF i < v.shape[1] THEN src[i] ELSE 0)
    ELSE LET g == Packed1D(v)
             At(i) == LET k == i % g.group
                          e == (i - k) + (k % g.P) * g.W + k \div g.P
                      IN  IF e < v.shape[1] THEN src[e] ELSE 0
         IN  Buffer(g.groups * g.group, At)

TileBufferNDOptimized(v, src) ==
    LET g == Geometry(v)
        At(i) == LET b == i \div g.tiled
                     t == (i % g.tiled) \div g.tile
                     k == i % g.tile
                 IN  IF g.P = 1 /\ g.H = 1 THEN RowOfTile(src, b * g.W, g, t, k)
                     ELSE CopyTile(src, b * g.H * g.W, g, t \div g.n1, t % g.n1, k)
    IN  IF IsMemcpy(g) THEN src ELSE Buffer(g.batch * g.tiled, At)

(* Column-major: the linear buffer holds the matrix by columns.            *)
CopyTileColMajorNoPadding(src, base, g, tr, tc, k) ==
    Get(src, base + (tc * g.tW + Col(g, k)) * g.H + tr * g.tH + Row(g, k))

CopyTileColMajorWithPadding(src, base, g, tr, tc, k) ==
    LET r == tr * g.tH + Row(g, k)
        c == tc * g.tW + Col(g, k)
    IN  IF r < g.H /\ c < g.W THEN Get(src, base + c * g.H + r) ELSE 0

TileBufferColMajorOptimized(v, src) ==
    LET g == Geometry(v)
        At(i) == LET base == (i \div g.tiled) * g.H * g.W
                     t == (i % g.tiled) \div g.tile
                     tr == t \div g.n1
                     tc == t % g.n1
                 IN  IF Interior(g, tr, tc)
                     THEN CopyTileColMajorNoPadding(src, base, g, tr, tc, i % g.tile)
                     ELSE CopyTileColMajorWithPadding(src, base, g, tr, tc, i % g.tile)
    IN  Buffer(g.batch * g.tiled, At)

(* Without an optimised conversion, element by element at XLA's index; the *)
(* destination is zeroed first when it has padding.                        *)
TileBuffer(v, src) ==
    IF IsStandardRowMajorTiled(v)
    THEN IF Len(v.shape) = 1 /\ Len(v.tiles[1]) = 1 THEN TileBuffer1DOptimized(v, src)
         ELSE TileBufferNDOptimized(v, src)
    ELSE IF IsStandardColMajorTiled(v) THEN TileBufferColMajorOptimized(v, src)
    ELSE LET n == GetTiledBufferElements(v)
             blank == Buffer(n, LAMBDA i : IF n > Elements(v) THEN 0 ELSE Junk)
         IN  FoldLeft(LAMBDA buf, i : [buf EXCEPT ![LinearIndexForNestedTiling(v, i - 1)] = src[i - 1]],
                      blank, [i \in 1..Elements(v) |-> i])

-----------------------------------------------------------------------------
(* The inverse: the element of row r and column c of tile (tr, tc) is read *)
(* from its tile, the tiles of the matrix starting at base.                *)
DetileSingleTilePacked(tiled, base, g, tr, tc, r, c) ==
    tiled[base + (tr * g.n1 + tc) * g.tile + InTile(g, r, c)]

DetileBuffer1DOptimized(v, tiled) ==
    IF Len(v.tiles[Len(v.tiles)]) = 1 THEN Buffer(v.shape[1], LAMBDA i : tiled[i])
    ELSE LET g == Packed1D(v)
             At(i) == LET k == i % g.group
                      IN  tiled[(i - k) + (k % g.W) * g.P + k \div g.W]
         IN  Buffer(v.shape[1], At)

DetileBufferNDOptimized(v, tiled) ==
    LET g == Geometry(v)
        At(i) == LET b == i \div (g.H * g.W)
                     r == (i % (g.H * g.W)) \div g.W
                     c == i % g.W
                 IN  IF g.P = 1 /\ g.H = 1
                     THEN tiled[b * g.tiled + (c \div g.tW) * g.tile + (c % g.tW)]
                     ELSE DetileSingleTilePacked(tiled, b * g.tiled, g, r \div g.tH,
                                                 c \div g.tW, r % g.tH, c % g.tW)
    IN  IF IsMemcpy(g) THEN tiled ELSE Buffer(g.batch * g.H * g.W, At)

(* By units of P elements of a column, or element by element at an edge.   *)
DetileSingleTileColMajor(tiled, base, g, tr, tc, r, c) ==
    LET unit == (r \div g.P) * g.tW + c
    IN  tiled[base + (tr * g.n1 + tc) * g.tile + unit * g.P + (r % g.P)]

DetileBufferColMajorOptimized(v, tiled) ==
    LET g == Geometry(v)
        At(i) == LET b == i \div (g.H * g.W)
                     c == (i % (g.H * g.W)) \div g.H
                     r == i % g.H
                 IN  DetileSingleTileColMajor(tiled, b * g.tiled, g, r \div g.tH,
                                              c \div g.tW, r % g.tH, c % g.tW)
    IN  Buffer(g.batch * g.H * g.W, At)

DetileBuffer(v, tiled) ==
    IF IsStandardRowMajorTiled(v)
    THEN IF Len(v.shape) = 1 /\ Len(v.tiles[1]) = 1 THEN DetileBuffer1DOptimized(v, tiled)
         ELSE DetileBufferNDOptimized(v, tiled)
    ELSE IF IsStandardColMajorTiled(v) THEN DetileBufferColMajorOptimized(v, tiled)
    ELSE Buffer(Elements(v), LAMBDA i : tiled[LinearIndexForNestedTiling(v, i)])

-----------------------------------------------------------------------------
(* In place: buf is overwritten from at on by n elements.                  *)
Overwrite(buf, at, n, By(_)) ==
    [i \in DOMAIN buf |-> IF at <= i /\ i < at + n THEN By(i - at) ELSE buf[i]]

Downto0(n) == [i \in 1..n |-> n - i]

ZeroPadUnpacked1DInPlace(v, buf) ==
    LET W == v.shape[1]
        padded == CeilDiv(W, v.tiles[1][1]) * v.tiles[1][1]
    IN  Overwrite(buf, W, padded - W, LAMBDA k : 0)

(* Every group is assembled aside, with what lies beyond the row as zero,  *)
(* and then written over its own elements.                                 *)
TilePacked1DInPlace(v, buf) ==
    LET g == Packed1D(v)
        Group(b, n) == LET at == n * g.group
                           By(k) == LET e == at + (k % g.P) * g.W + k \div g.P
                                    IN  IF e < v.shape[1] THEN b[e] ELSE 0
                       IN  Overwrite(b, at, g.group, By)
    IN  FoldLeft(Group, buf, Downto0(g.groups))

(* One row per tile, from the last batch and tile to the first.            *)
TileSingleRowInPlace(g, buf) ==
    LET Tile(b, n) == LET batch == n \div g.n1
                          tc == n % g.n1
                          By(k) == RowOfTile(b, batch * g.W, g, tc, k)
                      IN  Overwrite(b, batch * g.tiled + tc * g.tile, g.tile, By)
    IN  FoldLeft(Tile, buf, Downto0(g.batch * g.n1))

(* A band is the row of tiles tr of a batch.  It is copied aside, and its  *)
(* tiles are written, from the last batch and band to the first.           *)
Band(g, b, n) ==
    LET batch == n \div g.n0
        tr == n % g.n0
        By(k) == CopyTile(b, batch * g.H * g.W, g, tr, k \div g.tile, k % g.tile)
    IN  Overwrite(b, batch * g.tiled + tr * g.n1 * g.tile, g.n1 * g.tile, By)

TileRowMajorBandsInPlace_Forward(g, buf) ==
    FoldLeft(LAMBDA b, n : Band(g, b, n), buf, Reverse(Downto0(g.batch * g.n0)))

TileRowMajorBandsInPlace(g, buf) ==
    FoldLeft(LAMBDA b, n : Band(g, b, n), buf, Downto0(g.batch * g.n0))

TileBufferInPlaceRowMajor(v, buf) ==
    LET g == Geometry(v) IN
    IF Len(v.shape) = 1 /\ Len(v.tiles[1]) = 1
    THEN IF Len(v.tiles[Len(v.tiles)]) = 1 THEN ZeroPadUnpacked1DInPlace(v, buf)
         ELSE TilePacked1DInPlace(v, buf)
    ELSE IF IsMemcpy(g) THEN buf
    ELSE IF g.P = 1 /\ g.H = 1 THEN TileSingleRowInPlace(g, buf)
    ELSE TileRowMajorBandsInPlace(g, buf)

(* A buffer that cannot take the tiled elements is an error; a layout      *)
(* without an in-place conversion is tiled from a copy.                    *)
TileBufferInPlace(v, buf) ==
    LET n == GetTiledBufferElements(v)
        copy == Buffer(Elements(v), LAMBDA i : buf[i])
        out == TileBuffer(v, copy)
    IN  IF Cardinality(DOMAIN buf) < n THEN <<"InvalidArgument">>
        ELSE IF IsStandardRowMajorTiled(v) THEN TileBufferInPlaceRowMajor(v, buf)
        ELSE Overwrite(buf, 0, n, LAMBDA k : out[k])

-----------------------------------------------------------------------------
LinearBuffer(v) == Buffer(Elements(v), LAMBDA i : i + 1)

TilInit ==
    /\ tensor \in TileCases
    /\ tiledBuf = <<>> /\ linearBuf = <<>> /\ inPlaceBuf = <<>>

Convert ==
    /\ tiledBuf = <<>>
    /\ LET n == GetTiledBufferElements(tensor) + tensor.room
           room == Buffer(Max({n, Elements(tensor)}),
                          LAMBDA i : IF i < Elements(tensor) THEN i + 1 ELSE Junk)
       IN  /\ tiledBuf' = TileBuffer(tensor, LinearBuffer(tensor))
           /\ inPlaceBuf' = TileBufferInPlace(tensor, room)
    /\ UNCHANGED <<tensor, linearBuf>>

ConvertBack ==
    /\ tiledBuf # <<>> /\ linearBuf = <<>>
    /\ linearBuf' = DetileBuffer(tensor, tiledBuf)
    /\ UNCHANGED <<tensor, tiledBuf, inPlaceBuf>>

TilNext == Convert \/ ConvertBack

-----------------------------------------------------------------------------
(* What XLA's index function says the device expects.                      *)
DeviceOrder(v) ==
    LET at == [i \in 0..(Elements(v) - 1) |-> LinearIndexForNestedTiling(v, i)]
        Holder(k) == {i \in DOMAIN at : at[i] = k}
    IN  Buffer(GetTiledBufferElements(v),
               LAMBDA k : IF Holder(k) = {} THEN 0 ELSE 1 + CHOOSE i \in Holder(k) : TRUE)

(* Whatever the shape, the tile, the packing and the layout, the optimised *)
(* conversions put every element where XLA's nested tiling puts it and     *)
(* zero in the padding; detiling gives the tensor back; and tiling in      *)
(* place, which overwrites the elements it still has to read, gives the    *)
(* same buffer or refuses one that is too small.                           *)
TilingExact ==
    tiledBuf # <<>> =>
        /\ tiledBuf = DeviceOrder(tensor)
        /\ linearBuf # <<>> => linearBuf = LinearBuffer(tensor)
        /\ IF inPlaceBuf = <<"InvalidArgument">> THEN tensor.room < 0
           ELSE \A i \in DOMAIN tiledBuf : inPlaceBuf[i] = tiledBuf[i]
=============================================================================
