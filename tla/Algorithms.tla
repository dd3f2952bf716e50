----------------------------- MODULE Algorithms -----------------------------
(***************************************************************************)
(* Sort and Search (foundation/algorithm/Sort.h and Search.h), for         *)
(* elements that are integers.  A vector is a function on 0..n-1, as in    *)
(* the code; the recursion and the loops are the code's.                   *)
(***************************************************************************)
EXTENDS Integers, FiniteSets, Sequences

Size(a) == Cardinality(DOMAIN a)
Swap(a, i, j) == [a EXCEPT ![i] = a[j], ![j] = a[i]]

\* partition: what is less than the pivot moves to the left, one by one.
RECURSIVE PartitionFrom(_, _, _, _)
PartitionFrom(a, i, j, right) ==
    IF j = right THEN [arr |-> Swap(a, i, right), pivot |-> i]
    ELSE IF a[j] < a[right] THEN PartitionFrom(Swap(a, i, j), i + 1, j + 1, right)
                            ELSE PartitionFrom(a, i, j + 1, right)

RECURSIVE QuickSortImpl(_, _, _)
QuickSortImpl(a, left, right) ==
    IF left >= right THEN a
    ELSE LET p == PartitionFrom(a, left, left, right)
             l == IF p.pivot > 0 THEN QuickSortImpl(p.arr, left, p.pivot - 1) ELSE p.arr
         IN QuickSortImpl(l, p.pivot + 1, right)

QuickSort(a) == IF Size(a) <= 1 THEN a ELSE QuickSortImpl(a, 0, Size(a) - 1)

\* merge: temp is the vector before; what is left of the right half is in
\* its place already.
RECURSIVE MergeFrom(_, _, _, _, _, _, _)
MergeFrom(a, temp, i, j, k, mid, right) ==
    IF i > mid THEN a
    ELSE IF j <= right /\ ~(temp[i] < temp[j])
         THEN MergeFrom([a EXCEPT ![k] = temp[j]], temp, i, j + 1, k + 1, mid, right)
         ELSE MergeFrom([a EXCEPT ![k] = temp[i]], temp, i + 1, j, k + 1, mid, right)

RECURSIVE MergeSortImpl(_, _, _)
MergeSortImpl(a, left, right) ==
    IF left >= right THEN a
    ELSE LET mid == left + (right - left) \div 2
             b == MergeSortImpl(MergeSortImpl(a, left, mid), mid + 1, right)
         IN MergeFrom(b, b, left, mid + 1, left, mid, right)

MergeSort(a) == IF Size(a) <= 1 THEN a ELSE MergeSortImpl(a, 0, Size(a) - 1)

RECURSIVE Heapify(_, _, _)
Heapify(a, n, i) ==
    LET l == 2 * i + 1
        r == 2 * i + 2
        first == IF l < n /\ a[i] < a[l] THEN l ELSE i
        largest == IF r < n /\ a[first] < a[r] THEN r ELSE first
    IN IF largest = i THEN a ELSE Heapify(Swap(a, i, largest), n, largest)

RECURSIVE BuildHeap(_, _)
BuildHeap(a, i) == IF i < 0 THEN a ELSE BuildHeap(Heapify(a, Size(a), i), i - 1)

RECURSIVE PopHeap(_, _)
PopHeap(a, i) == IF i = 0 THEN a ELSE PopHeap(Heapify(Swap(a, 0, i), i, 0), i - 1)

HeapSort(a) == IF Size(a) <= 1 THEN a
               ELSE PopHeap(BuildHeap(a, Size(a) \div 2 - 1), Size(a) - 1)

\* The key moves left past everything greater.
RECURSIVE InsertFrom(_, _)
InsertFrom(a, j) == IF j > 0 /\ a[j] < a[j - 1] THEN InsertFrom(Swap(a, j, j - 1), j - 1) ELSE a

RECURSIVE InsertionFrom(_, _)
InsertionFrom(a, i) == IF i >= Size(a) THEN a ELSE InsertionFrom(InsertFrom(a, i), i + 1)
InsertionSort(a) == InsertionFrom(a, 1)

NotFound == -1

RECURSIVE BinarySearchIn(_, _, _, _)
BinarySearchIn(a, target, left, right) ==
    IF left >= right THEN NotFound
    ELSE LET mid == left + (right - left) \div 2 IN
         IF a[mid] < target THEN BinarySearchIn(a, target, mid + 1, right)
         ELSE IF target < a[mid] THEN BinarySearchIn(a, target, left, mid)
         ELSE mid
BinarySearch(a, target) == BinarySearchIn(a, target, 0, Size(a))

\* Mutant: stopping at the first element that is not less, equal or not.
BoundAtEqual(x, target) == x < target

UpperGoesRight(x, target) == ~(target < x)

RECURSIVE BoundIn(_, _, _, _, _)
BoundIn(a, target, left, right, upper) ==
    IF left >= right THEN left
    ELSE LET mid == left + (right - left) \div 2
             goRight == IF upper THEN UpperGoesRight(a[mid], target) ELSE a[mid] < target
         IN IF goRight THEN BoundIn(a, target, mid + 1, right, upper)
                       ELSE BoundIn(a, target, left, mid, upper)
LowerBound(a, target) == BoundIn(a, target, 0, Size(a), FALSE)
UpperBound(a, target) == BoundIn(a, target, 0, Size(a), TRUE)

\* With equal ends the quotient is infinite and 0 times it NaN, whose conversion to
\* size_t may give anything: a place outside of the vector too.
Undefined == -2

RECURSIVE InterpolationIn(_, _, _, _)
InterpolationIn(a, target, left, right) ==
    IF left > right \/ target < a[left] \/ target > a[right] THEN NotFound
    ELSE IF left = right THEN (IF a[left] = target THEN left ELSE NotFound)
    ELSE IF a[left] = a[right] THEN Undefined
    ELSE LET pos == left + ((right - left) * (target - a[left])) \div (a[right] - a[left]) IN
         IF a[pos] = target THEN pos
         ELSE IF a[pos] < target THEN InterpolationIn(a, target, pos + 1, right)
         ELSE InterpolationIn(a, target, left, pos - 1)
InterpolationSearch(a, target) ==
    IF Size(a) = 0 THEN NotFound ELSE InterpolationIn(a, target, 0, Size(a) - 1)

\* A predicate is given by the set of the elements that satisfy it.
RECURSIVE LinearFrom(_, _, _)
LinearFrom(a, S, i) == IF i >= Size(a) THEN NotFound
                       ELSE IF a[i] \in S THEN i ELSE LinearFrom(a, S, i + 1)
LinearSearch(a, S) == LinearFrom(a, S, 0)

RECURSIVE FindFrom(_, _, _)
FindFrom(a, S, i) == IF i >= Size(a) THEN <<>>
                     ELSE (IF a[i] \in S THEN <<i>> ELSE <<>>) \o FindFrom(a, S, i + 1)
FindAll(a, S) == FindFrom(a, S, 0)

\* max_element and min_element give the first of equal elements.
FindMax(a) == IF Size(a) = 0 THEN NotFound
              ELSE CHOOSE i \in DOMAIN a : \A j \in DOMAIN a :
                       a[j] < a[i] \/ (a[j] = a[i] /\ i <= j)
FindMin(a) == IF Size(a) = 0 THEN NotFound
              ELSE CHOOSE i \in DOMAIN a : \A j \in DOMAIN a :
                       a[i] < a[j] \/ (a[j] = a[i] /\ i <= j)

\* nth_element and partial_sort, by what they promise of places 0 to k.
NthElement(a, k) == CHOOSE x \in {a[i] : i \in DOMAIN a} :
                        /\ Cardinality({i \in DOMAIN a : a[i] < x}) <= k
                        /\ Cardinality({i \in DOMAIN a : a[i] <= x}) > k
PartialSort(a, k) == [i \in 0..(IF k >= Size(a) THEN Size(a) ELSE k) - 1 |-> NthElement(a, i)]

Sorted(a) == \A i \in DOMAIN a : i > 0 => a[i - 1] <= a[i]
Permutes(a, b) == /\ DOMAIN a = DOMAIN b
                  /\ \A x \in {a[i] : i \in DOMAIN a} \cup {b[i] : i \in DOMAIN b} :
                       Cardinality({i \in DOMAIN a : a[i] = x}) = Cardinality({i \in DOMAIN b : b[i] = x})

(***************************************************************************)
(* Each of the four sorts returns the vector's elements in order, equal    *)
(* ones and an empty vector included; findAll finds every place in turn,   *)
(* linearSearch the first of them, findMin and findMax the ends of the     *)
(* sorted vector and partialSort its beginning; and on a sorted vector the *)
(* other searches find an element exactly if it is there and the bounds    *)
(* are the first place not less than, and greater than, the target.        *)
(* interpolationSearch is right whenever its result is defined, which it   *)
(* need not be for a target that is there more than once.                  *)
(***************************************************************************)
SortsAndFinds(a, target) ==
    /\ \A s \in {QuickSort(a), MergeSort(a), HeapSort(a), InsertionSort(a)} :
         Sorted(s) /\ Permutes(a, s)
    /\ \A S \in {{target}, {x \in -1..6 : x # target}} :
         LET every == FindAll(a, S) IN
         /\ \A i, j \in DOMAIN every : i < j => every[i] < every[j]
         /\ {every[i] : i \in DOMAIN every} = {i \in DOMAIN a : a[i] \in S}
         /\ LinearSearch(a, S) = IF every = <<>> THEN NotFound ELSE every[1]
    /\ Size(a) > 0 =>
         LET s == MergeSort(a) IN
         /\ a[FindMin(a)] = s[0] /\ a[FindMax(a)] = s[Size(a) - 1]
         /\ \A k \in 0..Size(a) + 1 : \A i \in DOMAIN PartialSort(a, k) : PartialSort(a, k)[i] = s[i]
    /\ Sorted(a) =>
         LET at == BinarySearch(a, target)
             there == \E i \in DOMAIN a : a[i] = target
         IN /\ IF there THEN a[at] = target ELSE at = NotFound
            /\ LowerBound(a, target) = Cardinality({i \in DOMAIN a : a[i] < target})
            /\ UpperBound(a, target) = Cardinality({i \in DOMAIN a : a[i] <= target})
            /\ LET ip == InterpolationSearch(a, target) IN
               IF ip = Undefined
               THEN \E i, j \in DOMAIN a : i # j /\ a[i] = target /\ a[j] = target
               ELSE IF there THEN a[ip] = target ELSE ip = NotFound
=============================================================================
