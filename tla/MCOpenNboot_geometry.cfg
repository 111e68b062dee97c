SPECIFICATION MCSpec
CONSTANTS
 Candidates <- MCCandidates
 CHUNKS = 2
 PAGE_READ_TRIES = 2
 MAX_BAD_SKIP = 2
 IMAGE_PAGES = 3
 FlipBits = {0, 123, 124, 4095, 4127, 4128}
 Flashes <- MCFlashes
 SECTOR = 2
 ENTRIES = 3
 MAX_FAT32_ROOT_SECTORS = 5
 SD_BOOT_MAX = 10
 Volumes <- MCVolumes
INVARIANT NoWrongCandidate
